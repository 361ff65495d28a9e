------------------------------- MODULE Checks -------------------------------
(***************************************************************************)
(* Commit statuses as gh sees them: Forgejo keeps every status posted for  *)
(* a commit; the gateway (map::checks) and the built-in commands           *)
(* (checks::aggregate, normalize) each make GitHub's checks of them, and   *)
(* the branch's protection says which ones count.  A status is             *)
(*   [context, state, note, time, id]                                      *)
(* with the note an Actions job's description leaves; ids grow as statuses *)
(* are posted, and two of one second have the same time.                   *)
(***************************************************************************)
EXTENDS Naturals, Sequences, FiniteSets

CONSTANTS
    None,
    Contexts,   \* the contexts of statuses
    Jobs        \* those that are "workflow / job (event)" and link to a run here

ASSUME ChecksAssumption == Jobs \subseteq Contexts

CommitStates == {"pending", "success", "error", "failure", "warning"}
Notes == {"none", "waiting", "blocked", "skipped", "cancelled"}
StatusType == [context : Contexts, state : CommitStates, note : Notes, time : Nat, id : Nat]

Posted(statuses) == {statuses[i] : i \in DOMAIN statuses}
ContextsOf(statuses) == {s.context : s \in Posted(statuses)}

(***************************************************************************)
(* map::checks                                                             *)
(***************************************************************************)

Newer(s, t) == s.time > t.time \/ (s.time = t.time /\ s.id > t.id)

\* The newest status of each context.
Latest(statuses) ==
    {s \in Posted(statuses) : \A t \in Posted(statuses) : t.context = s.context => ~Newer(t, s)}

\* What a job's status says of its run: [status, conclusion].
RunOf(s) ==
    CASE s.state = "pending" ->
            [status |-> CASE s.note = "waiting" -> "queued" [] s.note = "blocked" -> "waiting"
                          [] OTHER -> "in_progress",
             conclusion |-> "none"]
      [] s.state = "success" ->
            [status |-> "completed", conclusion |-> IF s.note = "skipped" THEN "skipped" ELSE "success"]
      [] OTHER ->
            [status |-> "completed", conclusion |-> IF s.note = "cancelled" THEN "cancelled" ELSE "failure"]

\* Another service's status: a warning is a failure.
PlainState(s) == IF s.state = "warning" THEN "failure" ELSE s.state

\* Check::state
CheckState(s) ==
    IF s.context \notin Jobs THEN PlainState(s)
    ELSE CASE RunOf(s).conclusion \in {"failure", "cancelled"} -> "failure"
           [] RunOf(s).status # "completed" -> "pending"
           [] OTHER -> "success"

Worst(states) ==
    IF states \intersect {"failure", "error"} # {} THEN "failure"
    ELSE IF "pending" \in states THEN "pending" ELSE "success"

\* map::rollup, of a commit that has checks.
Rollup(statuses) == Worst({CheckState(s) : s \in Latest(statuses)})

(***************************************************************************)
(* REST's two lists: check runs, and the combined status of the rest       *)
(***************************************************************************)

CheckRuns(statuses) == {s \in Latest(statuses) : s.context \in Jobs}

Combined(statuses) ==
    LET plain == {PlainState(s) : s \in Latest(statuses) \ CheckRuns(statuses)}
    IN  IF plain = {} THEN "pending" ELSE Worst(plain)

(***************************************************************************)
(* The branch's protection: [on, patterns], where a pattern is the set of  *)
(* contexts it matches                                                     *)
(***************************************************************************)

\* map::required
Required(context, rule) ==
    rule.on /\ (rule.patterns = {} \/ \E p \in rule.patterns : context \in p)

\* Mutant: a pattern that matches nothing is passed over.
RequiredPass_Unmatched(statuses, rule) ==
    ~rule.on \/ \A p \in rule.patterns : \A s \in Latest(statuses) : s.context \in p => s.state = "success"

\* map::required_checks_pass: every pattern is matched, by successes only; without
\* patterns, all of some statuses are successes.
RequiredPass(statuses, rule) ==
    LET all(set) == set # {} /\ \A s \in set : s.state = "success"
    IN  \/ ~rule.on
        \/ rule.patterns # {} /\ \A p \in rule.patterns : all({s \in Latest(statuses) : s.context \in p})
        \/ rule.patterns = {} /\ all(Latest(statuses))

(***************************************************************************)
(* pr checks: checks::aggregate and print                                  *)
(***************************************************************************)

Bucket(s) ==
    IF s.context \in Jobs
    THEN CASE RunOf(s).conclusion = "success" -> "pass"
           [] RunOf(s).conclusion = "skipped" -> "skipping"
           [] RunOf(s).conclusion = "failure" -> "fail"
           [] RunOf(s).conclusion = "cancelled" -> "cancel"
           [] OTHER -> "pending"
    ELSE CASE PlainState(s) = "success" -> "pass"
           [] PlainState(s) \in {"error", "failure"} -> "fail"
           [] OTHER -> "pending"

\* One row a context, of the required ones when asked.
Rows(statuses, required, rule) ==
    {s \in Latest(statuses) : required => Required(s.context, rule)}

\* 1, 8 or 0; a cancelled run is neither a failure nor pending here.
ExitOf(rows) ==
    LET buckets == {Bucket(s) : s \in rows}
    IN  IF "fail" \in buckets THEN "fail" ELSE IF "pending" \in buckets THEN "pending" ELSE "ok"

(***************************************************************************)
(* statusCheckRollup of the built-in commands: normalize's own mapping     *)
(***************************************************************************)

\* A later status of the list replaces an earlier one of the same time.
LatestShown(statuses) ==
    {statuses[i] : i \in {i \in DOMAIN statuses :
        \A j \in DOMAIN statuses :
            statuses[j].context = statuses[i].context =>
                \/ statuses[i].time > statuses[j].time
                \/ statuses[i].time = statuses[j].time /\ i >= j}}

\* status_state, which knows jobs and other statuses alike.
ShownState(s) ==
    CASE s.state = "success" -> "success"
      [] s.state = "failure" -> "failure"
      [] s.state \in {"error", "warning"} -> "error"
      [] OTHER -> "pending"

RollupShown(statuses) == Worst({ShownState(s) : s \in LatestShown(statuses)})
=============================================================================
