------------------------------ MODULE PullView ------------------------------
(***************************************************************************)
(* What the gateway tells gh of a pull request (graphql::pulls, map::      *)
(* pulls): whether it may be merged and who has decided what, whether its  *)
(* branch may be fetched and deleted, and whether a merge is scheduled and *)
(* by whom that can be changed.  Forgejo answers none of these; the        *)
(* gateway derives them from the lists Forgejo serves (reviews, statuses,  *)
(* rules, timeline, references).  The variables hold each list as Forgejo  *)
(* keeps it and, beside it, what has really happened.                      *)
(***************************************************************************)
EXTENDS Checks

CONSTANTS
    Users,
    Writers,     \* those whose reviews are official
    RuleLists,   \* the branch protections a repository may have
    Viewers,     \* whose tokens the gateway may hold
    MaxMoves     \* bounds the events of a pull request

\* A rule of branch protection, and what a timeline has of scheduled merges.
RuleType == [plain : BOOLEAN, covers : BOOLEAN, on : BOOLEAN, patterns : SUBSET SUBSET Contexts,
             approvals : Nat, rejected : BOOLEAN, stale : BOOLEAN, requests : BOOLEAN,
             outdated : BOOLEAN, files : BOOLEAN, limits : BOOLEAN]
ScheduleType == [by : Users, live : BOOLEAN]
EventType == [kind : {"schedule", "cancel", "comment"}, user : Users, time : Nat, id : Nat]
HeadNames == {"topic", "refs/topic"}

ASSUME PullViewAssumption ==
    /\ Writers \subseteq Users /\ MaxMoves \in Nat /\ RuleLists \subseteq Seq(RuleType)
    /\ None \notin Users \union RuleType \union EventType \union ScheduleType \union HeadNames
                       \union {"base", "fork", "approved", "changes_requested", "review_required"}

VARIABLES
    pull,        \* [state, merged, draft, fits, touches, held]: does it merge cleanly,
                 \* change protected files, and is it refused for what no read shows
    rules,       \* the repository's rules, in creation order
    late,        \* the base has commits the head has not
    reviews,     \* GET .../pulls/N/reviews
    word,        \* each writer's latest verdict: [on, at], on which commit
    asked,       \* the writers whose review is asked for
    statuses,    \* GET .../commits/<head>/statuses
    ci,          \* the newest state of each context
    head,        \* [kind, name, tip, ref]: "own" or "fork" branch, or "agit"; the
                 \* branch's commit, 0 if it is gone, and that of refs/pull/N/head
    timeline,    \* GET .../issues/N/timeline
    scheduled,   \* the schedule last made and not cancelled: by whom, and is it there
    clock,       \* in seconds
    moves        \* the events so far

viewVars == <<pull, rules, late, reviews, word, asked, statuses, ci, head, timeline, scheduled, clock, moves>>

Open == pull.state = "open" /\ ~pull.merged

(***************************************************************************)
(* The branch's protection                                                 *)
(***************************************************************************)

\* Protection::for_branch: the first that covers it, plain names before globs, then in
\* creation order.
ForBranch(list) ==
    LET covering == {i \in DOMAIN list : list[i].covers}
        ahead(i, j) == IF list[i].plain = list[j].plain THEN i <= j ELSE list[i].plain
    IN  IF covering = {} THEN None ELSE list[CHOOSE i \in covering : \A j \in covering : ahead(i, j)]

\* The rule Forgejo applies: GetFirstMatched.
Effective ==
    LET fits == {i \in DOMAIN rules : rules[i].covers}
        best == IF \E i \in fits : rules[i].plain THEN {i \in fits : rules[i].plain} ELSE fits
    IN  IF best = {} THEN None ELSE rules[CHOOSE i \in best : \A j \in best : i <= j]

\* BranchSummary: what anyone who reads code sees of it.
Summary ==
    IF Effective = None THEN None
    ELSE [Effective EXCEPT !.rejected = FALSE, !.stale = FALSE, !.requests = FALSE,
                           !.outdated = FALSE, !.files = FALSE]
UserCanMerge(v) == v.writes /\ (Effective # None /\ Effective.limits => v.listed)

\* Session::protection: an admin's token reads the rules, if it is not confined to
\* some repositories; anyone else's, a part of the effective one.
Protection(v) ==
    IF v.admin /\ ~v.confined
    THEN [rule |-> ForBranch(rules), partial |-> FALSE]
    ELSE [rule |-> Summary, partial |-> Summary # None]

GatesReviews(p) == p.rule # None /\ (p.rule.approvals > 0 \/ p.rule.rejected \/ p.rule.requests)

(***************************************************************************)
(* The verdict: map::mergeable, review_decision, merge_state               *)
(***************************************************************************)

\* Forgejo's false may also say that it is still checking.
Mergeable == IF ~pull.draft /\ Open /\ pull.fits THEN "mergeable" ELSE "unknown"

Official(state) == {r \in reviews : r.official /\ ~r.dismissed /\ r.state = state}

ReviewDecision(p) ==
    IF ~GatesReviews(p) THEN None
    ELSE LET rule == p.rule
             approvals == {r \in Official("APPROVED") : ~(rule.stale /\ r.stale)}
             requested == \E r \in reviews : r.official /\ r.state = "REQUEST_REVIEW"
         IN  IF rule.rejected /\ Official("REQUEST_CHANGES") # {} THEN "changes_requested"
             ELSE IF Cardinality(approvals) < rule.approvals \/ (rule.requests /\ requested) THEN "review_required"
             ELSE IF p.partial THEN None ELSE "approved"

\* Session::behind: the base's commits missing from the head, if the compare is found.
Compares == {"found", "missing"}
Behind(compare) == compare = "found" /\ late

\* Mutant: the rules hidden from the token count as off.
MergeState_Partial(p, compare) ==
    IF Mergeable = "unknown" THEN "unknown"
    ELSE IF p.rule # None /\ p.rule.outdated /\ Behind(compare) THEN "behind"
    ELSE IF \/ p.rule # None /\ ~RequiredPass(statuses, p.rule)
            \/ ReviewDecision(p) \in {"changes_requested", "review_required"} THEN "blocked"
    ELSE IF p.rule # None /\ p.rule.files THEN "unknown"
    ELSE IF statuses # <<>> /\ Rollup(statuses) # "success" THEN "unstable" ELSE "clean"

MergeState(p, compare) ==
    IF Mergeable = "unknown" THEN "unknown"
    ELSE IF p.rule # None /\ p.rule.outdated /\ Behind(compare) THEN "behind"
    ELSE IF \/ p.rule # None /\ ~RequiredPass(statuses, p.rule)
            \/ ReviewDecision(p) \in {"changes_requested", "review_required"} THEN "blocked"
    ELSE IF p.rule # None /\ (p.partial \/ p.rule.files) THEN "unknown"
    ELSE IF statuses # <<>> /\ Rollup(statuses) # "success" THEN "unstable" ELSE "clean"

(***************************************************************************)
(* The head: Branch, pull_head, is_cross_repository, head_repository       *)
(***************************************************************************)

\* services/convert/pull.go: the branch while it is there, else the pull's own ref.
There == head.kind # "agit" /\ head.tip # 0
Branch == [label |-> IF head.kind = "agit" THEN None ELSE head.name,
           ref |-> IF There THEN head.name ELSE "refs/pull/1/head",
           sha |-> IF There THEN head.tip ELSE head.ref,
           repo |-> CASE head.kind = "fork" -> "fork" [] head.kind = "fork_gone" -> None [] OTHER -> "base"]

\* Branch::exists, Branch::name
Exists == Branch.label # None /\ Branch.ref = Branch.label /\ Branch.ref # "refs/topic"
HeadRefName == IF Branch.ref \in {"refs/pull/1/head"} /\ Branch.label # None THEN Branch.label ELSE Branch.ref

\* Mutant: the branch is there, whatever it now holds.
HeadIsPrHead_Named == Exists /\ Open

\* The pull's own ref is read; should that fail, the branch is not its head.
HeadIsPrHead == Exists /\ Open /\ head.ref = Branch.sha

IsCrossRepository == Branch.repo # "base" \/ (Open /\ ~HeadIsPrHead)
HeadRepository == IF Branch.repo # None /\ HeadIsPrHead THEN Branch.repo ELSE None

(***************************************************************************)
(* Scheduled merges                                                        *)
(***************************************************************************)

MergeEvents == {e \in {timeline[i] : i \in DOMAIN timeline} : e.kind \in {"schedule", "cancel"}}

\* auto_merge_event: the newest of both kinds, if it schedules.
AutoMergeEvent ==
    LET newest == {e \in MergeEvents : \A o \in MergeEvents : ~Newer(o, e)}
        all == {e \in newest : e.kind = "schedule"}
    IN  IF all = {} THEN None ELSE CHOOSE e \in all : TRUE

\* Without read:issue the timeline, and a schedule, cannot be seen.
AutoMergeRequest(v) == IF Open /\ v.issues THEN AutoMergeEvent ELSE None

ViewerCanMerge(v) == ~v.archived /\ v.writes /\ UserCanMerge(v)

\* Mutant: an unseen schedule is none.
CanEnableAutoMerge_Unseen(v, compare) ==
    /\ pull.state = "open" /\ ~pull.draft /\ ViewerCanMerge(v)
    /\ AutoMergeRequest(v) = None
    /\ MergeState(Protection(v), compare) \in {"blocked", "behind"}

CanEnableAutoMerge(v, compare) ==
    /\ pull.state = "open" /\ ~pull.draft /\ ViewerCanMerge(v)
    /\ v.issues /\ AutoMergeEvent = None
    /\ MergeState(Protection(v), compare) \in {"blocked", "behind"}

CanDisableAutoMerge(v) ==
    LET request == AutoMergeRequest(v)
    IN  /\ request # None
        /\ IF request.user = v.login THEN ~v.archived ELSE ViewerCanMerge(v)

(***************************************************************************)
(* Forgejo                                                                 *)
(***************************************************************************)

NoWord == [on |-> "none", at |-> 0]

StatusGate(rule) ==
    LET good(set) == \E c \in set : ci[c] # "none"
        green(set) == \A c \in set : ci[c] \in {"none", "success"}
    IN  ~rule.on \/ (IF rule.patterns = {} THEN good(Contexts) /\ green(Contexts)
                     ELSE \A p \in rule.patterns : good(p) /\ green(p))
ReviewGate(rule) ==
    /\ Cardinality({u \in Users : word[u].on = "APPROVED" /\ (rule.stale => word[u].at = head.ref)})
          >= rule.approvals
    /\ rule.rejected => \A u \in Users : word[u].on # "REQUEST_CHANGES"
    /\ rule.requests => asked = {}

\* Would Forgejo merge it, for somebody who may?  It may refuse for what the gateway
\* learns only from the refusal: a merge it cannot sign where the rule wants it signed, an
\* issue it depends on, a hook (forgejo::writes, WriteError).
MergeGate ==
    /\ Open /\ ~pull.draft /\ pull.fits /\ ~pull.held
    /\ Effective # None =>
          /\ StatusGate(Effective) /\ ReviewGate(Effective)
          /\ Effective.outdated => ~late
          /\ Effective.files => ~pull.touches

ViewInit ==
    /\ \E draft, touches \in BOOLEAN :
          pull = [state |-> "open", merged |-> FALSE, draft |-> draft, fits |-> TRUE, touches |-> touches,
                  held |-> FALSE]
    /\ rules \in RuleLists /\ late = FALSE
    /\ reviews = {} /\ word = [u \in Users |-> NoWord] /\ asked = {}
    /\ statuses = <<>> /\ ci = [c \in Contexts |-> "none"]
    /\ \E kind \in {"own", "fork", "agit"}, name \in HeadNames :
          head = [kind |-> kind, name |-> name, tip |-> IF kind = "agit" THEN 0 ELSE 1, ref |-> 1]
    /\ timeline = <<>> /\ scheduled = None /\ clock = 1 /\ moves = 0

Moves == moves < MaxMoves /\ moves' = moves + 1

NewReview(u, state, official) ==
    [user |-> u, state |-> state, official |-> official /\ u \in Writers, dismissed |-> FALSE,
     stale |-> FALSE, id |-> moves]

\* A verdict takes the weight of the writer's earlier ones, and answers the request.
Review(u, state) ==
    /\ Moves /\ Open
    /\ LET rated == state # "COMMENT"
           kept == {r \in reviews : ~(r.user = u /\ r.state = "REQUEST_REVIEW")}
       IN  /\ reviews' = {[r EXCEPT !.official = @ /\ ~(rated /\ r.user = u)] : r \in kept}
                             \union {NewReview(u, state, rated)}
           /\ word' = IF ~rated THEN word
                      ELSE [word EXCEPT ![u] = IF u \in Writers THEN [on |-> state, at |-> head.ref] ELSE NoWord]
    /\ asked' = asked \ {u}
    /\ UNCHANGED <<pull, rules, late, statuses, ci, head, timeline, scheduled, clock>>

Request(u) ==
    /\ Moves /\ Open /\ u \notin asked
    /\ reviews' = reviews \union {NewReview(u, "REQUEST_REVIEW", TRUE)}
    /\ asked' = IF u \in Writers THEN asked \union {u} ELSE asked
    /\ UNCHANGED <<pull, rules, late, word, statuses, ci, head, timeline, scheduled, clock>>

Dismiss(r) ==
    /\ Moves /\ r.state \in {"APPROVED", "REQUEST_CHANGES"} /\ ~r.dismissed
    /\ reviews' = (reviews \ {r}) \union {[r EXCEPT !.dismissed = TRUE]}
    /\ word' = IF r.official THEN [word EXCEPT ![r.user] = NoWord] ELSE word
    /\ UNCHANGED <<pull, rules, late, asked, statuses, ci, head, timeline, scheduled, clock>>

Report(c, state) ==
    /\ Moves
    /\ statuses' = Append(statuses, [context |-> c, state |-> state, note |-> "none", time |-> clock, id |-> moves])
    /\ ci' = [ci EXCEPT ![c] = state]
    /\ UNCHANGED <<pull, rules, late, reviews, word, asked, head, timeline, scheduled, clock>>

Outdated == {[r EXCEPT !.stale = TRUE] : r \in reviews}

\* The pull's own ref follows an open pull request's branch, and its reviews are of
\* another commit then; statuses are of the branch's.
Follow ==
    /\ head.kind # "agit" /\ head.tip \notin {0, head.ref} /\ Open
    /\ head' = [head EXCEPT !.ref = head.tip]
    /\ reviews' = Outdated
    /\ UNCHANGED <<pull, rules, late, word, asked, statuses, ci, timeline, scheduled, clock, moves>>

\* A push makes the branch again if it is gone.
PushHead ==
    /\ Moves
    /\ IF head.kind = "agit" THEN Open /\ head' = [head EXCEPT !.ref = moves + 2]
       ELSE head.kind # "fork_gone" /\ head' = [head EXCEPT !.tip = moves + 2]
    /\ reviews' = IF head.kind = "agit" THEN Outdated ELSE reviews
    /\ statuses' = <<>> /\ ci' = [c \in Contexts |-> "none"] /\ late' \in BOOLEAN
    /\ UNCHANGED <<pull, rules, word, asked, timeline, scheduled, clock>>

\* The branch is deleted, or its fork.  Forgejo closes the pull request, or not.
Lose ==
    /\ Moves /\ There
    /\ \/ head' = [head EXCEPT !.tip = 0]
       \/ head.kind = "fork" /\ head' = [head EXCEPT !.tip = 0, !.kind = "fork_gone"]
    /\ \E state \in {pull.state, "closed"} : pull' = [pull EXCEPT !.state = state]
    /\ IF head.tip = head.ref THEN UNCHANGED <<statuses, ci>>
       ELSE statuses' = <<>> /\ ci' = [c \in Contexts |-> "none"]
    /\ UNCHANGED <<rules, late, reviews, word, asked, timeline, scheduled, clock>>

\* The author closes and reopens it, which leaves its ref alone; a conflict appears or
\* goes; it is a draft, or ready; what holds it comes or goes.
Edit ==
    /\ Moves /\ ~pull.merged
    /\ \/ \E state \in {"open", "closed"} \ {pull.state} : pull' = [pull EXCEPT !.state = state]
       \/ pull' = [pull EXCEPT !.fits = ~@]
       \/ pull' = [pull EXCEPT !.draft = ~@]
       \/ pull' = [pull EXCEPT !.held = ~@]
    /\ UNCHANGED <<rules, late, reviews, word, asked, statuses, ci, head, timeline, scheduled, clock>>

Merge ==
    /\ Moves /\ MergeGate
    /\ pull' = [pull EXCEPT !.merged = TRUE, !.state = "closed"] /\ scheduled' = None
    /\ UNCHANGED <<rules, late, reviews, word, asked, statuses, ci, head, timeline, clock>>

Protect ==
    /\ Moves /\ rules' \in RuleLists \ {rules}
    /\ UNCHANGED <<pull, late, reviews, word, asked, statuses, ci, head, timeline, scheduled, clock>>

Event(kind, u) == Append(timeline, [kind |-> kind, user |-> u, time |-> clock, id |-> moves])

Live == scheduled # None /\ scheduled.live

\* A schedule is made or cancelled; with none there, a cancel leaves no event.
Plan(u) ==
    /\ Moves /\ Open
    /\ \/ ~Live /\ scheduled' = [by |-> u, live |-> TRUE] /\ timeline' = Event("schedule", u)
       \/ Live /\ scheduled' = None /\ timeline' = Event("cancel", u)
       \/ timeline' = Event("comment", u) /\ UNCHANGED scheduled
    /\ UNCHANGED <<pull, rules, late, reviews, word, asked, statuses, ci, head, clock>>

\* Forgejo's worker deletes a schedule before it tries the merge, once the statuses pass,
\* and leaves no event when the merge fails (docs/gateway/MAPPING.md, 6, F16).
Drop ==
    /\ Moves /\ Open /\ Live /\ (Effective # None => StatusGate(Effective))
    /\ scheduled' = [scheduled EXCEPT !.live = FALSE]
    /\ UNCHANGED <<pull, rules, late, reviews, word, asked, statuses, ci, head, timeline, clock>>

Tick == clock = 1 /\ clock' = 2
        /\ UNCHANGED <<pull, rules, late, reviews, word, asked, statuses, ci, head, timeline, scheduled, moves>>

Reviewing ==
    \/ \E u \in Users, state \in {"APPROVED", "REQUEST_CHANGES", "COMMENT"} : Review(u, state)
    \/ \E u \in Users : Request(u)
    \/ \E r \in reviews : Dismiss(r)
Building == \E c \in Contexts, state \in CommitStates : Report(c, state)
Branching == Follow \/ PushHead \/ Lose
Scheduling == (\E u \in Users : Plan(u)) \/ Drop \/ Tick
ViewNext == Reviewing \/ Building \/ Branching \/ Scheduling \/ Edit \/ Merge \/ Protect
ViewSpec == ViewInit /\ [][ViewNext]_viewVars

(***************************************************************************)
(* Properties                                                              *)
(***************************************************************************)

\* A pull request gh is told is clean or unstable Forgejo would merge, whoever asks and
\* however little of the rules its token reads, but for what no read shows: what holds it,
\* and commits the head lacks when the compare is missing.  One told blocked or behind, or
\* that wants a review, Forgejo's rule would refuse for that reason (merge_state,
\* review_decision, behind).
VerdictTruthful ==
    \A v \in Viewers, compare \in Compares :
        LET p == Protection(v)
            verdict == MergeState(p, compare)
            decision == ReviewDecision(p)
            unseen == pull.held \/ (compare = "missing" /\ Effective # None /\ Effective.outdated /\ late)
        IN  /\ verdict \in {"clean", "unstable"} => MergeGate \/ unseen
            /\ verdict = "blocked" => Effective # None /\ ~(StatusGate(Effective) /\ ReviewGate(Effective))
            /\ verdict = "behind" => Effective # None /\ Effective.outdated /\ late
            /\ decision = "approved" => ReviewGate(Effective)
            /\ decision \in {"changes_requested", "review_required"} => ~ReviewGate(Effective)

\* gh fetches the head branch, and for a pull request of the repository deletes it, by
\* its name: it is led to do so only while that name is a branch there on the very
\* commit of the pull request's own ref, and whenever it is (head_is_pr_head,
\* is_cross_repository, head_repository).
HeadNeverMistaken ==
    LET mine(repo) == There /\ head.tip = head.ref /\ Branch.repo = repo /\ HeadRefName = head.name
    IN  /\ Open /\ ~IsCrossRepository => mine("base")
        /\ HeadRepository # None => Open /\ mine(HeadRepository)
        /\ Open /\ mine("base") /\ head.name = "topic" => ~IsCrossRepository

\* gh is told of the scheduled merge its token can see, and of whose it is; of one that
\* was cancelled or never made it is told none, of one Forgejo dropped unannounced it still
\* is told.  It is offered to schedule one only while it is told of none and the rule
\* refuses a merge, and to cancel one only where Forgejo, if it is there, would let that
\* user (auto_merge_request, viewer_can_enable_auto_merge, viewer_can_disable_auto_merge).
AutoMergeOffered ==
    \A v \in Viewers :
        LET may == ~v.archived /\ v.writes /\ (Effective # None /\ Effective.limits => v.listed)
            told == AutoMergeRequest(v)
        IN  /\ Open /\ v.issues => (IF scheduled = None THEN told = None ELSE told # None /\ told.user = scheduled.by)
            /\ \A compare \in Compares : CanEnableAutoMerge(v, compare) => scheduled = None /\ Open /\ may /\ ~MergeGate
            /\ CanDisableAutoMerge(v) => /\ scheduled # None /\ Open /\ ~v.archived
                                         /\ scheduled.by = v.login \/ may

(***************************************************************************)
(* The inductive invariant                                                 *)
(***************************************************************************)

Ratings == {"APPROVED", "REQUEST_CHANGES"}
ReviewType == [user : Users, state : Ratings \union {"COMMENT", "REQUEST_REVIEW"}, official : BOOLEAN,
               dismissed : BOOLEAN, stale : BOOLEAN, id : Nat]

StateType == [state : {"open", "closed"}, merged : BOOLEAN, draft : BOOLEAN, fits : BOOLEAN, touches : BOOLEAN,
              held : BOOLEAN]
HeadType == [kind : {"own", "fork", "fork_gone", "agit"}, name : HeadNames, tip : Nat, ref : Nat]

ViewType ==
    /\ pull \in StateType
    /\ rules \in RuleLists /\ late \in BOOLEAN
    /\ reviews \in SUBSET ReviewType /\ IsFiniteSet(reviews)
    /\ word \in [Users -> [on : Ratings \union {"none"}, at : Nat]] /\ asked \subseteq Writers
    /\ statuses \in Seq(StatusType) /\ ci \in [Contexts -> CommitStates \union {"none"}]
    /\ head \in HeadType
    /\ timeline \in Seq(EventType) /\ scheduled \in ScheduleType \union {None}
    /\ clock \in Nat /\ moves \in Nat

\* The branch is at the pull request's own ref or ahead of it, or gone.
Ahead ==
    /\ pull.merged => pull.state = "closed"
    /\ head.kind \in {"agit", "fork_gone"} => head.tip = 0
    /\ head.ref # 0 /\ head.ref <= moves + 1 /\ head.tip <= moves + 1
    /\ head.tip # 0 => head.tip >= head.ref

\* Each writer's latest verdict is his one review that counts, and is stale once the
\* pull request is at another commit.
Counting(u) == {r \in reviews : r.user = u /\ r.official /\ ~r.dismissed /\ r.state # "REQUEST_REVIEW"}
Spoken ==
    /\ \A r \in reviews : r.official => r.user \in Writers /\ r.state # "COMMENT"
    /\ \A u \in Users :
         /\ word[u].at <= head.ref
         /\ IF word[u].on = "none" THEN Counting(u) = {}
            ELSE \E r \in reviews : /\ Counting(u) = {r} /\ r.state = word[u].on
                                    /\ r.stale <=> word[u].at # head.ref
    /\ asked = {r.user : r \in {r \in reviews : r.official /\ r.state = "REQUEST_REVIEW"}}

\* Later entries are newer, and the newest status of a context is its state.
InOrder(list) ==
    /\ \A i \in DOMAIN list : list[i].time <= clock /\ list[i].id < moves
    /\ \A i, j \in DOMAIN list : i < j => Newer(list[j], list[i])
Reported ==
    /\ InOrder(statuses)
    /\ \A c \in Contexts :
         IF ci[c] = "none" THEN c \notin ContextsOf(statuses)
         ELSE \E s \in Latest(statuses) : s.context = c /\ s.state = ci[c]

\* Until it is merged, the newest of the scheduled merge's events is of the schedule last
\* made, unless it was cancelled; it does not say that Forgejo still has it.
Planned ==
    /\ InOrder(timeline)
    /\ ~pull.merged =>
         IF scheduled = None
         THEN MergeEvents = {} \/ \E e \in MergeEvents : e.kind = "cancel" /\ \A o \in MergeEvents : ~Newer(o, e)
         ELSE \E e \in MergeEvents : e.kind = "schedule" /\ e.user = scheduled.by /\ \A o \in MergeEvents : ~Newer(o, e)

ViewInv == ViewType /\ Ahead /\ Spoken /\ Reported /\ Planned
=============================================================================
