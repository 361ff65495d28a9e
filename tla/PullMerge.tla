------------------------------ MODULE PullMerge ------------------------------
(***************************************************************************)
(* Merging one pull request through the gateway: merge, auto-merge and its *)
(* cancellation (crates/fga-core/src/graphql/mutations.rs merge,           *)
(* crates/fga-core/src/forgejo/writes.rs merge_pull, cancel_auto_merge).   *)
(* Several gh processes may do this at once, each through a gateway of its *)
(* own, while people push and checks report.  Forgejo is as those files    *)
(* describe it: it handles each request at one moment, some time after it  *)
(* was sent and perhaps after the gateway gave up waiting.                 *)
(*                                                                         *)
(* The clock is left out: a retry may be the last one at any time.         *)
(***************************************************************************)
EXTENDS Naturals

CONSTANTS
    Requests,    \* GraphQL mutations of this pull request
    Styles,      \* merge, squash, rebase
    Allowed,     \* the styles the repository allows
    Nil,         \* no request, no head
    MaxHead      \* bound on pushes: heads are numbered from 1

ASSUME MergeAssumption ==
    /\ Allowed \subseteq Styles
    /\ Nil \notin Requests /\ Nil \notin Nat
    /\ MaxHead \in Nat \ {0}

Heads == 1..MaxHead

VARIABLES
    \* Forgejo
    head,       \* the pull request's head
    mode,       \* "checking", "clean" or "conflict"
    passing,    \* what branch protection requires is there
    schedule,   \* whose auto-merge is scheduled, or Nil
    woken,      \* an event woke the auto-merge worker, which has not run yet
    merged,     \* whose merge it was, or Nil
    mergedHead, \* which head that merged
    dropped,    \* history: the worker dropped a schedule for its style
    \* one GraphQL request each
    op, style, expected,  \* what was asked for
    phase,      \* where the request is
    sent,       \* it has sent what Forgejo has yet to handle
    reply,      \* Forgejo's answer to what was sent last
    retries,
    memo,       \* the pull request as memoized, or Unread
    answer, shown,  \* what the client got
    found, refusal  \* history: the schedule a cancellation found, the last direct refusal

forge == <<head, mode, passing, schedule, woken, merged, mergedHead, dropped>>
asked == <<op, style, expected>>
local == <<phase, sent, reply, retries, memo, answer, shown, found, refusal>>
mergeVars == <<forge, asked, local>>

Unread == [merged |-> Nil, schedule |-> Nil, read |-> FALSE]
Pull == [merged |-> merged, schedule |-> schedule, read |-> TRUE]

MergeInit ==
    /\ head = 1 /\ mode \in {"checking", "clean", "conflict"} /\ passing \in BOOLEAN
    /\ schedule = Nil /\ woken = FALSE
    /\ merged = Nil /\ mergedHead = Nil /\ dropped = FALSE
    /\ op \in [Requests -> {"merge", "auto", "cancel"}]
    /\ style \in [Requests -> Styles]
    /\ expected \in [Requests -> Heads \cup {Nil}]
    /\ phase = [r \in Requests |-> "start"]
    /\ sent = [r \in Requests |-> FALSE]
    /\ reply = [r \in Requests |-> "none"]
    /\ retries = [r \in Requests |-> 1]
    /\ memo = [r \in Requests |-> Unread]
    /\ answer = [r \in Requests |-> "none"]
    /\ shown = [r \in Requests |-> Unread]
    /\ found = [r \in Requests |-> Nil]
    /\ refusal = [r \in Requests |-> "none"]

-----------------------------------------------------------------------------
(* Forgejo.                                                                *)

Mergeable == merged = Nil /\ mode = "clean" /\ passing

Merges(r) ==
    /\ merged' = r /\ mergedHead' = head
    /\ schedule' = Nil

(* Its answer reaches the gateway unless that gave up.                     *)
Replies(r, x) ==
    /\ sent' = [sent EXCEPT ![r] = FALSE]
    /\ reply' = [reply EXCEPT ![r] = x]

(* Why a direct merge may be refused.  "other" stands for the refusals     *)
(* nothing here causes: permission, a draft, signatures, a hook.           *)
Refusals(r) ==
    {x \in {"already merged", "checking", "conflict", "protected", "style", "head"} :
        \/ x = "already merged" /\ merged # Nil
        \/ x \in {"checking", "conflict"} /\ mode = x
        \/ x = "protected" /\ ~passing
        \/ x = "style" /\ style[r] \notin Allowed
        \/ x = "head" /\ expected[r] \notin {Nil, head}}

ForgeMerges(r) ==
    /\ sent[r] /\ phase[r] \in {"direct", "gone direct"}
    /\ \/ /\ Refusals(r) = {}
          /\ Merges(r) /\ Replies(r, "ok")
       \/ /\ \E x \in Refusals(r) \cup {"other"} \cup (IF merged = Nil THEN {"base"} ELSE {}) :
               Replies(r, x)
          /\ UNCHANGED <<merged, mergedHead, schedule>>
    /\ UNCHANGED <<head, mode, passing, woken, dropped, asked, phase, retries, memo,
                   answer, shown, found, refusal>>

(* It always schedules, and looks at neither head nor style.               *)
ForgeSchedules(r) ==
    /\ sent[r] /\ phase[r] \in {"schedule", "gone schedule"}
    /\ \/ merged = Nil /\ schedule = Nil /\ schedule' = r /\ Replies(r, "ok")
       \/ /\ \E x \in {"other"} \cup (IF merged # Nil THEN {"already merged"} ELSE {})
                               \cup (IF schedule # Nil THEN {"already scheduled"} ELSE {}) :
               Replies(r, x)
          /\ UNCHANGED schedule
    /\ UNCHANGED <<head, mode, passing, woken, merged, mergedHead, dropped, asked, phase,
                   retries, memo, answer, shown, found, refusal>>

ForgeCancels(r) ==
    /\ sent[r] /\ phase[r] \in {"delete", "gone delete"}
    /\ \/ schedule # Nil /\ schedule' = Nil /\ Replies(r, "ok")
       \/ schedule = Nil /\ UNCHANGED schedule /\ Replies(r, "not found")
       \/ UNCHANGED schedule /\ Replies(r, "other")
    /\ UNCHANGED <<head, mode, passing, woken, merged, mergedHead, dropped, asked, phase,
                   retries, memo, answer, shown, found, refusal>>

(* Only a status, a review or a push wakes the worker, which merges        *)
(* whatever head there is, in the style it was given; it drops the         *)
(* schedule first, and for good if the base moves under the merge          *)
(* (docs/gateway/MAPPING.md, 6, F16).                                      *)
WorkerRuns ==
    /\ woken /\ woken' = FALSE
    /\ \/ /\ schedule # Nil /\ style[schedule] \notin Allowed
          /\ dropped' = TRUE /\ schedule' = Nil /\ UNCHANGED <<merged, mergedHead>>
       \/ /\ schedule # Nil /\ style[schedule] \in Allowed /\ Mergeable
          /\ Merges(schedule) \/ (schedule' = Nil /\ UNCHANGED <<merged, mergedHead>>)
          /\ UNCHANGED dropped
       \/ /\ schedule # Nil => style[schedule] \in Allowed /\ ~Mergeable
          /\ UNCHANGED <<schedule, merged, mergedHead, dropped>>
    /\ UNCHANGED <<head, mode, passing, asked, local>>

StatusOrReview ==
    /\ merged = Nil
    /\ passing' \in BOOLEAN /\ woken' = TRUE
    /\ UNCHANGED <<head, mode, schedule, merged, mergedHead, dropped, asked, local>>

Push ==
    /\ merged = Nil /\ head < MaxHead
    /\ head' = head + 1 /\ mode' = "checking" /\ passing' \in BOOLEAN /\ woken' = TRUE
    /\ UNCHANGED <<schedule, merged, mergedHead, dropped, asked, local>>

Checked ==
    /\ mode = "checking" /\ mode' \in {"clean", "conflict"}
    /\ UNCHANGED <<head, passing, schedule, woken, merged, mergedHead, dropped, asked, local>>

World == WorkerRuns \/ StatusOrReview \/ Push \/ Checked
         \/ \E r \in Requests : ForgeMerges(r) \/ ForgeSchedules(r) \/ ForgeCancels(r)

-----------------------------------------------------------------------------
(* The gateway.                                                            *)

(* send: one more request is on its way.                                   *)
Sends(r, what) ==
    /\ sent' = [sent EXCEPT ![r] = TRUE]
    /\ reply' = [reply EXCEPT ![r] = "none"]
    /\ phase' = [phase EXCEPT ![r] = what]
    /\ UNCHANGED <<forge, asked, answer, shown>>

(* The mutation ends with an error: a refusal, or one nobody can tell the  *)
(* outcome from.                                                           *)
Ends(r, how, where) ==
    /\ phase' = [phase EXCEPT ![r] = where]
    /\ answer' = [answer EXCEPT ![r] = how]
    /\ UNCHANGED <<forge, asked, sent, reply, retries, memo, shown, found>>

(* write: after any reply, memoized reads are forgotten.                   *)
Forgets(r) == memo' = [memo EXCEPT ![r] = Unread]

Heard(r, step) == phase[r] = step /\ reply[r] # "none"

StartMerge(r) ==
    /\ phase[r] = "start" /\ op[r] = "merge"
    /\ Sends(r, "direct")
    /\ UNCHANGED <<retries, memo, found, refusal>>

(* Variants: an expected head, or a style, is left for Forgejo to refuse.  *)
StartAuto_AnyHead(r) ==
    /\ phase[r] = "start" /\ op[r] = "auto"
    /\ \/ /\ style[r] \notin Allowed
          /\ Ends(r, "refused", "done")
       \/ /\ style[r] \in Allowed
          /\ Sends(r, "direct")
          /\ UNCHANGED <<retries, memo, found>>
    /\ UNCHANGED refusal
StartAuto_AnyStyle(r) ==
    /\ phase[r] = "start" /\ op[r] = "auto"
    /\ \/ /\ expected[r] # Nil
          /\ Ends(r, "refused", "done")
       \/ /\ expected[r] = Nil
          /\ Sends(r, "direct")
          /\ UNCHANGED <<retries, memo, found>>
    /\ UNCHANGED refusal

(* A schedule can honour no expected head, and drops a style that is not   *)
(* allowed.                                                                *)
StartAuto(r) ==
    /\ phase[r] = "start" /\ op[r] = "auto"
    /\ \/ /\ expected[r] # Nil \/ style[r] \notin Allowed
          /\ Ends(r, "refused", "done")
       \/ /\ expected[r] = Nil /\ style[r] \in Allowed
          /\ Sends(r, "direct")
          /\ UNCHANGED <<retries, memo, found>>
    /\ UNCHANGED refusal

(* A missing pull request must still fail, so it is read first.            *)
StartCancel(r) ==
    /\ phase[r] = "start" /\ op[r] = "cancel"
    /\ phase' = [phase EXCEPT ![r] = "loaded"]
    /\ memo' = [memo EXCEPT ![r] = Pull]
    /\ found' = [found EXCEPT ![r] = schedule]
    /\ UNCHANGED <<forge, asked, sent, reply, retries, answer, shown, refusal>>

Cancel(r) ==
    /\ phase[r] = "loaded"
    /\ Sends(r, "delete")
    /\ UNCHANGED <<retries, memo, found, refusal>>

(* merge_pull: "Please try again later" is worth another try, for a while. *)
Later == {"checking", "conflict"}
TryAgain(r) ==
    /\ Heard(r, "direct") /\ reply[r] \in Later
    /\ Sends(r, "direct") /\ Forgets(r)
    /\ UNCHANGED <<retries, found, refusal>>

(* merge: what a direct merge's refusal means for a merge and an           *)
(* auto-merge.                                                             *)
Refused(r) ==
    /\ Heard(r, "direct") /\ reply[r] # "ok"
    /\ refusal' = [refusal EXCEPT ![r] = reply[r]]
    /\ \/ op[r] = "auto" /\ reply[r] = "base" /\ retries[r] > 0
          /\ Sends(r, "direct") /\ Forgets(r)
          /\ retries' = [retries EXCEPT ![r] = @ - 1] /\ UNCHANGED found
       \/ op[r] = "auto" /\ reply[r] \in Later \cup {"protected"}
          /\ Sends(r, "schedule") /\ Forgets(r)
          /\ UNCHANGED <<retries, found>>
       \/ (op[r] = "auto" => reply[r] \notin Later \cup {"protected"}
                             /\ ~(reply[r] = "base" /\ retries[r] > 0))
          /\ Ends(r, "refused", "done")

NotScheduled(r) ==
    /\ Heard(r, "schedule") /\ reply[r] # "ok"
    /\ Ends(r, "refused", "done") /\ UNCHANGED refusal

NotCancelled(r) ==
    /\ Heard(r, "delete") /\ reply[r] = "other"
    /\ Ends(r, "refused", "done") /\ UNCHANGED refusal

(* Variant: a write keeps what was read before it.                         *)
Written_KeepsReads(r) ==
    /\ phase[r] \in {"direct", "schedule", "delete"} /\ reply[r] \in {"ok", "not found"}
    /\ phase' = [phase EXCEPT ![r] = "read back"]
    /\ UNCHANGED <<forge, asked, sent, reply, retries, memo, answer, shown, found, refusal>>

(* It worked, or there was nothing to cancel.                              *)
Written(r) ==
    /\ phase[r] \in {"direct", "schedule", "delete"} /\ reply[r] \in {"ok", "not found"}
    /\ phase' = [phase EXCEPT ![r] = "read back"]
    /\ Forgets(r)
    /\ UNCHANGED <<forge, asked, sent, reply, retries, answer, shown, found, refusal>>

(* pull_request, from the memo if it has one.                              *)
ReadBack(r) ==
    /\ phase[r] = "read back"
    /\ LET pull == IF memo[r].read THEN memo[r] ELSE Pull
       IN  /\ memo' = [memo EXCEPT ![r] = pull]
           /\ shown' = [shown EXCEPT ![r] = pull]
    /\ phase' = [phase EXCEPT ![r] = "done"]
    /\ answer' = [answer EXCEPT ![r] = "ok"]
    /\ UNCHANGED <<forge, asked, sent, reply, retries, found, refusal>>

(* Variant: a direct merge nobody answered is sent again.                  *)
GivesUp_Resends(r) ==
    \/ /\ phase[r] = "direct"
       /\ Sends(r, "direct")
       /\ UNCHANGED <<retries, memo, found, refusal>>
    \/ /\ phase[r] \in {"start", "loaded", "schedule", "delete", "read back"}
       /\ Ends(r, "error", IF sent[r] THEN
                IF phase[r] = "schedule" THEN "gone schedule" ELSE "gone delete"
              ELSE "done")
       /\ UNCHANGED refusal

Gone == [direct |-> "gone direct", schedule |-> "gone schedule", delete |-> "gone delete"]

(* No answer within the deadline, or one too large, or a read that fails.  *)
(* What was sent may still be handled.                                     *)
GivesUp(r) ==
    /\ phase[r] \in {"start", "loaded", "direct", "schedule", "delete", "read back"}
    /\ Ends(r, "error", IF sent[r] THEN Gone[phase[r]] ELSE "done")
    /\ UNCHANGED refusal

Request(r) ==
    \/ StartMerge(r) \/ StartAuto(r) \/ StartCancel(r) \/ Cancel(r)
    \/ TryAgain(r) \/ Refused(r) \/ NotScheduled(r) \/ NotCancelled(r)
    \/ Written(r) \/ ReadBack(r) \/ GivesUp(r)

MergeNext == World \/ \E r \in Requests : Request(r)

MergeSpec == MergeInit /\ [][MergeNext]_mergeVars

-----------------------------------------------------------------------------
View == [merged : Requests \cup {Nil}, schedule : Requests \cup {Nil}, read : BOOLEAN]

(* Every variable has its type.  (mutations.rs merge, writes.rs.)          *)
MergeTypeOK ==
    /\ head \in Heads /\ mode \in {"checking", "clean", "conflict"}
    /\ passing \in BOOLEAN /\ woken \in BOOLEAN /\ dropped \in BOOLEAN
    /\ schedule \in Requests \cup {Nil} /\ merged \in Requests \cup {Nil}
    /\ mergedHead \in Heads \cup {Nil}
    /\ op \in [Requests -> {"merge", "auto", "cancel"}]
    /\ style \in [Requests -> Styles] /\ expected \in [Requests -> Heads \cup {Nil}]
    /\ phase \in [Requests -> {"start", "loaded", "direct", "schedule", "delete", "read back",
                            "done", "gone direct", "gone schedule", "gone delete"}]
    /\ sent \in [Requests -> BOOLEAN]
    /\ reply \in [Requests -> {"none", "ok", "already merged", "checking", "conflict", "protected",
                               "style", "head", "base", "other", "already scheduled", "not found"}]
    /\ retries \in [Requests -> 0..1]
    /\ memo \in [Requests -> View] /\ shown \in [Requests -> View]
    /\ answer \in [Requests -> {"none", "ok", "refused", "error"}]
    /\ found \in [Requests -> Requests \cup {Nil}]

(* A merge that named a head merges that head and no other, whatever is    *)
(* pushed meanwhile, however often it is retried and whether Forgejo or    *)
(* its worker does it.                                                     *)
HeadHonoured ==
    merged # Nil => expected[merged] \in {Nil, mergedHead}

(* A refusal is the truth: a mutation answered so neither merged the pull  *)
(* request nor left an auto-merge behind, nor will it.                     *)
RefusedDidNothing ==
    \A r \in Requests : answer[r] = "refused" => merged # r /\ schedule # r /\ ~sent[r]

(* So is success: the merge answered as done is this request's and shows   *)
(* as merged; a cancelled auto-merge is gone and does not show.            *)
SuccessIsTrue ==
    \A r \in Requests : answer[r] = "ok" =>
        /\ op[r] = "merge" => merged = r /\ shown[r].merged = r
        /\ op[r] = "cancel" /\ found[r] # Nil =>
             schedule # found[r] /\ shown[r].schedule # found[r]

(* Forgejo's worker never finds an auto-merge the gateway had it schedule  *)
(* to be of a style it must drop it for.                                   *)
ScheduleKept == ~dropped

(* A pull request is merged only as somebody asked for: at the head the    *)
(* merge named, and no schedule is made that can only be dropped.          *)
(* (mutations.rs merge.)                                                   *)
MergesAsAsked == HeadHonoured /\ ScheduleKept

-----------------------------------------------------------------------------
(* What makes HeadHonoured and RefusedDidNothing inductive.  Only requests *)
(* that name no head and an allowed style come to schedule.                *)
Schedulable(r) == expected[r] = Nil /\ style[r] \in Allowed
AskedRight(r) ==
    /\ op[r] = "auto" /\ phase[r] \in {"direct", "gone direct"} => Schedulable(r)
    /\ phase[r] \in {"schedule", "gone schedule"} => Schedulable(r)

(* Forgejo answers what was sent once, and a refusal ends the request.     *)
SentOnce(r) ==
    /\ sent[r] => phase[r] \in {"direct", "schedule", "delete",
                             "gone direct", "gone schedule", "gone delete"}
    /\ sent[r] /\ phase[r] \in {"direct", "schedule", "delete"} => reply[r] = "none"
    /\ answer[r] = "refused" => phase[r] = "done"
    /\ phase[r] \in {"gone direct", "gone schedule", "gone delete"} => answer[r] = "error"

(* Nothing of a request is there before Forgejo answered it with success.  *)
Waiting(r) ==
    \/ answer[r] = "refused"
    \/ phase[r] \in {"start", "loaded", "delete", "gone delete"}
    \/ phase[r] \in {"direct", "schedule"} /\ reply[r] # "ok"
Clean(r) == Waiting(r) => merged # r /\ schedule # r

MergeInv ==
    /\ MergeTypeOK
    /\ \A r \in Requests : AskedRight(r) /\ SentOnce(r) /\ Clean(r)
    /\ schedule # Nil => Schedulable(schedule)
    /\ HeadHonoured /\ ScheduleKept

(* What SuccessIsTrue adds.  A request schedules once: whose schedule is   *)
(* there, or was found, has nothing left to send.                          *)
Spent(r) == ~sent[r] /\ phase[r] \in {"schedule", "gone schedule", "read back", "done"}

(* A request takes its own steps, reads back after it forgot what it had   *)
(* read, and succeeds last.                                                *)
OnTrack(r) ==
    /\ op[r] = "merge" => phase[r] \in {"start", "direct", "gone direct", "read back", "done"}
    /\ op[r] = "cancel" =>
         phase[r] \in {"start", "loaded", "delete", "gone delete", "read back", "done"}
    /\ phase[r] \in {"direct", "schedule"} => reply[r] # "not found"
    /\ phase[r] = "read back" => ~memo[r].read
    /\ answer[r] = "ok" => phase[r] = "done"

(* Forgejo did it: it said so, or there was nothing to do.                 *)
Done(r) ==
    \/ phase[r] \in {"direct", "delete"} /\ reply[r] \in {"ok", "not found"}
    \/ phase[r] = "read back" \/ answer[r] = "ok"
DoneFor(r) ==
    /\ op[r] = "merge" /\ Done(r) => merged = r
    /\ op[r] = "cancel" /\ found[r] # Nil /\ Done(r) => schedule # found[r]

SInv ==
    /\ MergeInv /\ SuccessIsTrue
    /\ schedule # Nil => Spent(schedule)
    /\ \A r \in Requests :
         OnTrack(r) /\ DoneFor(r) /\ (found[r] # Nil => Spent(found[r]))
=============================================================================
