---------------------------- MODULE GatewayProofs ----------------------------
(* Proofs about what the gateway does for a request: a merge, for any      *)
(* requests, styles and pushes; the threads and references of a pull       *)
(* request, for any people, lines and length; the workflow of a run and    *)
(* the list of runs, for any pages and length; and a search, for any items *)
(* and terms.                                                              *)
EXTENDS PullMerge, Threads, ActionsRuns, Listing, FiniteSetTheorems, SequenceTheorems,
        WellFoundedInduction, TLAPS

(***************************************************************************)
(* Merging                                                                 *)
(***************************************************************************)

(* A step is Forgejo's, the world's or one request's.                      *)
LEMMA Steps ==
  ASSUME [MergeNext]_mergeVars
  PROVE  \/ WorkerRuns \/ StatusOrReview \/ Push \/ Checked \/ UNCHANGED mergeVars
         \/ \E r \in Requests :
              \/ ForgeMerges(r) \/ ForgeSchedules(r) \/ ForgeCancels(r)
              \/ StartMerge(r) \/ StartAuto(r) \/ StartCancel(r) \/ Cancel(r)
              \/ TryAgain(r) \/ Refused(r) \/ NotScheduled(r) \/ NotCancelled(r)
              \/ Written(r) \/ ReadBack(r) \/ GivesUp(r)
BY Zenon DEF MergeNext, World, Request

(* The parts of MergeTypeOK the provers take one at a time.                *)
Flags == passing \in BOOLEAN /\ woken \in BOOLEAN /\ dropped \in BOOLEAN
Forge ==
    /\ head \in Heads /\ mode \in {"checking", "clean", "conflict"}
    /\ schedule \in Requests \cup {Nil} /\ merged \in Requests \cup {Nil}
    /\ mergedHead \in Heads \cup {Nil}
Inputs ==
    /\ op \in [Requests -> {"merge", "auto", "cancel"}]
    /\ style \in [Requests -> Styles] /\ expected \in [Requests -> Heads \cup {Nil}]
Ats == {"start", "loaded", "direct", "schedule", "delete", "read back",
        "done", "gone direct", "gone schedule", "gone delete"}
Replied == {"none", "ok", "already merged", "checking", "conflict", "protected",
            "style", "head", "base", "other", "already scheduled", "not found"}
Progress ==
    /\ phase \in [Requests -> Ats] /\ sent \in [Requests -> BOOLEAN]
    /\ reply \in [Requests -> Replied] /\ retries \in [Requests -> 0..1]
Answers ==
    /\ memo \in [Requests -> View] /\ shown \in [Requests -> View]
    /\ answer \in [Requests -> {"none", "ok", "refused", "error"}]
    /\ found \in [Requests -> Requests \cup {Nil}]

LEMMA TypeParts == MergeTypeOK <=> Flags /\ Forge /\ Inputs /\ Progress /\ Answers
BY Zenon DEF MergeTypeOK, Flags, Forge, Inputs, Progress, Answers, Ats, Replied

LEMMA OneLess == \A n \in 0..1 : n > 0 => n - 1 \in 0..1
OBVIOUS

LEMMA GoneAt ==
  Gone["direct"] = "gone direct" /\ Gone["schedule"] = "gone schedule" /\ Gone["delete"] = "gone delete"
BY DEF Gone

LEMMA ForgeStep ==
  ASSUME Forge, [MergeNext]_mergeVars
  PROVE  Forge'
<1> USE MergeAssumption DEF Forge, Heads, asked, local, forge, Merges, Sends, Ends, Replies
<1>1. CASE WorkerRuns
  BY <1>1  DEF WorkerRuns
<1>2. CASE StatusOrReview
  BY <1>2  DEF StatusOrReview
<1>3. CASE Push
  BY <1>3  DEF Push
<1>4. CASE Checked
  BY <1>4  DEF Checked
<1>5. CASE UNCHANGED mergeVars
  BY <1>5  DEF mergeVars
<1>6. ASSUME NEW r \in Requests, ForgeMerges(r) PROVE Forge'
  BY <1>6  DEF ForgeMerges
<1>7. ASSUME NEW r \in Requests, ForgeSchedules(r) PROVE Forge'
  BY <1>7  DEF ForgeSchedules
<1>8. ASSUME NEW r \in Requests, ForgeCancels(r) PROVE Forge'
  BY <1>8  DEF ForgeCancels
<1>9. ASSUME NEW r \in Requests, StartMerge(r) PROVE Forge'
  BY <1>9  DEF StartMerge
<1>10. ASSUME NEW r \in Requests, StartAuto(r) PROVE Forge'
  BY <1>10  DEF StartAuto
<1>11. ASSUME NEW r \in Requests, StartCancel(r) PROVE Forge'
  BY <1>11  DEF StartCancel
<1>12. ASSUME NEW r \in Requests, Cancel(r) PROVE Forge'
  BY <1>12  DEF Cancel
<1>13. ASSUME NEW r \in Requests, TryAgain(r) PROVE Forge'
  BY <1>13  DEF TryAgain
<1>14. ASSUME NEW r \in Requests, Refused(r) PROVE Forge'
  BY <1>14  DEF Refused
<1>15. ASSUME NEW r \in Requests, NotScheduled(r) PROVE Forge'
  BY <1>15  DEF NotScheduled
<1>16. ASSUME NEW r \in Requests, NotCancelled(r) PROVE Forge'
  BY <1>16  DEF NotCancelled
<1>17. ASSUME NEW r \in Requests, Written(r) PROVE Forge'
  BY <1>17  DEF Written
<1>18. ASSUME NEW r \in Requests, ReadBack(r) PROVE Forge'
  BY <1>18  DEF ReadBack
<1>19. ASSUME NEW r \in Requests, GivesUp(r) PROVE Forge'
  BY <1>19  DEF GivesUp
<1>20. QED
  BY <1>1, <1>2, <1>3, <1>4, <1>5, <1>6, <1>7, <1>8, <1>9, <1>10, <1>11, <1>12, <1>13, <1>14, <1>15, <1>16, <1>17, <1>18, <1>19, Steps, Zenon

LEMMA ProgressStep ==
  ASSUME Progress, \A q \in Requests : SentOnce(q), [MergeNext]_mergeVars
  PROVE  Progress'
<1> USE DEF Progress, Ats, Replied, asked, local, forge, Sends, Ends, Replies, Heard, Refusals
<1>1. CASE WorkerRuns
  BY <1>1  DEF WorkerRuns
<1>2. CASE StatusOrReview
  BY <1>2  DEF StatusOrReview
<1>3. CASE Push
  BY <1>3  DEF Push
<1>4. CASE Checked
  BY <1>4  DEF Checked
<1>5. CASE UNCHANGED mergeVars
  BY <1>5  DEF mergeVars
<1>6. ASSUME NEW r \in Requests, ForgeMerges(r) PROVE Progress'
  BY <1>6  DEF ForgeMerges
<1>7. ASSUME NEW r \in Requests, ForgeSchedules(r) PROVE Progress'
  BY <1>7  DEF ForgeSchedules
<1>8. ASSUME NEW r \in Requests, ForgeCancels(r) PROVE Progress'
  BY <1>8  DEF ForgeCancels
<1>9. ASSUME NEW r \in Requests, StartMerge(r) PROVE Progress'
  BY <1>9  DEF StartMerge
<1>10. ASSUME NEW r \in Requests, StartAuto(r) PROVE Progress'
  BY <1>10  DEF StartAuto
<1>11. ASSUME NEW r \in Requests, StartCancel(r) PROVE Progress'
  BY <1>11  DEF StartCancel
<1>12. ASSUME NEW r \in Requests, Cancel(r) PROVE Progress'
  BY <1>12  DEF Cancel
<1>13. ASSUME NEW r \in Requests, TryAgain(r) PROVE Progress'
  BY <1>13  DEF TryAgain
<1>14. ASSUME NEW r \in Requests, Refused(r) PROVE Progress'
  <2>1. CASE Sends(r, "direct") /\ retries[r] > 0 /\ retries' = [retries EXCEPT ![r] = @ - 1]
    <3>0. retries[r] \in 0..1
      OBVIOUS
    <3>1. retries[r] - 1 \in 0..1
      BY <2>1, <3>0, OneLess, Zenon
    <3>2. retries' \in [Requests -> 0..1]
      BY <2>1, <3>1
    <3>3. sent' \in [Requests -> BOOLEAN] /\ reply' \in [Requests -> Replied] /\ phase' \in [Requests -> Ats]
      BY <2>1
    <3>4. QED
      BY <3>2, <3>3
  <2>2. CASE Sends(r, "schedule") /\ retries' = retries
    BY <2>2
  <2>3. CASE Ends(r, "refused", "done")
    BY <2>3
  <2>4. QED
    BY <1>14, <2>1, <2>2, <2>3, Zenon DEF Refused
<1>15. ASSUME NEW r \in Requests, NotScheduled(r) PROVE Progress'
  BY <1>15  DEF NotScheduled
<1>16. ASSUME NEW r \in Requests, NotCancelled(r) PROVE Progress'
  BY <1>16  DEF NotCancelled
<1>17. ASSUME NEW r \in Requests, Written(r) PROVE Progress'
  BY <1>17  DEF Written
<1>18. ASSUME NEW r \in Requests, ReadBack(r) PROVE Progress'
  BY <1>18  DEF ReadBack
<1>19. ASSUME NEW r \in Requests, GivesUp(r) PROVE Progress'
  <2>1. (IF sent[r] THEN Gone[phase[r]] ELSE "done") \in Ats
    <3>1. sent[r] => phase[r] \in {"direct", "schedule", "delete"}
      BY <1>19 DEF GivesUp, SentOnce
    <3>2. QED
      BY <3>1, GoneAt
  <2>2. QED
    BY <1>19, <2>1, GoneAt DEF GivesUp
<1>20. QED
  BY <1>1, <1>2, <1>3, <1>4, <1>5, <1>6, <1>7, <1>8, <1>9, <1>10, <1>11, <1>12, <1>13, <1>14, <1>15, <1>16, <1>17, <1>18, <1>19, Steps, Zenon

LEMMA AnswersStep ==
  ASSUME Answers, Forge, [MergeNext]_mergeVars
  PROVE  Answers'
<1> USE DEF Answers, Forge, asked, local, forge, Sends, Ends, Forgets, View, Pull, Unread
<1>1. CASE WorkerRuns
  BY <1>1 DEF WorkerRuns
<1>2. CASE StatusOrReview
  BY <1>2 DEF StatusOrReview
<1>3. CASE Push
  BY <1>3 DEF Push
<1>4. CASE Checked
  BY <1>4 DEF Checked
<1>5. CASE UNCHANGED mergeVars
  BY <1>5 DEF mergeVars
<1>6. ASSUME NEW r \in Requests, ForgeMerges(r) PROVE Answers'
  BY <1>6 DEF ForgeMerges
<1>7. ASSUME NEW r \in Requests, ForgeSchedules(r) PROVE Answers'
  BY <1>7 DEF ForgeSchedules
<1>8. ASSUME NEW r \in Requests, ForgeCancels(r) PROVE Answers'
  BY <1>8 DEF ForgeCancels
<1>9. ASSUME NEW r \in Requests, StartMerge(r) PROVE Answers'
  BY <1>9 DEF StartMerge
<1>10. ASSUME NEW r \in Requests, StartAuto(r) PROVE Answers'
  BY <1>10 DEF StartAuto
<1>11. ASSUME NEW r \in Requests, StartCancel(r) PROVE Answers'
  BY <1>11 DEF StartCancel
<1>12. ASSUME NEW r \in Requests, Cancel(r) PROVE Answers'
  BY <1>12 DEF Cancel
<1>13. ASSUME NEW r \in Requests, TryAgain(r) PROVE Answers'
  BY <1>13 DEF TryAgain
<1>14. ASSUME NEW r \in Requests, Refused(r) PROVE Answers'
  <2>1. CASE Sends(r, "direct") /\ Forgets(r) /\ UNCHANGED found
    BY <2>1
  <2>2. CASE Sends(r, "schedule") /\ Forgets(r) /\ UNCHANGED found
    BY <2>2
  <2>3. CASE Ends(r, "refused", "done")
    BY <2>3
  <2>4. QED
    BY <1>14, <2>1, <2>2, <2>3, Zenon DEF Refused
<1>15. ASSUME NEW r \in Requests, NotScheduled(r) PROVE Answers'
  BY <1>15 DEF NotScheduled
<1>16. ASSUME NEW r \in Requests, NotCancelled(r) PROVE Answers'
  BY <1>16 DEF NotCancelled
<1>17. ASSUME NEW r \in Requests, Written(r) PROVE Answers'
  BY <1>17 DEF Written
<1>18. ASSUME NEW r \in Requests, ReadBack(r) PROVE Answers'
  BY <1>18 DEF ReadBack
<1>19. ASSUME NEW r \in Requests, GivesUp(r) PROVE Answers'
  BY <1>19 DEF GivesUp
<1>20. QED
  BY <1>1, <1>2, <1>3, <1>4, <1>5, <1>6, <1>7, <1>8, <1>9, <1>10, <1>11, <1>12, <1>13, <1>14, <1>15, <1>16, <1>17, <1>18, <1>19, Steps, Zenon

LEMMA AskedStep ==
  ASSUME NEW q \in Requests, Inputs, Progress, SentOnce(q), AskedRight(q), [MergeNext]_mergeVars
  PROVE  AskedRight(q)'
<1> USE DEF AskedRight, Inputs, Progress, Schedulable, asked, local, forge, Heard, Replies, Sends, Ends
<1>1. CASE WorkerRuns
  BY <1>1 DEF WorkerRuns
<1>2. CASE StatusOrReview
  BY <1>2 DEF StatusOrReview
<1>3. CASE Push
  BY <1>3 DEF Push
<1>4. CASE Checked
  BY <1>4 DEF Checked
<1>5. CASE UNCHANGED mergeVars
  BY <1>5 DEF mergeVars
<1>6. ASSUME NEW r \in Requests, ForgeMerges(r) PROVE AskedRight(q)'
  <2>1. CASE q = r
    BY <1>6, <2>1 DEF ForgeMerges
  <2>2. CASE q # r
    BY <1>6, <2>2 DEF ForgeMerges
  <2>3. QED
    BY <2>1, <2>2
<1>7. ASSUME NEW r \in Requests, ForgeSchedules(r) PROVE AskedRight(q)'
  <2>1. CASE q = r
    BY <1>7, <2>1 DEF ForgeSchedules
  <2>2. CASE q # r
    BY <1>7, <2>2 DEF ForgeSchedules
  <2>3. QED
    BY <2>1, <2>2
<1>8. ASSUME NEW r \in Requests, ForgeCancels(r) PROVE AskedRight(q)'
  <2>1. CASE q = r
    BY <1>8, <2>1 DEF ForgeCancels
  <2>2. CASE q # r
    BY <1>8, <2>2 DEF ForgeCancels
  <2>3. QED
    BY <2>1, <2>2
<1>9. ASSUME NEW r \in Requests, StartMerge(r) PROVE AskedRight(q)'
  <2>1. CASE q = r
    BY <1>9, <2>1 DEF StartMerge
  <2>2. CASE q # r
    BY <1>9, <2>2 DEF StartMerge
  <2>3. QED
    BY <2>1, <2>2
<1>10. ASSUME NEW r \in Requests, StartAuto(r) PROVE AskedRight(q)'
  <2>1. CASE q = r
    BY <1>10, <2>1 DEF StartAuto
  <2>2. CASE q # r
    BY <1>10, <2>2 DEF StartAuto
  <2>3. QED
    BY <2>1, <2>2
<1>11. ASSUME NEW r \in Requests, StartCancel(r) PROVE AskedRight(q)'
  <2>1. CASE q = r
    BY <1>11, <2>1 DEF StartCancel
  <2>2. CASE q # r
    BY <1>11, <2>2 DEF StartCancel
  <2>3. QED
    BY <2>1, <2>2
<1>12. ASSUME NEW r \in Requests, Cancel(r) PROVE AskedRight(q)'
  <2>1. CASE q = r
    BY <1>12, <2>1 DEF Cancel
  <2>2. CASE q # r
    BY <1>12, <2>2 DEF Cancel
  <2>3. QED
    BY <2>1, <2>2
<1>13. ASSUME NEW r \in Requests, TryAgain(r) PROVE AskedRight(q)'
  <2>1. CASE q = r
    BY <1>13, <2>1 DEF TryAgain
  <2>2. CASE q # r
    BY <1>13, <2>2 DEF TryAgain
  <2>3. QED
    BY <2>1, <2>2
<1>14. ASSUME NEW r \in Requests, Refused(r) PROVE AskedRight(q)'
  <2>1. CASE q = r
    BY <1>14, <2>1 DEF Refused
  <2>2. CASE q # r
    BY <1>14, <2>2 DEF Refused
  <2>3. QED
    BY <2>1, <2>2
<1>15. ASSUME NEW r \in Requests, NotScheduled(r) PROVE AskedRight(q)'
  <2>1. CASE q = r
    BY <1>15, <2>1 DEF NotScheduled
  <2>2. CASE q # r
    BY <1>15, <2>2 DEF NotScheduled
  <2>3. QED
    BY <2>1, <2>2
<1>16. ASSUME NEW r \in Requests, NotCancelled(r) PROVE AskedRight(q)'
  <2>1. CASE q = r
    BY <1>16, <2>1 DEF NotCancelled
  <2>2. CASE q # r
    BY <1>16, <2>2 DEF NotCancelled
  <2>3. QED
    BY <2>1, <2>2
<1>17. ASSUME NEW r \in Requests, Written(r) PROVE AskedRight(q)'
  <2>1. CASE q = r
    BY <1>17, <2>1 DEF Written
  <2>2. CASE q # r
    BY <1>17, <2>2 DEF Written
  <2>3. QED
    BY <2>1, <2>2
<1>18. ASSUME NEW r \in Requests, ReadBack(r) PROVE AskedRight(q)'
  <2>1. CASE q = r
    BY <1>18, <2>1 DEF ReadBack
  <2>2. CASE q # r
    BY <1>18, <2>2 DEF ReadBack
  <2>3. QED
    BY <2>1, <2>2
<1>19. ASSUME NEW r \in Requests, GivesUp(r) PROVE AskedRight(q)'
  <2>1. CASE q = r
    BY <1>19, <2>1, GoneAt DEF GivesUp, SentOnce
  <2>2. CASE q # r
    BY <1>19, <2>2 DEF GivesUp
  <2>3. QED
    BY <2>1, <2>2
<1>20. QED
  BY <1>1, <1>2, <1>3, <1>4, <1>5, <1>6, <1>7, <1>8, <1>9, <1>10, <1>11, <1>12, <1>13, <1>14, <1>15, <1>16, <1>17, <1>18, <1>19, Steps, Zenon

LEMMA SentStep ==
  ASSUME NEW q \in Requests, Progress, Answers, SentOnce(q), [MergeNext]_mergeVars
  PROVE  SentOnce(q)'
<1> USE DEF SentOnce, Progress, Answers, asked, local, forge, Heard, Replies, Sends, Ends
<1>1. CASE WorkerRuns
  BY <1>1 DEF WorkerRuns
<1>2. CASE StatusOrReview
  BY <1>2 DEF StatusOrReview
<1>3. CASE Push
  BY <1>3 DEF Push
<1>4. CASE Checked
  BY <1>4 DEF Checked
<1>5. CASE UNCHANGED mergeVars
  BY <1>5 DEF mergeVars
<1>6. ASSUME NEW r \in Requests, ForgeMerges(r) PROVE SentOnce(q)'
  <2>1. CASE q = r
    BY <1>6, <2>1 DEF ForgeMerges
  <2>2. CASE q # r
    BY <1>6, <2>2 DEF ForgeMerges
  <2>3. QED
    BY <2>1, <2>2
<1>7. ASSUME NEW r \in Requests, ForgeSchedules(r) PROVE SentOnce(q)'
  <2>1. CASE q = r
    BY <1>7, <2>1 DEF ForgeSchedules
  <2>2. CASE q # r
    BY <1>7, <2>2 DEF ForgeSchedules
  <2>3. QED
    BY <2>1, <2>2
<1>8. ASSUME NEW r \in Requests, ForgeCancels(r) PROVE SentOnce(q)'
  <2>1. CASE q = r
    BY <1>8, <2>1 DEF ForgeCancels
  <2>2. CASE q # r
    BY <1>8, <2>2 DEF ForgeCancels
  <2>3. QED
    BY <2>1, <2>2
<1>9. ASSUME NEW r \in Requests, StartMerge(r) PROVE SentOnce(q)'
  <2>1. CASE q = r
    BY <1>9, <2>1 DEF StartMerge
  <2>2. CASE q # r
    BY <1>9, <2>2 DEF StartMerge
  <2>3. QED
    BY <2>1, <2>2
<1>10. ASSUME NEW r \in Requests, StartAuto(r) PROVE SentOnce(q)'
  <2>1. CASE q = r
    BY <1>10, <2>1 DEF StartAuto
  <2>2. CASE q # r
    BY <1>10, <2>2 DEF StartAuto
  <2>3. QED
    BY <2>1, <2>2
<1>11. ASSUME NEW r \in Requests, StartCancel(r) PROVE SentOnce(q)'
  <2>1. CASE q = r
    BY <1>11, <2>1 DEF StartCancel
  <2>2. CASE q # r
    BY <1>11, <2>2 DEF StartCancel
  <2>3. QED
    BY <2>1, <2>2
<1>12. ASSUME NEW r \in Requests, Cancel(r) PROVE SentOnce(q)'
  <2>1. CASE q = r
    BY <1>12, <2>1 DEF Cancel
  <2>2. CASE q # r
    BY <1>12, <2>2 DEF Cancel
  <2>3. QED
    BY <2>1, <2>2
<1>13. ASSUME NEW r \in Requests, TryAgain(r) PROVE SentOnce(q)'
  <2>1. CASE q = r
    BY <1>13, <2>1 DEF TryAgain
  <2>2. CASE q # r
    BY <1>13, <2>2 DEF TryAgain
  <2>3. QED
    BY <2>1, <2>2
<1>14. ASSUME NEW r \in Requests, Refused(r) PROVE SentOnce(q)'
  <2>1. CASE q = r
    BY <1>14, <2>1 DEF Refused
  <2>2. CASE q # r
    BY <1>14, <2>2 DEF Refused
  <2>3. QED
    BY <2>1, <2>2
<1>15. ASSUME NEW r \in Requests, NotScheduled(r) PROVE SentOnce(q)'
  <2>1. CASE q = r
    BY <1>15, <2>1 DEF NotScheduled
  <2>2. CASE q # r
    BY <1>15, <2>2 DEF NotScheduled
  <2>3. QED
    BY <2>1, <2>2
<1>16. ASSUME NEW r \in Requests, NotCancelled(r) PROVE SentOnce(q)'
  <2>1. CASE q = r
    BY <1>16, <2>1 DEF NotCancelled
  <2>2. CASE q # r
    BY <1>16, <2>2 DEF NotCancelled
  <2>3. QED
    BY <2>1, <2>2
<1>17. ASSUME NEW r \in Requests, Written(r) PROVE SentOnce(q)'
  <2>1. CASE q = r
    BY <1>17, <2>1 DEF Written
  <2>2. CASE q # r
    BY <1>17, <2>2 DEF Written
  <2>3. QED
    BY <2>1, <2>2
<1>18. ASSUME NEW r \in Requests, ReadBack(r) PROVE SentOnce(q)'
  <2>1. CASE q = r
    BY <1>18, <2>1 DEF ReadBack
  <2>2. CASE q # r
    BY <1>18, <2>2 DEF ReadBack
  <2>3. QED
    BY <2>1, <2>2
<1>19. ASSUME NEW r \in Requests, GivesUp(r) PROVE SentOnce(q)'
  <2>1. CASE q = r
    BY <1>19, <2>1, GoneAt DEF GivesUp
  <2>2. CASE q # r
    BY <1>19, <2>2 DEF GivesUp
  <2>3. QED
    BY <2>1, <2>2
<1>20. QED
  BY <1>1, <1>2, <1>3, <1>4, <1>5, <1>6, <1>7, <1>8, <1>9, <1>10, <1>11, <1>12, <1>13, <1>14, <1>15, <1>16, <1>17, <1>18, <1>19, Steps, Zenon

LEMMA CleanStep ==
  ASSUME NEW q \in Requests, Forge, Progress, Answers, SentOnce(q), Clean(q), [MergeNext]_mergeVars
  PROVE  Clean(q)'
<1> USE MergeAssumption DEF Clean, Waiting, SentOnce, Forge, Progress, Answers, asked, local, forge, Merges, Heard, Replies, Sends, Ends
<1>1. CASE WorkerRuns
  BY <1>1 DEF WorkerRuns
<1>2. CASE StatusOrReview
  BY <1>2 DEF StatusOrReview
<1>3. CASE Push
  BY <1>3 DEF Push
<1>4. CASE Checked
  BY <1>4 DEF Checked
<1>5. CASE UNCHANGED mergeVars
  BY <1>5 DEF mergeVars
<1>6. ASSUME NEW r \in Requests, ForgeMerges(r) PROVE Clean(q)'
  <2>1. CASE q = r
    BY <1>6, <2>1 DEF ForgeMerges
  <2>2. CASE q # r
    <3>1. merged' \in {merged, r} /\ schedule' \in {schedule, Nil}
      BY <1>6 DEF ForgeMerges
    <3>2. Waiting(q)' => Waiting(q)
      BY <1>6, <2>2 DEF ForgeMerges
    <3>3. merged # q /\ schedule # q => merged' # q /\ schedule' # q
      <4>1. q # Nil
        OBVIOUS
      <4>2. QED
        BY <2>2, <3>1, <4>1, Zenon
    <3>4. QED
      BY <3>2, <3>3, Zenon
  <2>3. QED
    BY <2>1, <2>2
<1>7. ASSUME NEW r \in Requests, ForgeSchedules(r) PROVE Clean(q)'
  <2>1. CASE q = r
    BY <1>7, <2>1 DEF ForgeSchedules
  <2>2. CASE q # r
    BY <1>7, <2>2 DEF ForgeSchedules
  <2>3. QED
    BY <2>1, <2>2
<1>8. ASSUME NEW r \in Requests, ForgeCancels(r) PROVE Clean(q)'
  <2>1. CASE q = r
    BY <1>8, <2>1 DEF ForgeCancels
  <2>2. CASE q # r
    <3>1. merged' = merged /\ schedule' \in {schedule, Nil}
      BY <1>8 DEF ForgeCancels
    <3>2. Waiting(q)' => Waiting(q)
      BY <1>8, <2>2 DEF ForgeCancels
    <3>3. QED
      BY <3>1, <3>2, Zenon
  <2>3. QED
    BY <2>1, <2>2
<1>9. ASSUME NEW r \in Requests, StartMerge(r) PROVE Clean(q)'
  <2>1. CASE q = r
    BY <1>9, <2>1 DEF StartMerge
  <2>2. CASE q # r
    BY <1>9, <2>2 DEF StartMerge
  <2>3. QED
    BY <2>1, <2>2
<1>10. ASSUME NEW r \in Requests, StartAuto(r) PROVE Clean(q)'
  <2>1. CASE q = r
    BY <1>10, <2>1 DEF StartAuto
  <2>2. CASE q # r
    BY <1>10, <2>2 DEF StartAuto
  <2>3. QED
    BY <2>1, <2>2
<1>11. ASSUME NEW r \in Requests, StartCancel(r) PROVE Clean(q)'
  <2>1. CASE q = r
    BY <1>11, <2>1 DEF StartCancel
  <2>2. CASE q # r
    BY <1>11, <2>2 DEF StartCancel
  <2>3. QED
    BY <2>1, <2>2
<1>12. ASSUME NEW r \in Requests, Cancel(r) PROVE Clean(q)'
  <2>1. CASE q = r
    BY <1>12, <2>1 DEF Cancel
  <2>2. CASE q # r
    BY <1>12, <2>2 DEF Cancel
  <2>3. QED
    BY <2>1, <2>2
<1>13. ASSUME NEW r \in Requests, TryAgain(r) PROVE Clean(q)'
  <2>1. CASE q = r
    BY <1>13, <2>1 DEF TryAgain, Later
  <2>2. CASE q # r
    BY <1>13, <2>2 DEF TryAgain, Later
  <2>3. QED
    BY <2>1, <2>2
<1>14. ASSUME NEW r \in Requests, Refused(r) PROVE Clean(q)'
  <2>1. CASE q = r
    BY <1>14, <2>1 DEF Refused
  <2>2. CASE q # r
    BY <1>14, <2>2 DEF Refused
  <2>3. QED
    BY <2>1, <2>2
<1>15. ASSUME NEW r \in Requests, NotScheduled(r) PROVE Clean(q)'
  <2>1. CASE q = r
    BY <1>15, <2>1 DEF NotScheduled
  <2>2. CASE q # r
    BY <1>15, <2>2 DEF NotScheduled
  <2>3. QED
    BY <2>1, <2>2
<1>16. ASSUME NEW r \in Requests, NotCancelled(r) PROVE Clean(q)'
  <2>1. CASE q = r
    BY <1>16, <2>1 DEF NotCancelled
  <2>2. CASE q # r
    BY <1>16, <2>2 DEF NotCancelled
  <2>3. QED
    BY <2>1, <2>2
<1>17. ASSUME NEW r \in Requests, Written(r) PROVE Clean(q)'
  <2>1. CASE q = r
    BY <1>17, <2>1 DEF Written
  <2>2. CASE q # r
    BY <1>17, <2>2 DEF Written
  <2>3. QED
    BY <2>1, <2>2
<1>18. ASSUME NEW r \in Requests, ReadBack(r) PROVE Clean(q)'
  <2>1. CASE q = r
    BY <1>18, <2>1 DEF ReadBack
  <2>2. CASE q # r
    BY <1>18, <2>2 DEF ReadBack
  <2>3. QED
    BY <2>1, <2>2
<1>19. ASSUME NEW r \in Requests, GivesUp(r) PROVE Clean(q)'
  <2>1. CASE q = r
    BY <1>19, <2>1, GoneAt DEF GivesUp
  <2>2. CASE q # r
    BY <1>19, <2>2 DEF GivesUp
  <2>3. QED
    BY <2>1, <2>2
<1>20. QED
  BY <1>1, <1>2, <1>3, <1>4, <1>5, <1>6, <1>7, <1>8, <1>9, <1>10, <1>11, <1>12, <1>13, <1>14, <1>15, <1>16, <1>17, <1>18, <1>19, Steps, Zenon

-----------------------------------------------------------------------------
(* Whoever comes to schedule, or to merge, may.                            *)
LEMMA ScheduleStep ==
  ASSUME Forge, Inputs, \A q \in Requests : AskedRight(q),
         schedule # Nil => Schedulable(schedule), [MergeNext]_mergeVars
  PROVE  (schedule # Nil => Schedulable(schedule))'
<1> USE DEF Schedulable
<1>1. ASSUME NEW r \in Requests, ForgeSchedules(r), schedule' = r
      PROVE  (schedule # Nil => Schedulable(schedule))'
  BY <1>1 DEF ForgeSchedules, AskedRight, asked
<1>2. ASSUME NEW r \in Requests, ForgeSchedules(r), schedule' = schedule
      PROVE  (schedule # Nil => Schedulable(schedule))'
  BY <1>2 DEF ForgeSchedules, asked
<1>3. ASSUME NEW r \in Requests, ForgeMerges(r) \/ ForgeCancels(r)
      PROVE  (schedule # Nil => Schedulable(schedule))'
  BY <1>3 DEF ForgeMerges, ForgeCancels, Merges, asked
<1>4. CASE WorkerRuns \/ StatusOrReview \/ Push \/ Checked \/ UNCHANGED mergeVars
  BY <1>4 DEF WorkerRuns, StatusOrReview, Push, Checked, mergeVars, forge, asked, Merges
<1>5. ASSUME NEW r \in Requests, Request(r)
      PROVE  (schedule # Nil => Schedulable(schedule))'
  <2>1. UNCHANGED <<schedule, expected, style>>
    BY <1>5, Zenon DEF Request, StartMerge, StartAuto, StartCancel, Cancel, TryAgain, Refused,
      NotScheduled, NotCancelled, Written, ReadBack, GivesUp, Sends, Ends, forge, asked
  <2>2. QED
    BY <2>1
<1>6. ASSUME NEW r \in Requests, ForgeSchedules(r) PROVE schedule' \in {r, schedule}
  BY <1>6 DEF ForgeSchedules
<1>7. QED
  BY <1>1, <1>2, <1>3, <1>4, <1>5, <1>6 DEF MergeNext, World

LEMMA HeadStep ==
  ASSUME Forge, Inputs, schedule # Nil => Schedulable(schedule), HeadHonoured, [MergeNext]_mergeVars
  PROVE  HeadHonoured'
<1> USE DEF HeadHonoured
<1>1. ASSUME NEW r \in Requests, ForgeMerges(r)
      PROVE  HeadHonoured'
  <2>1. CASE Refusals(r) = {} /\ Merges(r)
    <3>1. expected[r] \in {Nil, head}
      BY <2>1 DEF Refusals
    <3>2. QED
      BY <1>1, <2>1, <3>1 DEF ForgeMerges, Merges, asked
  <2>2. CASE UNCHANGED <<merged, mergedHead>>
    BY <1>1, <2>2 DEF ForgeMerges, asked
  <2>3. QED
    BY <1>1, <2>1, <2>2 DEF ForgeMerges
<1>2. CASE WorkerRuns
  <2>1. CASE schedule # Nil /\ Merges(schedule)
    BY <1>2, <2>1 DEF WorkerRuns, Merges, Schedulable, asked
  <2>2. CASE UNCHANGED <<merged, mergedHead>>
    BY <1>2, <2>2 DEF WorkerRuns, asked
  <2>3. QED
    BY <1>2, <2>1, <2>2 DEF WorkerRuns
<1>3. CASE ~WorkerRuns /\ ~\E r \in Requests : ForgeMerges(r)
  <2>1. UNCHANGED <<merged, mergedHead, expected>>
    BY <1>3, Zenon DEF MergeNext, World, Request, StartMerge, StartAuto, StartCancel, Cancel, TryAgain,
      Refused, NotScheduled, NotCancelled, Written, ReadBack, GivesUp, Sends, Ends, forge, asked,
      mergeVars, StatusOrReview, Push, Checked, ForgeSchedules, ForgeCancels
  <2>2. QED
    BY <2>1
<1>4. QED
  BY <1>1, <1>2, <1>3

LEMMA KeptStep ==
  ASSUME schedule # Nil => Schedulable(schedule), ScheduleKept, [MergeNext]_mergeVars
  PROVE  ScheduleKept'
<1>1. CASE WorkerRuns
  BY <1>1 DEF WorkerRuns, ScheduleKept, Schedulable
<1>2. CASE ~WorkerRuns
  <2>1. dropped' = dropped
    BY <1>2, Zenon DEF MergeNext, World, Request, StartMerge, StartAuto, StartCancel, Cancel, TryAgain,
      Refused, NotScheduled, NotCancelled, Written, ReadBack, GivesUp, Sends, Ends, forge,
      mergeVars, StatusOrReview, Push, Checked, ForgeMerges, ForgeSchedules, ForgeCancels
  <2>2. QED
    BY <2>1 DEF ScheduleKept
<1>3. QED
  BY <1>1, <1>2

LEMMA FlagsStep ==
  ASSUME Flags, [MergeNext]_mergeVars
  PROVE  Flags'
<1>1. passing' \in BOOLEAN
  BY Zenon DEF Flags, MergeNext, World, Request, StartMerge, StartAuto, StartCancel, Cancel, TryAgain,
    Refused, NotScheduled, NotCancelled, Written, ReadBack, GivesUp, Sends, Ends, forge, mergeVars,
    WorkerRuns, Merges, StatusOrReview, Push, Checked, ForgeMerges, ForgeSchedules, ForgeCancels
<1>2. woken' \in BOOLEAN
  BY Zenon DEF Flags, MergeNext, World, Request, StartMerge, StartAuto, StartCancel, Cancel, TryAgain,
    Refused, NotScheduled, NotCancelled, Written, ReadBack, GivesUp, Sends, Ends, forge, mergeVars,
    WorkerRuns, Merges, StatusOrReview, Push, Checked, ForgeMerges, ForgeSchedules, ForgeCancels
<1>3. dropped' \in BOOLEAN
  BY Zenon DEF Flags, MergeNext, World, Request, StartMerge, StartAuto, StartCancel, Cancel, TryAgain,
    Refused, NotScheduled, NotCancelled, Written, ReadBack, GivesUp, Sends, Ends, forge, mergeVars,
    WorkerRuns, Merges, StatusOrReview, Push, Checked, ForgeMerges, ForgeSchedules, ForgeCancels
<1>4. QED
  BY <1>1, <1>2, <1>3, Zenon DEF Flags

LEMMA InputsStep ==
  ASSUME Inputs, [MergeNext]_mergeVars
  PROVE  Inputs'
<1>1. UNCHANGED asked
  BY Zenon DEF MergeNext, World, Request, StartMerge, StartAuto, StartCancel, Cancel, TryAgain,
    Refused, NotScheduled, NotCancelled, Written, ReadBack, GivesUp, Sends, Ends, mergeVars,
    WorkerRuns, StatusOrReview, Push, Checked, ForgeMerges, ForgeSchedules, ForgeCancels
<1>2. QED
  BY <1>1 DEF asked, Inputs

LEMMA Initially == MergeInit => MergeInv
<1> SUFFICES ASSUME MergeInit PROVE MergeInv
  OBVIOUS
<1> USE MergeAssumption DEF MergeInit
<1>1. Flags
  BY Zenon DEF Flags
<1>2. Forge /\ Inputs
  BY DEF Forge, Inputs, Heads
<1>3. Progress /\ Answers
  BY DEF Progress, Answers, Ats, Replied, View, Unread
<1>4. MergeTypeOK
  BY <1>1, <1>2, <1>3, TypeParts
<1>5. \A r \in Requests : AskedRight(r) /\ SentOnce(r) /\ Clean(r)
  BY DEF AskedRight, SentOnce, Clean, Waiting
<1>6. HeadHonoured
  BY DEF HeadHonoured
<1>7. ScheduleKept
  BY DEF ScheduleKept
<1>8. schedule = Nil
  OBVIOUS
<1>9. QED
  BY <1>4, <1>5, <1>6, <1>7, <1>8 DEF MergeInv

(* The inductive invariant.  (mutations.rs merge, writes.rs merge_pull,    *)
(* cancel_auto_merge.)                                                     *)
THEOREM Invariance == MergeSpec => []MergeInv
<1>1. MergeInv /\ [MergeNext]_mergeVars => MergeInv'
  <2> SUFFICES ASSUME MergeInv, [MergeNext]_mergeVars PROVE MergeInv'
    OBVIOUS
  <2>1. Flags /\ Forge /\ Inputs /\ Progress /\ Answers
    BY TypeParts DEF MergeInv
  <2>2. /\ \A r \in Requests : AskedRight(r) /\ SentOnce(r) /\ Clean(r)
        /\ schedule # Nil => Schedulable(schedule)
        /\ HeadHonoured /\ ScheduleKept
    BY DEF MergeInv
  <2>3. Flags' /\ Forge' /\ Inputs' /\ Answers'
    BY <2>1, FlagsStep, ForgeStep, InputsStep, AnswersStep
  <2>4. Progress'
    BY <2>1, <2>2, ProgressStep
  <2>5. MergeTypeOK'
    BY <2>3, <2>4, TypeParts, PTL
  <2>6. \A r \in Requests : AskedRight(r)' /\ SentOnce(r)' /\ Clean(r)'
    BY <2>1, <2>2, AskedStep, SentStep, CleanStep
  <2>7. (schedule # Nil => Schedulable(schedule))'
    BY <2>1, <2>2, ScheduleStep
  <2>8. HeadHonoured' /\ ScheduleKept'
    BY <2>1, <2>2, HeadStep, KeptStep
  <2>9. QED
    BY <2>5, <2>6, <2>7, <2>8 DEF MergeInv
<1>2. QED
  BY <1>1, Initially, PTL DEF MergeSpec

(* Every variable keeps its type.                                          *)
THEOREM TypeCorrect == MergeSpec => []MergeTypeOK
<1>1. MergeInv => MergeTypeOK
  BY DEF MergeInv
<1>2. QED
  BY <1>1, Invariance, PTL

(* A merge that named a head merges no other.  (mutations.rs merge.)       *)
THEOREM MergesTheHead == MergeSpec => []HeadHonoured
<1>1. MergeInv => HeadHonoured
  BY DEF MergeInv
<1>2. QED
  BY <1>1, Invariance, PTL

(* A refused mutation did nothing and will do nothing.  (writes.rs         *)
(* merge_pull, mutations.rs merge.)                                        *)
THEOREM RefusalIsTrue == MergeSpec => []RefusedDidNothing
<1>1. MergeInv => RefusedDidNothing
  <2> SUFFICES ASSUME MergeInv, NEW r \in Requests, answer[r] = "refused"
               PROVE  merged # r /\ schedule # r /\ ~sent[r]
    BY DEF RefusedDidNothing
  <2>1. merged # r /\ schedule # r
    BY DEF MergeInv, Clean, Waiting
  <2>2. ~sent[r]
    BY DEF MergeInv, SentOnce
  <2>3. QED
    BY <2>1, <2>2
<1>2. QED
  BY <1>1, Invariance, PTL

(* No auto-merge the gateway scheduled is ever dropped for its style.      *)
(* (mutations.rs merge.)                                                   *)
THEOREM NeverDropped == MergeSpec => []ScheduleKept
<1>1. MergeInv => ScheduleKept
  BY DEF MergeInv
<1>2. QED
  BY <1>1, Invariance, PTL

(* Pull requests are merged as asked: a merge that named a head merges no  *)
(* other, and no auto-merge the gateway scheduled is dropped for its style.*)
(* (mutations.rs merge.)                                                   *)
THEOREM DoneAsAsked == MergeSpec => []MergesAsAsked
<1>1. MergeInv => MergesAsAsked
  BY DEF MergeInv, MergesAsAsked
<1>2. QED
  BY <1>1, Invariance, PTL

-----------------------------------------------------------------------------
(* Success is the truth.  A step is the request's own or leaves what the   *)
(* request knows alone.                                                    *)
Own(q) ==
    \/ ForgeMerges(q) \/ ForgeSchedules(q) \/ ForgeCancels(q)
    \/ StartMerge(q) \/ StartAuto(q) \/ StartCancel(q) \/ Cancel(q)
    \/ TryAgain(q) \/ Refused(q) \/ NotScheduled(q) \/ NotCancelled(q)
    \/ Written(q) \/ ReadBack(q) \/ GivesUp(q)
Kept(q) ==
    /\ phase'[q] = phase[q] /\ sent'[q] = sent[q] /\ reply'[q] = reply[q]
    /\ memo'[q] = memo[q] /\ answer'[q] = answer[q] /\ shown'[q] = shown[q]
    /\ found'[q] = found[q]

LEMMA OwnOrKept ==
  ASSUME NEW q \in Requests, Progress, Answers, [MergeNext]_mergeVars
  PROVE  Own(q) \/ Kept(q)
<1> USE DEF Kept, Progress, Answers, asked, local, forge, Replies, Sends, Ends, Forgets
<1>1. CASE WorkerRuns \/ StatusOrReview \/ Push \/ Checked \/ UNCHANGED mergeVars
  BY <1>1 DEF WorkerRuns, StatusOrReview, Push, Checked, mergeVars
<1>2. ASSUME NEW r \in Requests, r # q, ForgeMerges(r) \/ ForgeSchedules(r) \/ ForgeCancels(r)
      PROVE  Kept(q)
  <2>1. CASE ForgeMerges(r)
    BY <1>2, <2>1 DEF ForgeMerges
  <2>2. CASE ForgeSchedules(r)
    BY <1>2, <2>2 DEF ForgeSchedules
  <2>3. CASE ForgeCancels(r)
    BY <1>2, <2>3 DEF ForgeCancels
  <2>4. QED
    BY <1>2, <2>1, <2>2, <2>3
<1>3. ASSUME NEW r \in Requests, r # q,
             StartMerge(r) \/ StartAuto(r) \/ StartCancel(r) \/ Cancel(r) \/ TryAgain(r) \/ Refused(r)
      PROVE  Kept(q)
  <2>1. CASE StartMerge(r) \/ Cancel(r)
    BY <1>3, <2>1 DEF StartMerge, Cancel
  <2>2. CASE StartAuto(r)
    BY <1>3, <2>2 DEF StartAuto
  <2>3. CASE StartCancel(r)
    BY <1>3, <2>3 DEF StartCancel
  <2>4. CASE TryAgain(r)
    BY <1>3, <2>4 DEF TryAgain
  <2>5. CASE Refused(r)
    BY <1>3, <2>5 DEF Refused
  <2>6. QED
    BY <1>3, <2>1, <2>2, <2>3, <2>4, <2>5
<1>4. ASSUME NEW r \in Requests, r # q,
             NotScheduled(r) \/ NotCancelled(r) \/ Written(r) \/ ReadBack(r) \/ GivesUp(r)
      PROVE  Kept(q)
  <2>1. CASE NotScheduled(r) \/ NotCancelled(r)
    BY <1>4, <2>1 DEF NotScheduled, NotCancelled
  <2>2. CASE Written(r)
    BY <1>4, <2>2 DEF Written
  <2>3. CASE ReadBack(r)
    BY <1>4, <2>3 DEF ReadBack
  <2>4. CASE GivesUp(r)
    BY <1>4, <2>4 DEF GivesUp
  <2>5. QED
    BY <1>4, <2>1, <2>2, <2>3, <2>4
<1>5. QED
  BY <1>1, <1>2, <1>3, <1>4, Steps, Zenon DEF Own

LEMMA OnTrackStep ==
  ASSUME NEW q \in Requests, Inputs, Inputs', UNCHANGED asked, Progress, Answers, SentOnce(q),
         OnTrack(q), [MergeNext]_mergeVars
  PROVE  OnTrack(q)'
<1> USE DEF OnTrack, SentOnce, Inputs, Progress, Answers, asked, local, forge, Replies, Sends, Ends,
            Forgets, Heard
<1>1. CASE Kept(q)
  BY <1>1 DEF Kept
<1>2. CASE ForgeMerges(q)
  BY <1>2 DEF ForgeMerges, Refusals
<1>3. CASE ForgeSchedules(q)
  BY <1>3 DEF ForgeSchedules
<1>4. CASE ForgeCancels(q)
  BY <1>4 DEF ForgeCancels
<1>5. CASE StartMerge(q)
  BY <1>5 DEF StartMerge
<1>6. CASE StartAuto(q)
  BY <1>6 DEF StartAuto
<1>7. CASE StartCancel(q)
  BY <1>7 DEF StartCancel
<1>8. CASE Cancel(q)
  BY <1>8 DEF Cancel
<1>9. CASE TryAgain(q)
  BY <1>9 DEF TryAgain
<1>10. CASE Refused(q)
  BY <1>10 DEF Refused
<1>11. CASE NotScheduled(q)
  BY <1>11 DEF NotScheduled
<1>12. CASE NotCancelled(q)
  BY <1>12 DEF NotCancelled
<1>13. CASE Written(q)
  BY <1>13 DEF Written, Unread
<1>14. CASE ReadBack(q)
  BY <1>14 DEF ReadBack
<1>15. CASE GivesUp(q)
  <2>1. sent[q] => phase[q] \in {"direct", "schedule", "delete"}
    BY <1>15 DEF GivesUp
  <2>2. phase'[q] = IF sent[q] THEN Gone[phase[q]] ELSE "done"
    BY <1>15 DEF GivesUp
  <2>3. answer'[q] = "error"
    BY <1>15 DEF GivesUp
  <2>4. QED
    BY <2>1, <2>2, <2>3, GoneAt
<1>16. QED
  BY <1>1, <1>2, <1>3, <1>4, <1>5, <1>6, <1>7, <1>8, <1>9, <1>10, <1>11, <1>12, <1>13, <1>14,
     <1>15, OwnOrKept, Zenon DEF Own

(* Whoever has scheduled never sends again.                                *)
LEMMA SpentStays ==
  ASSUME NEW q \in Requests, Progress, Answers, Spent(q), [MergeNext]_mergeVars
  PROVE  Spent(q)'
<1> USE DEF Spent, Progress, Answers, Ends, Heard
<1>1. CASE Kept(q)
  BY <1>1 DEF Kept
<1>2. CASE NotScheduled(q)
  BY <1>2 DEF NotScheduled
<1>3. CASE Written(q)
  BY <1>3 DEF Written
<1>4. CASE ReadBack(q)
  BY <1>4 DEF ReadBack
<1>5. CASE GivesUp(q)
  BY <1>5 DEF GivesUp
<1>6. QED
  BY <1>1, <1>2, <1>3, <1>4, <1>5, OwnOrKept DEF Own, ForgeMerges, ForgeSchedules, ForgeCancels,
    StartMerge, StartAuto, StartCancel, Cancel, TryAgain, Refused, NotCancelled

(* A schedule comes of Forgejo alone, on a request's sending it.           *)
LEMMA Scheduler ==
  ASSUME [MergeNext]_mergeVars
  PROVE  \/ schedule' \in {schedule, Nil}
         \/ \E r \in Requests : schedule' = r /\ ForgeSchedules(r)
<1>1. ASSUME NEW r \in Requests, ForgeMerges(r) \/ ForgeCancels(r)
      PROVE  schedule' \in {schedule, Nil}
  BY <1>1, Zenon DEF ForgeMerges, ForgeCancels, Merges
<1>2. ASSUME NEW r \in Requests, ForgeSchedules(r), schedule' # r PROVE schedule' = schedule
  BY <1>2, Zenon DEF ForgeSchedules
<1>3. ASSUME NEW r \in Requests, Request(r) PROVE schedule' = schedule
  BY <1>3, Zenon DEF Request, StartMerge, StartAuto, StartCancel, Cancel, TryAgain, Refused,
    NotScheduled, NotCancelled, Written, ReadBack, GivesUp, Sends, Ends, forge
<1>4. ASSUME WorkerRuns \/ StatusOrReview \/ Push \/ Checked \/ UNCHANGED mergeVars
      PROVE  schedule' \in {schedule, Nil}
  BY <1>4, Zenon DEF WorkerRuns, StatusOrReview, Push, Checked, mergeVars, forge, Merges
<1>5. QED
  BY <1>1, <1>2, <1>3, <1>4, Zenon DEF MergeNext, World

LEMMA ScheduledSpent ==
  ASSUME Forge, Progress, Answers, schedule # Nil => Spent(schedule), [MergeNext]_mergeVars
  PROVE  schedule' # Nil => Spent(schedule)'
<1>1. ASSUME NEW r \in Requests, schedule' = r, ForgeSchedules(r) PROVE Spent(r)'
  BY <1>1 DEF ForgeSchedules, Spent, Replies, Progress
<1>2. CASE schedule' = schedule /\ schedule # Nil
  <2>1. Spent(schedule)'
    <3>1. PICK s \in Requests : s = schedule
      BY <1>2 DEF Forge
    <3>2. Spent(s)'
      BY <1>2, <3>1, SpentStays
    <3>3. QED
      BY <1>2, <3>1, <3>2 DEF Spent
  <2>2. QED
    BY <2>1
<1>3. CASE \E r \in Requests : schedule' = r /\ ForgeSchedules(r)
  <2>1. PICK r \in Requests : schedule' = r /\ ForgeSchedules(r)
    BY <1>3
  <2>2. QED
    BY <2>1, <1>1 DEF Spent
<1>4. QED
  BY <1>2, <1>3, Scheduler

LEMMA FoundSpent ==
  ASSUME NEW q \in Requests, Forge, Progress, Answers, schedule # Nil => Spent(schedule),
         found[q] # Nil => Spent(found[q]), [MergeNext]_mergeVars
  PROVE  found'[q] # Nil => (\E s \in Requests : s = found'[q] /\ Spent(s)')
<1>1. found'[q] = found[q] \/ found'[q] = schedule
  <2>1. CASE StartCancel(q)
    BY <2>1 DEF StartCancel, Answers
  <2>2. CASE Kept(q)
    BY <2>2 DEF Kept
  <2>3. CASE Own(q) /\ ~StartCancel(q)
    <3>1. found' = found
      BY <2>3, Zenon DEF Own, ForgeMerges, ForgeSchedules, ForgeCancels, StartMerge, StartAuto, Cancel,
        TryAgain, Refused, NotScheduled, NotCancelled, Written, ReadBack, GivesUp, Ends
    <3>2. QED
      BY <3>1
  <2>4. QED
    BY <2>1, <2>2, <2>3, OwnOrKept
<1>2. SUFFICES ASSUME NEW s \in Requests, s = found'[q] PROVE Spent(s)'
  BY <1>1 DEF Answers, Forge
<1>3. Spent(s)
  BY <1>1, <1>2, MergeAssumption
<1>4. QED
  BY <1>3, SpentStays

(* A pull request is merged once.                                          *)
LEMMA MergedOnce ==
  ASSUME merged # Nil, [MergeNext]_mergeVars
  PROVE  merged' = merged
<1>1. ASSUME NEW r \in Requests, ForgeMerges(r) PROVE merged' = merged
  <2>1. Refusals(r) # {}
    <3>1. "already merged" \in Refusals(r)
      BY DEF Refusals
    <3>2. QED
      BY <3>1
  <2>2. QED
    BY <1>1, <2>1, Zenon DEF ForgeMerges
<1>2. CASE WorkerRuns
  BY <1>2, Zenon DEF WorkerRuns, Mergeable
<1>3. CASE ~WorkerRuns /\ ~\E r \in Requests : ForgeMerges(r)
  BY <1>3, Zenon DEF MergeNext, World, Request, StartMerge, StartAuto, StartCancel, Cancel, TryAgain,
    Refused, NotScheduled, NotCancelled, Written, ReadBack, GivesUp, Sends, Ends, forge,
    mergeVars, StatusOrReview, Push, Checked, ForgeSchedules, ForgeCancels
<1>4. QED
  BY <1>1, <1>2, <1>3

(* Becoming done takes Forgejo's answer.                                   *)
LEMMA Finishing ==
  ASSUME NEW q \in Requests, Inputs, Progress, Answers, SentOnce(q), OnTrack(q), Done(q)',
         [MergeNext]_mergeVars
  PROVE  \/ Done(q) /\ found'[q] = found[q]
         \/ ForgeMerges(q) /\ reply'[q] = "ok"
         \/ ForgeCancels(q) /\ reply'[q] \in {"ok", "not found"} /\ found'[q] = found[q]
         \/ op[q] = "auto"
<1> USE DEF Done, OnTrack, SentOnce, Progress, Answers, Replies, Sends, Ends, Heard
<1>1. CASE Kept(q)
  BY <1>1 DEF Kept
<1>2. CASE ForgeMerges(q)
  BY <1>2 DEF ForgeMerges, Refusals
<1>3. CASE ForgeSchedules(q)
  BY <1>3 DEF ForgeSchedules
<1>4. CASE ForgeCancels(q)
  BY <1>4 DEF ForgeCancels
<1>5. CASE StartMerge(q) \/ StartAuto(q) \/ Cancel(q)
  BY <1>5 DEF StartMerge, StartAuto, Cancel
<1>6. CASE StartCancel(q)
  BY <1>6 DEF StartCancel
<1>7. CASE TryAgain(q)
  BY <1>7 DEF TryAgain
<1>8. CASE Refused(q)
  BY <1>8 DEF Refused
<1>9. CASE NotScheduled(q) \/ NotCancelled(q)
  BY <1>9 DEF NotScheduled, NotCancelled
<1>10. CASE Written(q)
  <2>1. found' = found /\ phase[q] \in {"direct", "schedule", "delete"} /\ reply[q] \in {"ok", "not found"}
    BY <1>10 DEF Written
  <2>2. phase[q] = "schedule" => op[q] = "auto"
    BY DEF Inputs
  <2>3. QED
    BY <2>1, <2>2
<1>11. CASE ReadBack(q)
  BY <1>11 DEF ReadBack
<1>12. CASE GivesUp(q)
  <2>1. answer'[q] = "error" /\ phase'[q] \in {"done", "gone direct", "gone schedule", "gone delete"}
    <3>1. sent[q] => phase[q] \in {"direct", "schedule", "delete"}
      BY <1>12 DEF GivesUp
    <3>2. QED
      BY <1>12, <3>1, GoneAt DEF GivesUp
  <2>2. QED
    BY <2>1
<1>13. QED
  BY <1>1, <1>2, <1>3, <1>4, <1>5, <1>6, <1>7, <1>8, <1>9, <1>10, <1>11, <1>12, OwnOrKept, Zenon
     DEF Own

LEMMA DoneForStep ==
  ASSUME NEW q \in Requests, Forge, Inputs, Progress, Answers, SentOnce(q), OnTrack(q), DoneFor(q),
         found[q] # Nil => Spent(found[q]), UNCHANGED asked, [MergeNext]_mergeVars
  PROVE  DoneFor(q)'
<1> SUFFICES ASSUME Done(q)'
             PROVE  /\ op[q] = "merge" => merged' = q
                    /\ op[q] = "cancel" /\ found'[q] # Nil => schedule' # found'[q]
  BY Zenon DEF DoneFor, asked
<1>0. q # Nil
  BY MergeAssumption
<1>1. CASE Done(q) /\ found'[q] = found[q]
  <2>1. op[q] = "merge" => merged' = q
    BY <1>0, <1>1, MergedOnce DEF DoneFor
  <2>2. ASSUME op[q] = "cancel", found[q] # Nil PROVE schedule' # found[q]
    <3>1. schedule # found[q]
      BY <1>1, <2>2 DEF DoneFor
    <3>2. ASSUME NEW r \in Requests, schedule' = r, ForgeSchedules(r) PROVE r # found[q]
      BY <2>2, <3>2 DEF ForgeSchedules, Spent
    <3>3. QED
      BY <2>2, <3>1, <3>2, Scheduler
  <2>3. QED
    BY <1>1, <2>1, <2>2
<1>2. CASE ForgeMerges(q) /\ reply'[q] = "ok"
  <2>1. phase[q] \in {"direct", "gone direct"} /\ merged' = q
    BY <1>2 DEF ForgeMerges, Merges, Replies, Refusals, Progress
  <2>2. op[q] # "cancel"
    BY <2>1 DEF OnTrack
  <2>3. QED
    BY <2>1, <2>2
<1>3. CASE ForgeCancels(q) /\ reply'[q] \in {"ok", "not found"}
  <2>1. phase[q] \in {"delete", "gone delete"} /\ schedule' = Nil
    BY <1>3 DEF ForgeCancels, Replies, Progress
  <2>2. op[q] # "merge"
    BY <2>1 DEF OnTrack
  <2>3. QED
    BY <2>1, <2>2
<1>4. CASE op[q] = "auto"
  BY <1>4
<1>5. QED
  BY <1>1, <1>2, <1>3, <1>4, Finishing

(* What is shown was read after Forgejo answered.                          *)
LEMMA ShownStep ==
  ASSUME NEW q \in Requests, Forge, Inputs, Progress, Answers, SentOnce(q), OnTrack(q), DoneFor(q),
         UNCHANGED asked, DoneFor(q)', [MergeNext]_mergeVars,
         answer[q] = "ok" =>
           /\ op[q] = "merge" => shown[q].merged = q
           /\ op[q] = "cancel" /\ found[q] # Nil => shown[q].schedule # found[q],
         answer'[q] = "ok"
  PROVE  /\ op[q] = "merge" => merged' = q /\ shown'[q].merged = q
         /\ op[q] = "cancel" /\ found'[q] # Nil =>
              schedule' # found'[q] /\ shown'[q].schedule # found'[q]
<1>1. /\ op[q] = "merge" => merged' = q
      /\ op[q] = "cancel" /\ found'[q] # Nil => schedule' # found'[q]
  BY Zenon DEF DoneFor, Done, asked
<1>2. CASE Kept(q)
  BY <1>1, <1>2 DEF Kept
<1>3. CASE ReadBack(q)
  <2>1. shown'[q] = Pull /\ found'[q] = found[q]
    BY <1>3 DEF ReadBack, OnTrack, Answers
  <2>2. shown'[q].merged = merged /\ shown'[q].schedule = schedule
    BY <2>1 DEF Pull
  <2>3. UNCHANGED <<merged, schedule>>
    BY <1>3 DEF ReadBack, forge
  <2>4. QED
    BY <1>1, <2>1, <2>2, <2>3, Zenon
<1>4. CASE Own(q) /\ ~ReadBack(q)
  <2>1. answer[q] = "ok"
    BY <1>4 DEF Own, ForgeMerges, ForgeSchedules, ForgeCancels, StartMerge, StartAuto, StartCancel,
      Cancel, TryAgain, Refused, NotScheduled, NotCancelled, Written, GivesUp, Sends, Ends, Answers
  <2>2. phase[q] = "done"
    BY <2>1 DEF OnTrack
  <2>3. QED
    BY <1>4, <2>2 DEF Own, ForgeMerges, ForgeSchedules, ForgeCancels, StartMerge, StartAuto, StartCancel,
      Cancel, TryAgain, Refused, NotScheduled, NotCancelled, Written, GivesUp, Heard
<1>5. QED
  BY <1>2, <1>3, <1>4, OwnOrKept

LEMMA AskedKept == ASSUME [MergeNext]_mergeVars PROVE UNCHANGED asked
BY Zenon DEF MergeNext, World, Request, StartMerge, StartAuto, StartCancel, Cancel, TryAgain,
  Refused, NotScheduled, NotCancelled, Written, ReadBack, GivesUp, Sends, Ends, mergeVars,
  WorkerRuns, StatusOrReview, Push, Checked, ForgeMerges, ForgeSchedules, ForgeCancels

LEMMA InitiallyTrue == MergeInit => SInv
<1> SUFFICES ASSUME MergeInit PROVE SInv
  OBVIOUS
<1>1. MergeInv
  BY Initially
<1>2. SuccessIsTrue
  BY DEF MergeInit, SuccessIsTrue
<1>3. \A r \in Requests : OnTrack(r) /\ DoneFor(r) /\ found[r] = Nil
  BY DEF MergeInit, OnTrack, DoneFor, Done
<1>4. schedule = Nil
  BY DEF MergeInit
<1>5. QED
  BY <1>1, <1>2, <1>3, <1>4 DEF SInv

LEMMA TrueStep ==
  ASSUME SInv, MergeInv', [MergeNext]_mergeVars
  PROVE  SInv'
<1>1. Flags /\ Forge /\ Inputs /\ Progress /\ Answers /\ Inputs'
  <2>1. MergeTypeOK /\ MergeTypeOK'
    BY DEF SInv, MergeInv
  <2>2. Inputs'
    BY <2>1, TypeParts, InputsStep DEF SInv, MergeInv
  <2>3. QED
    BY <2>1, <2>2, TypeParts
<1>2. \A r \in Requests : SentOnce(r) /\ OnTrack(r) /\ DoneFor(r) /\ (found[r] # Nil => Spent(found[r]))
  BY DEF SInv, MergeInv
<1>3. schedule # Nil => Spent(schedule)
  BY DEF SInv
<1>4. UNCHANGED asked
  BY AskedKept
<1>5. \A r \in Requests : OnTrack(r)'
  BY <1>1, <1>2, <1>4, OnTrackStep
<1>6. \A r \in Requests : DoneFor(r)'
  BY <1>1, <1>2, <1>4, DoneForStep
<1>7. \A r \in Requests : found'[r] # Nil => Spent(found[r])'
  <2>1. ASSUME NEW r \in Requests, found'[r] # Nil PROVE Spent(found[r])'
    <3>1. PICK s \in Requests : s = found'[r] /\ Spent(s)'
      BY <1>1, <1>2, <1>3, <2>1, FoundSpent
    <3>2. QED
      BY <3>1 DEF Spent
  <2>2. QED
    BY <2>1
<1>8. schedule' # Nil => Spent(schedule)'
  BY <1>1, <1>3, ScheduledSpent
<1>9. SuccessIsTrue'
  <2>1. ASSUME NEW r \in Requests, answer'[r] = "ok"
        PROVE  /\ op'[r] = "merge" => merged' = r /\ shown'[r].merged = r
               /\ op'[r] = "cancel" /\ found'[r] # Nil =>
                    schedule' # found'[r] /\ shown'[r].schedule # found'[r]
    <3>1. answer[r] = "ok" =>
            /\ op[r] = "merge" => shown[r].merged = r
            /\ op[r] = "cancel" /\ found[r] # Nil => shown[r].schedule # found[r]
      BY Zenon DEF SInv, SuccessIsTrue
    <3>2. op'[r] = op[r]
      BY <1>4 DEF asked
    <3>3. QED
      BY <1>1, <1>2, <1>4, <1>6, <2>1, <3>1, <3>2, ShownStep
  <2>2. QED
    BY <2>1, Zenon DEF SuccessIsTrue
<1>10. QED
  BY <1>5, <1>6, <1>7, <1>8, <1>9, Zenon DEF SInv

(* A mutation answered with success is the truth: this request merged the  *)
(* pull request and it shows so; the auto-merge a cancellation found is    *)
(* gone for good, whatever others schedule and cancel meanwhile, and does  *)
(* not show.  (mutations.rs merge, writes.rs cancel_auto_merge.)           *)
THEOREM SuccessHonest == MergeSpec => []SuccessIsTrue
<1>1. SInv /\ MergeInv' /\ [MergeNext]_mergeVars => SInv'
  BY TrueStep
<1>2. SInv => SuccessIsTrue
  BY DEF SInv
<1>3. QED
  BY <1>1, <1>2, InitiallyTrue, Invariance, PTL DEF MergeSpec

(* A set of numbers has a least.                                            *)
LEMMA LeastOf ==
    ASSUME NEW S \in SUBSET Nat, S # {}
    PROVE  \E x \in S : \A y \in S : x <= y
<1>1. PICK x \in S : \A y \in S : ~(<<y, x>> \in OpToRel(<, Nat))
  <2>1. IsWellFoundedOn(OpToRel(<, Nat), Nat)
    BY NatLessThanWellFounded
  <2> QED BY <2>1, WFMin, Zenon
<1>2. \A y \in S : ~(y < x)
  BY <1>1 DEF OpToRel
<1> QED BY <1>2

(***************************************************************************)
(* The references to an issue                                              *)
(***************************************************************************)

(* The types: an event refers to the issue from a pull request, and a text *)
(* says again what its events said.                                        *)
EventType == [id : Nat, pull : Pulls, action : {"closes", "reopens", "neutered"}]
SayType == [id : Nat, action : {"closes", "reopens"}]
Referred ==
    /\ last \in Nat /\ events \in Seq(EventType) /\ says \in [Pulls -> Seq(SayType)]

(* An event's id is its own; a text's keywords are in the order written,   *)
(* and they are the deciding events of its pull request.                   *)
OwnIds ==
    /\ \A j, k \in DOMAIN events : events[j].id = events[k].id => j = k
    /\ \A j \in DOMAIN events : events[j].id < last
InOrder == \A p \in Pulls : \A i, j \in DOMAIN says[p] : i < j => says[p][i].id < says[p][j].id
Mirrors(p) ==
    /\ \A i \in DOMAIN says[p] : \E j \in DOMAIN events :
          events[j] = [id |-> says[p][i].id, pull |-> p, action |-> says[p][i].action]
    /\ \A j \in DOMAIN events : events[j].pull = p /\ events[j].action \in {"closes", "reopens"} =>
          \E i \in DOMAIN says[p] : says[p][i] = [id |-> events[j].id, action |-> events[j].action]
ReferInv == Referred /\ OwnIds /\ InOrder /\ \A p \in Pulls : Mirrors(p)

(* What the sequences here hold.                                           *)
LEMMA SeqParts ==
    ASSUME NEW T, NEW s \in Seq(T)
    PROVE  Len(s) \in Nat /\ DOMAIN s = 1..Len(s) /\ \A i \in DOMAIN s : s[i] \in T
OBVIOUS

LEMMA SeqMade ==
    ASSUME NEW T, NEW n \in Nat, NEW s, DOMAIN s = 1..n, s = [i \in 1..n |-> s[i]],
           \A i \in 1..n : s[i] \in T
    PROVE  s \in Seq(T) /\ Len(s) = n
<1>1. s \in [1..n -> T]
  OBVIOUS
<1> QED BY <1>1

(* Where the elements of a joined sequence come from.                      *)
LEMMA Joined ==
    ASSUME NEW T, NEW a \in Seq(T), NEW b \in Seq(T)
    PROVE  /\ a \o b \in Seq(T) /\ Len(a \o b) = Len(a) + Len(b)
           /\ \A k \in 1..Len(a) : (a \o b)[k] = a[k]
           /\ \A k \in 1..Len(b) : (a \o b)[Len(a) + k] = b[k]
OBVIOUS

(* What RemoveAt leaves of a sequence.                                     *)
LEMMA RemovedAt ==
    ASSUME NEW T, NEW s \in Seq(T), NEW i \in 1..Len(s)
    PROVE  /\ RemoveAt(s, i) \in Seq(T)
           /\ Len(RemoveAt(s, i)) = Len(s) - 1
           /\ \A k \in 1..(Len(s) - 1) : RemoveAt(s, i)[k] = IF k < i THEN s[k] ELSE s[k + 1]
<1> DEFINE a == SubSeq(s, 1, i - 1)
           b == SubSeq(s, i + 1, Len(s))
<1>1. a \in Seq(T) /\ Len(a) = i - 1 /\ \A k \in 1..(i - 1) : a[k] = s[k]
  OBVIOUS
<1>2. b \in Seq(T) /\ Len(b) = Len(s) - i /\ \A k \in 1..(Len(s) - i) : b[k] = s[i + k]
  OBVIOUS
<1>3. RemoveAt(s, i) = a \o b
  BY DEF RemoveAt
<1> HIDE DEF a, b
<1>4. /\ a \o b \in Seq(T) /\ Len(a \o b) = Len(s) - 1
      /\ \A k \in 1..(i - 1) : (a \o b)[k] = s[k]
      /\ \A k \in 1..(Len(s) - i) : (a \o b)[(i - 1) + k] = s[i + k]
  <2>1. /\ a \o b \in Seq(T) /\ Len(a \o b) = Len(a) + Len(b)
        /\ \A k \in 1..Len(a) : (a \o b)[k] = a[k]
        /\ \A k \in 1..Len(b) : (a \o b)[Len(a) + k] = b[k]
    <3>1. a \in Seq(T) /\ b \in Seq(T)
      BY <1>1, <1>2
    <3> QED BY ONLY <3>1, Joined
  <2> QED BY <2>1, <1>1, <1>2
<1> DEFINE c == a \o b
<1> HIDE DEF c
<1>5. \A k \in 1..(i - 1) : c[k] = s[k]
  BY <1>4 DEF c
<1>6. \A k \in 1..(Len(s) - i) : c[(i - 1) + k] = s[i + k]
  BY <1>4 DEF c
<1>7. ASSUME NEW k \in i..(Len(s) - 1) PROVE c[k] = s[k + 1]
  <2>1. k - i + 1 \in 1..(Len(s) - i) /\ (i - 1) + (k - i + 1) = k /\ i + (k - i + 1) = k + 1
    OBVIOUS
  <2>2. c[(i - 1) + (k - i + 1)] = s[i + (k - i + 1)]
    BY <2>1, <1>6
  <2> QED BY <2>1, <2>2
<1>8. \A k \in 1..(Len(s) - 1) : c[k] = IF k < i THEN s[k] ELSE s[k + 1]
  BY <1>5, <1>7
<1> QED BY <1>3, <1>4, <1>8 DEF c

(* The types, taken apart.                                                 *)
LEMMA ReferredParts ==
    ASSUME Referred
    PROVE  /\ last \in Nat /\ Len(events) \in Nat /\ DOMAIN events = 1..Len(events)
           /\ \A j \in DOMAIN events : events[j] \in EventType /\ events[j].id \in Nat
           /\ \A p \in Pulls :
                 /\ says[p] \in Seq(SayType) /\ Len(says[p]) \in Nat /\ DOMAIN says[p] = 1..Len(says[p])
                 /\ \A i \in DOMAIN says[p] : says[p][i] \in SayType /\ says[p][i].id \in Nat
<1>1. events \in Seq(EventType) /\ \A p \in Pulls : says[p] \in Seq(SayType)
  BY DEF Referred
<1>2. \A e \in EventType : e.id \in Nat
  BY DEF EventType
<1>3. \A w \in SayType : w.id \in Nat
  BY DEF SayType
<1>4. Len(events) \in Nat /\ DOMAIN events = 1..Len(events) /\ \A j \in DOMAIN events : events[j] \in EventType
  BY <1>1, SeqParts
<1>5. ASSUME NEW p \in Pulls
      PROVE  Len(says[p]) \in Nat /\ DOMAIN says[p] = 1..Len(says[p])
             /\ \A i \in DOMAIN says[p] : says[p][i] \in SayType
  BY <1>1, SeqParts
<1> QED BY <1>1, <1>2, <1>3, <1>4, <1>5 DEF Referred

(* Before anyone wrote anything nothing refers to the issue.               *)
LEMMA ReferStart == ThreadInit => ReferInv
BY DEF ThreadInit, ReferInv, Referred, OwnIds, InOrder, Mirrors, EventType, SayType

(* A keyword more is an event more, the newest of both.                    *)
LEMMA SayKept ==
    ASSUME ReferInv, NEW p \in Pulls, NEW action \in {"closes", "reopens"}, Say(p, action)
    PROVE  ReferInv'
<1> DEFINE e == [id |-> last, pull |-> p, action |-> action]
           w == [id |-> last, action |-> action]
<1>1. e \in EventType /\ w \in SayType /\ last' = last + 1 /\ last \in Nat
  BY DEF ReferInv, Referred, EventType, SayType, Say, Posting
<1>2. events' = Append(events, e) /\ says' = [says EXCEPT ![p] = Append(@, w)]
  BY DEF Say
<1> HIDE DEF e, w
<1>3. Referred'
  BY <1>1, <1>2 DEF ReferInv, Referred
<1>4. /\ DOMAIN events' = 1..(Len(events) + 1) /\ DOMAIN events = 1..Len(events) /\ Len(events) \in Nat
      /\ \A j \in 1..Len(events) : events'[j] = events[j]
      /\ events'[Len(events) + 1] = e
  BY <1>1, <1>2 DEF ReferInv, Referred
<1>5. /\ DOMAIN says'[p] = 1..(Len(says[p]) + 1) /\ DOMAIN says[p] = 1..Len(says[p]) /\ Len(says[p]) \in Nat
      /\ \A i \in 1..Len(says[p]) : says'[p][i] = says[p][i]
      /\ says'[p][Len(says[p]) + 1] = w
  <2>1. says[p] \in Seq(SayType) /\ says'[p] = Append(says[p], w)
    BY <1>2 DEF ReferInv, Referred
  <2> QED BY <2>1, <1>1
<1>6. \A q \in Pulls \ {p} : says'[q] = says[q]
  BY <1>2 DEF ReferInv, Referred
<1>7. e.id = last /\ e.pull = p /\ e.action = action /\ w.id = last /\ w.action = action
  BY DEF e, w
<1>8. \A j \in DOMAIN events : events[j].id \in Nat /\ events[j].id < last
  BY ReferredParts DEF ReferInv, OwnIds
<1>9. OwnIds'
  BY <1>1, <1>4, <1>7, <1>8 DEF ReferInv, OwnIds
<1>10. \A i \in DOMAIN says[p] : says[p][i].id \in Nat /\ says[p][i].id < last
  BY <1>8 DEF ReferInv, Mirrors
<1>11. InOrder'
  <2> SUFFICES ASSUME NEW q \in Pulls, NEW i \in DOMAIN says'[q], NEW j \in DOMAIN says'[q], i < j
               PROVE  says'[q][i].id < says'[q][j].id
    BY DEF InOrder
  <2>1. CASE q # p
    BY <2>1, <1>6 DEF ReferInv, InOrder
  <2>2. CASE q = p /\ j = Len(says[p]) + 1
    <3>1. i \in 1..Len(says[p])
      BY <2>2, <1>5
    <3> QED BY <3>1, <2>2, <1>5, <1>7, <1>10
  <2>3. CASE q = p /\ j # Len(says[p]) + 1
    <3>1. i \in 1..Len(says[p]) /\ j \in 1..Len(says[p])
      BY <2>3, <1>5
    <3> QED BY <3>1, <2>3, <1>5 DEF ReferInv, InOrder
  <2> QED BY <2>1, <2>2, <2>3
<1>12. ASSUME NEW q \in Pulls, q # p PROVE Mirrors(q)'
  <2>1. Mirrors(q) /\ says'[q] = says[q]
    BY <1>6, <1>12 DEF ReferInv
  <2>2. \A j \in DOMAIN events' : events'[j].pull = q => j \in DOMAIN events
    BY <1>4, <1>7, <1>12
  <2>3. \A j \in DOMAIN events : j \in DOMAIN events' /\ events'[j] = events[j]
    BY <1>4
  <2> QED BY <2>1, <2>2, <2>3 DEF Mirrors
<1>13. Mirrors(p)'
  <2>0. Mirrors(p)
    BY DEF ReferInv
  <2>1. ASSUME NEW i \in DOMAIN says'[p]
        PROVE  \E j \in DOMAIN events' : events'[j] = [id |-> says'[p][i].id, pull |-> p, action |-> says'[p][i].action]
    <3>1. CASE i = Len(says[p]) + 1
      <4>1. events'[Len(events) + 1] = [id |-> says'[p][i].id, pull |-> p, action |-> says'[p][i].action]
        BY <3>1, <1>4, <1>5 DEF e, w
      <4> QED BY <4>1, <1>4
    <3>2. CASE i # Len(says[p]) + 1
      <4>1. i \in DOMAIN says[p] /\ says'[p][i] = says[p][i]
        BY <3>2, <2>1, <1>5
      <4> QED BY <4>1, <2>0, <1>4 DEF Mirrors
    <3> QED BY <3>1, <3>2
  <2>2. ASSUME NEW j \in DOMAIN events', events'[j].pull = p, events'[j].action \in {"closes", "reopens"}
        PROVE  \E i \in DOMAIN says'[p] : says'[p][i] = [id |-> events'[j].id, action |-> events'[j].action]
    <3>1. CASE j = Len(events) + 1
      <4>1. says'[p][Len(says[p]) + 1] = [id |-> events'[j].id, action |-> events'[j].action]
        BY <3>1, <1>4, <1>5 DEF e, w
      <4> QED BY <4>1, <1>5
    <3>2. CASE j # Len(events) + 1
      <4>1. j \in DOMAIN events /\ events'[j] = events[j]
        BY <3>2, <2>2, <1>4
      <4>2. PICK i \in DOMAIN says[p] : says[p][i] = [id |-> events[j].id, action |-> events[j].action]
        BY <4>1, <2>2, <2>0 DEF Mirrors
      <4> QED BY <4>1, <4>2, <1>5
    <3> QED BY <3>1, <3>2
  <2> QED BY <2>1, <2>2 DEF Mirrors
<1> QED BY <1>3, <1>9, <1>11, <1>12, <1>13 DEF ReferInv

(* A keyword taken back takes the event it was with it.                    *)
LEMMA UnsayKept ==
    ASSUME ReferInv, NEW p \in Pulls, NEW i \in DOMAIN says[p], Unsay(p, i)
    PROVE  ReferInv'
<1> DEFINE id == says[p][i].id
           n == Len(says[p])
<1>1. says[p] \in Seq(SayType) /\ n \in Nat /\ i \in 1..n /\ DOMAIN says[p] = 1..n
  BY DEF ReferInv, Referred
<1>2. /\ says' = [says EXCEPT ![p] = RemoveAt(@, i)] /\ last' = last
      /\ events' = [j \in DOMAIN events |->
                      IF events[j].id = id THEN [events[j] EXCEPT !.action = "neutered"] ELSE events[j]]
  BY DEF Unsay
<1>3. /\ says'[p] = RemoveAt(says[p], i)
      /\ \A q \in Pulls \ {p} : says'[q] = says[q]
  BY <1>2 DEF ReferInv, Referred
<1>4. /\ says'[p] \in Seq(SayType) /\ DOMAIN says'[p] = 1..(n - 1)
      /\ \A k \in 1..(n - 1) : says'[p][k] = IF k < i THEN says[p][k] ELSE says[p][k + 1]
  <2>1. /\ RemoveAt(says[p], i) \in Seq(SayType) /\ Len(RemoveAt(says[p], i)) = n - 1
        /\ \A k \in 1..(n - 1) : RemoveAt(says[p], i)[k] = IF k < i THEN says[p][k] ELSE says[p][k + 1]
    BY <1>1, RemovedAt
  <2> QED BY <2>1, <1>3
<1>5. /\ events' \in Seq(EventType) /\ DOMAIN events' = DOMAIN events
      /\ \A j \in DOMAIN events :
            /\ events'[j].id = events[j].id /\ events'[j].pull = events[j].pull
            /\ events[j].id # id => events'[j] = events[j]
            /\ events[j].id = id => events'[j].action = "neutered"
  <2>1. \A j \in DOMAIN events : events[j] \in EventType
    BY ReferredParts DEF ReferInv
  <2>2. \A ev \in EventType : [ev EXCEPT !.action = "neutered"] \in EventType
    BY DEF EventType
  <2>3. \A j \in DOMAIN events : events'[j] \in EventType
    BY <2>1, <2>2, <1>2
  <2>4. events' \in Seq(EventType) /\ DOMAIN events' = DOMAIN events
    <3>1. Len(events) \in Nat /\ DOMAIN events = 1..Len(events)
      BY ReferredParts DEF ReferInv
    <3>2. DOMAIN events' = 1..Len(events) /\ events' = [j \in 1..Len(events) |-> events'[j]]
      BY <3>1, <1>2
    <3> QED BY <2>3, <3>1, <3>2, SeqMade
  <2>5. \A j \in DOMAIN events :
            /\ events'[j].id = events[j].id /\ events'[j].pull = events[j].pull
            /\ events[j].id # id => events'[j] = events[j]
            /\ events[j].id = id => events'[j].action = "neutered"
    BY <2>1, <1>2 DEF EventType
  <2> QED BY <2>4, <2>5
<1>6. PICK spot \in DOMAIN events : events[spot].id = id /\ events[spot].pull = p
  BY DEF ReferInv, Mirrors
<1>7. \A j \in DOMAIN events : events[j].id = id => j = spot
  BY <1>6 DEF ReferInv, OwnIds
<1>8. Referred' /\ OwnIds'
  BY <1>2, <1>3, <1>4, <1>5 DEF ReferInv, Referred, OwnIds
<1>9. \A k \in DOMAIN says'[p] : \E m \in DOMAIN says[p] :
          says'[p][k] = says[p][m] /\ m # i /\ m = IF k < i THEN k ELSE k + 1
  BY <1>1, <1>4
<1>10. \A m \in DOMAIN says[p] : m # i => \E k \in DOMAIN says'[p] : says'[p][k] = says[p][m]
  <2> TAKE m \in DOMAIN says[p]
  <2> HAVE m # i
  <2>1. CASE m < i
    BY <2>1, <1>1, <1>4
  <2>2. CASE m > i
    <3>1. m - 1 \in 1..(n - 1) /\ ~(m - 1 < i) /\ (m - 1) + 1 = m
      BY <2>2, <1>1
    <3>2. says'[p][m - 1] = says[p][m]
      BY <3>1, <1>4
    <3> QED BY <3>1, <3>2, <1>4
  <2> QED BY <2>1, <2>2, <1>1
<1>11. \A k, m \in DOMAIN says[p] : says[p][k].id = says[p][m].id => k = m
  <2>1. \A k \in DOMAIN says[p] : k \in Nat /\ says[p][k].id \in Nat
    BY <1>1, ReferredParts DEF ReferInv
  <2>2. \A k, m \in DOMAIN says[p] : k < m => says[p][k].id < says[p][m].id
    BY DEF ReferInv, InOrder
  <2> QED BY <2>1, <2>2
<1>12. InOrder'
  <2> SUFFICES ASSUME NEW q \in Pulls, NEW k \in DOMAIN says'[q], NEW m \in DOMAIN says'[q], k < m
               PROVE  says'[q][k].id < says'[q][m].id
    BY DEF InOrder
  <2>1. CASE q # p
    BY <2>1, <1>3 DEF ReferInv, InOrder
  <2>2. CASE q = p
    <3>1. PICK kk \in DOMAIN says[p] : says'[p][k] = says[p][kk] /\ kk = IF k < i THEN k ELSE k + 1
      BY <2>2, <1>9
    <3>2. PICK mm \in DOMAIN says[p] : says'[p][m] = says[p][mm] /\ mm = IF m < i THEN m ELSE m + 1
      BY <2>2, <1>9
    <3>3. kk < mm
      BY <3>1, <3>2, <2>2, <1>1, <1>4
    <3> QED BY <3>1, <3>2, <3>3, <2>2 DEF ReferInv, InOrder
  <2> QED BY <2>1, <2>2
<1>13. ASSUME NEW q \in Pulls, q # p PROVE Mirrors(q)'
  <2>1. Mirrors(q) /\ says'[q] = says[q]
    BY <1>3, <1>13 DEF ReferInv
  <2>2. \A j \in DOMAIN events : events[j].pull = q => events[j].id # id
    BY <1>6, <1>7, <1>13
  <2> QED BY <2>1, <2>2, <1>5 DEF Mirrors
<1>14. Mirrors(p)'
  <2>0. Mirrors(p)
    BY DEF ReferInv
  <2>1. ASSUME NEW k \in DOMAIN says'[p]
        PROVE  \E j \in DOMAIN events' : events'[j] = [id |-> says'[p][k].id, pull |-> p, action |-> says'[p][k].action]
    <3>1. PICK m \in DOMAIN says[p] : says'[p][k] = says[p][m] /\ m # i
      BY <2>1, <1>9
    <3>2. PICK j \in DOMAIN events : events[j] = [id |-> says[p][m].id, pull |-> p, action |-> says[p][m].action]
      BY <2>0 DEF Mirrors
    <3>3. events[j].id # id
      BY <3>1, <3>2, <1>11
    <3> QED BY <3>1, <3>2, <3>3, <1>5
  <2>2. ASSUME NEW j \in DOMAIN events', events'[j].pull = p, events'[j].action \in {"closes", "reopens"}
        PROVE  \E k \in DOMAIN says'[p] : says'[p][k] = [id |-> events'[j].id, action |-> events'[j].action]
    <3>1. j \in DOMAIN events /\ events[j].id # id /\ events'[j] = events[j]
      BY <2>2, <1>5
    <3>2. PICK m \in DOMAIN says[p] : says[p][m] = [id |-> events[j].id, action |-> events[j].action]
      BY <3>1, <2>0, <2>2 DEF Mirrors
    <3>3. m # i
      BY <3>1, <3>2
    <3> QED BY <3>1, <3>2, <3>3, <1>10
  <2> QED BY <2>1, <2>2 DEF Mirrors
<1> QED BY <1>8, <1>12, <1>13, <1>14 DEF ReferInv

(* Every step keeps what the events say what the texts say.                *)
LEMMA ReferStep == ReferInv /\ [ThreadNext]_threadVars => ReferInv'
<1> SUFFICES ASSUME ReferInv, [ThreadNext]_threadVars PROVE ReferInv'
  OBVIOUS
<1>1. ASSUME Posting, UNCHANGED <<events, says>> PROVE ReferInv'
  <2>1. last' = last + 1 /\ last \in Nat /\ \A j \in DOMAIN events : events[j].id \in Nat
    BY <1>1, ReferredParts DEF Posting, ReferInv
  <2>2. OwnIds'
    BY <2>1, <1>1 DEF ReferInv, OwnIds
  <2> QED BY <2>1, <2>2, <1>1 DEF ReferInv, Referred, InOrder, Mirrors
<1>2. ASSUME UNCHANGED <<events, says, last>> PROVE ReferInv'
  BY <1>2 DEF ReferInv, Referred, OwnIds, InOrder, Mirrors
<1>3. CASE Talking
  BY <1>3, <1>1, <1>2 DEF Talking, GiveReview, Submit, Remark, Reply, Resolve
<1>4. CASE Referring
  BY <1>4, <1>2, SayKept, UnsayKept DEF Referring, EndPull
<1>5. CASE UNCHANGED threadVars
  BY <1>5, <1>2 DEF threadVars
<1> QED BY <1>3, <1>4, <1>5 DEF ThreadNext

(* The newest keyword of a text is the newest deciding event.              *)
(* The newest event of a pull request is its last keyword.                 *)
LEMMA NewestIsLast ==
    ASSUME ReferInv, NEW p \in Pulls, NEW newest \in Deciding, newest.pull = p,
           \A o \in Deciding : o.pull = p => o.id <= newest.id
    PROVE  says[p] # <<>> /\ Last(says[p]).action = newest.action
<1>0. /\ says[p] \in Seq(SayType) /\ Len(says[p]) \in Nat /\ DOMAIN says[p] = 1..Len(says[p])
      /\ \A i \in DOMAIN says[p] : says[p][i] \in SayType /\ says[p][i].id \in Nat
  BY ReferredParts DEF ReferInv
<1>1. PICK j \in DOMAIN events : events[j] = newest /\ newest.action \in {"closes", "reopens"}
  BY DEF Deciding
<1>2. PICK i \in DOMAIN says[p] : says[p][i] = [id |-> newest.id, action |-> newest.action]
  BY <1>1 DEF ReferInv, Mirrors
<1>3. Len(says[p]) \in DOMAIN says[p]
  BY <1>0, <1>2
<1>4. PICK k \in DOMAIN events : events[k] = [id |-> Last(says[p]).id, pull |-> p, action |-> Last(says[p]).action]
  BY <1>3 DEF ReferInv, Mirrors, Last
<1>5. Last(says[p]).action \in {"closes", "reopens"}
  BY <1>0, <1>3 DEF Last, SayType
<1>6. events[k] \in Deciding /\ events[k].pull = p /\ events[k].id = Last(says[p]).id
  BY <1>4, <1>5 DEF Deciding
<1>7. Last(says[p]).id <= newest.id
  BY <1>6
<1>8. i = Len(says[p])
  BY <1>0, <1>2, <1>3, <1>7 DEF ReferInv, InOrder, Last
<1> QED BY <1>0, <1>2, <1>8 DEF Last

(* A text with keywords has a deciding event, and so a newest one.         *)
(* A text with a keyword has a newest event.                               *)
LEMMA NewestExists ==
    ASSUME ReferInv, NEW p \in Pulls, says[p] # <<>>
    PROVE  \E e \in Deciding : e.pull = p /\ \A o \in Deciding : o.pull = p => o.id <= e.id
<1> DEFINE n == Len(says[p])
<1>0. /\ n \in DOMAIN says[p] /\ DOMAIN says[p] = 1..n /\ n \in Nat
      /\ \A i \in DOMAIN says[p] : says[p][i] \in SayType
  BY ReferredParts DEF ReferInv
<1>1. PICK k \in DOMAIN events : events[k] = [id |-> says[p][n].id, pull |-> p, action |-> says[p][n].action]
  BY <1>0 DEF ReferInv, Mirrors
<1>2. events[k] \in Deciding /\ events[k].pull = p /\ events[k].id = says[p][n].id
  BY <1>0, <1>1 DEF Deciding, SayType
<1>3. ASSUME NEW o \in Deciding, o.pull = p PROVE o.id <= events[k].id
  <2>1. PICK j \in DOMAIN events : events[j] = o /\ o.action \in {"closes", "reopens"}
    BY DEF Deciding
  <2>2. PICK i \in DOMAIN says[p] : says[p][i] = [id |-> o.id, action |-> o.action]
    BY <2>1, <1>3 DEF ReferInv, Mirrors
  <2>3. says[p][i].id \in Nat /\ says[p][n].id \in Nat /\ says[p][i].id = o.id
    BY <2>2, <1>0 DEF SayType
  <2>4. CASE i = n
    BY <2>3, <2>4, <1>2
  <2>5. CASE i # n
    <3>1. i < n
      BY <2>5, <1>0
    <3> QED BY <3>1, <2>3, <1>0, <1>2 DEF ReferInv, InOrder
  <2> QED BY <2>4, <2>5
<1> QED BY <1>2, <1>3

(* So the references read are the ones the texts end with.                 *)
LEMMA ReferProp == ReferInv => ClosesOnMerge
<1> SUFFICES ASSUME ReferInv, NEW readable \in SUBSET Pulls, NEW p \in readable
             PROVE  p \in ClosingPulls(readable)
                    <=> ends[p] # "closed" /\ says[p] # <<>> /\ Last(says[p]).action = "closes"
  BY DEF ClosesOnMerge, ClosingPulls
<1> DEFINE Newest(e) == e.pull = p /\ \A o \in Deciding : o.pull = p => o.id <= e.id
           newest == CHOOSE e \in Deciding : Newest(e)
<1>1. p \in ClosingPulls(readable)
      <=> p \in {e.pull : e \in Deciding} /\ ends[p] # "closed" /\ newest.action = "closes"
  BY DEF ClosingPulls
<1>2. CASE says[p] # <<>>
  <2>1. \E e \in Deciding : Newest(e)
    BY <1>2, NewestExists
  <2>2. newest \in Deciding /\ Newest(newest)
    BY <2>1
  <2>3. Last(says[p]).action = newest.action
    BY <2>2, NewestIsLast
  <2> QED BY <1>1, <1>2, <2>2, <2>3
<1>3. CASE says[p] = <<>>
  <2>1. p \notin {e.pull : e \in Deciding}
    <3> SUFFICES ASSUME NEW e \in Deciding, e.pull = p PROVE FALSE
      OBVIOUS
    <3>1. PICK j \in DOMAIN events : events[j] = e /\ e.action \in {"closes", "reopens"}
      BY DEF Deciding
    <3>2. \E i \in DOMAIN says[p] : TRUE
      BY <3>1 DEF ReferInv, Mirrors
    <3> QED BY <3>2, <1>3
  <2> QED BY <1>1, <1>3, <2>1
<1> QED BY <1>2, <1>3

(* The pull requests shown as closing an issue are the open or merged      *)
(* ones whose text says so last, whatever was written and taken back       *)
(* before.  (threads.rs closing_pulls, reads.rs closedByPullRequests.)     *)
THEOREM ClosesWhatItShows == ThreadSpec => []ClosesOnMerge
<1>1. ThreadInit => ReferInv
  BY ReferStart
<1>2. ReferInv /\ [ThreadNext]_threadVars => ReferInv'
  BY ReferStep
<1>3. ReferInv => ClosesOnMerge
  BY ReferProp
<1> QED BY <1>1, <1>2, <1>3, PTL DEF ThreadSpec

(***************************************************************************)
(* The conversations                                                       *)
(***************************************************************************)

(* The types of a comment and of a review.                                 *)
PostType ==
    [id : Nat, review : Nat, user : People, place : Places, line : {-1, 1}, resolver : People \cup {Nobody}]
ReviewType == [id : Nat, user : People, state : {"PENDING", "COMMENT", "REQUEST_REVIEW"}]

(* The comments on one line of a review, and their ids.                    *)
Class(k) == {c \in posts : ThreadKey(c) = k}
Ids(k) == {c.id : c \in Class(k)}
Keys == {ThreadKey(c) : c \in posts}

TalkShape == talks = [all |-> talks.all, resolved |-> talks.resolved]
Talked ==
    /\ TalkShape /\ last \in Nat /\ posts \subseteq PostType /\ IsFiniteSet(posts)
    /\ Len(given) \in Nat /\ DOMAIN given = 1..Len(given)
    /\ \A i \in DOMAIN given : given[i] \in ReviewType

(* Ids differ, and each comment is in a review.                            *)
Posted ==
    /\ \A c, d \in posts : c.id = d.id => c = d
    /\ \A c \in posts : c.id < last
    /\ \A i, j \in DOMAIN given : given[i].id = given[j].id => i = j
    /\ \A i \in DOMAIN given : given[i].id < last
    /\ \A c \in posts : \E i \in DOMAIN given : given[i].id = c.review /\ given[i].state # "REQUEST_REVIEW"

(* A conversation is a class of comments; its first notes who resolved it. *)
Held ==
    /\ talks.all = {Ids(k) : k \in Keys}
    /\ talks.resolved \subseteq talks.all
    /\ \A c \in posts : c.resolver # Nobody => \A d \in Class(ThreadKey(c)) : c.id <= d.id
    /\ \A k \in Keys : Ids(k) \in talks.resolved <=> \E c \in Class(k) : c.resolver # Nobody
TalkInv == Talked /\ Posted /\ Held

(* A finite set can be put in order: its least element, then the rest.     *)
LEMMA OrderExists ==
    ASSUME NEW U, NEW key \in [U -> Nat], \A x, y \in U : key[x] = key[y] => x = y,
           NEW S \in SUBSET U, IsFiniteSet(S)
    PROVE  \E s \in [1..Cardinality(S) -> S] :
              \A i, j \in 1..Cardinality(S) : i < j => key[s[i]] < key[s[j]]
<1> DEFINE Rises(s, n) == \A i, j \in 1..n : i < j => key[s[i]] < key[s[j]]
           Bad == {n \in Nat : \E T \in SUBSET U :
                      /\ IsFiniteSet(T) /\ Cardinality(T) = n
                      /\ ~ \E s \in [1..n -> T] : Rises(s, n)}
<1>1. ASSUME Bad # {} PROVE FALSE
  <2>1. PICK n \in Bad : \A m \in Bad : n <= m
    BY <1>1, LeastOf
  <2>2. PICK T \in SUBSET U : /\ IsFiniteSet(T) /\ Cardinality(T) = n
                              /\ ~ \E s \in [1..n -> T] : Rises(s, n)
    OBVIOUS
  <2>3. n \in Nat
    OBVIOUS
  <2>4. CASE n = 0
    <3>1. [i \in 1..0 |-> i] \in [1..0 -> T] /\ Rises([i \in 1..0 |-> i], 0)
      OBVIOUS
    <3> QED BY <3>1, <2>2, <2>4
  <2>5. CASE n # 0
    <3>1. T # {}
      BY <2>2, <2>5, FS_EmptySet
    <3>2. {key[x] : x \in T} \in SUBSET Nat /\ {key[x] : x \in T} # {}
      BY <3>1
    <3>3. PICK x \in T : \A y \in T : key[x] <= key[y]
      <4>1. PICK m \in {key[x] : x \in T} : \A l \in {key[x] : x \in T} : m <= l
        BY <3>2, LeastOf
      <4>2. PICK x \in T : m = key[x]
        OBVIOUS
      <4> QED BY <4>1, <4>2
    <3>4. IsFiniteSet(T \ {x}) /\ Cardinality(T \ {x}) = n - 1 /\ n - 1 \in Nat
      BY <2>2, <2>3, <2>5, FS_RemoveElement
    <3>5. n - 1 \notin Bad
      BY <2>1, <2>3
    <3>6. PICK r \in [1..(n - 1) -> T \ {x}] : Rises(r, n - 1)
      BY <3>4, <3>5
    <3> DEFINE s == [i \in 1..n |-> IF i = 1 THEN x ELSE r[i - 1]]
    <3>7. \A i \in 1..n : i # 1 => i - 1 \in 1..(n - 1)
      BY <2>3
    <3>8. s \in [1..n -> T]
      BY <3>7
    <3>9. Rises(s, n)
      <4> SUFFICES ASSUME NEW i \in 1..n, NEW j \in 1..n, i < j PROVE key[s[i]] < key[s[j]]
        OBVIOUS
      <4>1. j # 1 /\ s[j] = r[j - 1] /\ r[j - 1] \in T \ {x}
        BY <3>7
      <4>2. CASE i = 1
        <5>1. s[i] = x /\ key[x] <= key[r[j - 1]] /\ key[x] # key[r[j - 1]]
          BY <4>1, <4>2, <3>3
        <5>2. key[x] \in Nat /\ key[r[j - 1]] \in Nat
          BY <4>1
        <5> QED BY <4>1, <5>1, <5>2
      <4>3. CASE i # 1
        <5>1. s[i] = r[i - 1] /\ i - 1 \in 1..(n - 1) /\ j - 1 \in 1..(n - 1) /\ i - 1 < j - 1
          BY <4>1, <4>3, <3>7
        <5> QED BY <4>1, <5>1, <3>6
      <4> QED BY <4>2, <4>3
    <3> QED BY <2>2, <3>8, <3>9
  <2> QED BY <2>4, <2>5
<1>2. Cardinality(S) \in Nat /\ Cardinality(S) \notin Bad
  BY <1>1, FS_CardinalityType
<1> QED BY <1>2

(* What a sequence in order is.                                            *)
(* So the CHOOSE of Ordered has a value, and it is the set in order.       *)
LEMMA OrderedIs ==
    ASSUME NEW S, IsFiniteSet(S), NEW key \in [S -> Nat], \A x, y \in S : key[x] = key[y] => x = y
    PROVE  /\ Ordered(S, key) \in Seq(S) /\ Len(Ordered(S, key)) = Cardinality(S)
           /\ Cardinality(S) \in Nat /\ DOMAIN Ordered(S, key) = 1..Cardinality(S)
           /\ \A i, j \in 1..Cardinality(S) : i < j => key[Ordered(S, key)[i]] < key[Ordered(S, key)[j]]
           /\ \A i \in 1..Cardinality(S) : Ordered(S, key)[i] \in S
           /\ \A x \in S : \E i \in 1..Cardinality(S) : Ordered(S, key)[i] = x
<1> DEFINE n == Cardinality(S)
           o == Ordered(S, key)
<1>1. n \in Nat
  BY FS_CardinalityType
<1>2. \E s \in [1..n -> S] : \A i, j \in 1..n : i < j => key[s[i]] < key[s[j]]
  BY OrderExists
<1>3. \E s \in [1..n -> S] : \A i, j \in DOMAIN s : i < j => key[s[i]] < key[s[j]]
  BY <1>2
<1>4. o \in [1..n -> S] /\ \A i, j \in DOMAIN o : i < j => key[o[i]] < key[o[j]]
  BY <1>3 DEF Ordered
<1> HIDE DEF o, n
<1>5. o \in Seq(S) /\ Len(o) = n /\ DOMAIN o = 1..n
  BY <1>1, <1>4
<1>6. \A i, j \in 1..n : o[i] = o[j] => i = j
  <2> SUFFICES ASSUME NEW i \in 1..n, NEW j \in 1..n, o[i] = o[j], i # j PROVE FALSE
    OBVIOUS
  <2>1. i < j \/ j < i
    OBVIOUS
  <2>2. key[o[i]] \in Nat
    BY <1>4
  <2> QED BY <2>1, <2>2, <1>4
<1>7. o \in Injection(1..n, S)
  BY <1>4, <1>6 DEF Injection, IsInjective
<1>8. IsFiniteSet(1..n) /\ Cardinality(1..n) = n
  BY <1>1, FS_Interval
<1>9. o \in Surjection(1..n, S)
  BY <1>7, <1>8, FS_Injection DEF n
<1>10. \A x \in S : \E i \in 1..n : o[i] = x
  BY <1>9 DEF Surjection
<1> QED BY <1>1, <1>4, <1>5, <1>10 DEF o, n

(* What tells the comments apart.                                          *)
(* A comment, taken apart.                                                 *)
LEMMA PostParts ==
    ASSUME TalkInv, NEW c \in posts
    PROVE  /\ c.id \in Nat /\ c.id < last /\ last \in Nat
           /\ c = [id |-> c.id, review |-> c.review, user |-> c.user, place |-> c.place, line |-> c.line,
                   resolver |-> c.resolver]
           /\ c \in PostType /\ c.line \in {-1, 1}
           /\ c \in Class(ThreadKey(c)) /\ c.id \in Ids(ThreadKey(c)) /\ ThreadKey(c) \in Keys
<1>1. c \in PostType
  BY DEF TalkInv, Talked
<1> QED BY <1>1 DEF TalkInv, Talked, Posted, PostType, Class, Ids, Keys

(* An id is of one line, as ids differ.                                    *)
LEMMA IdOfClass ==
    ASSUME TalkInv, NEW k, NEW c \in posts
    PROVE  c.id \in Ids(k) <=> ThreadKey(c) = k
BY DEF TalkInv, Posted, Ids, Class

(* And a set of ids is of one line.                                        *)
LEMMA ClassOfIds ==
    ASSUME TalkInv, NEW j \in Keys, NEW k, Ids(j) = Ids(k)
    PROVE  j = k
<1>1. PICK c \in posts : ThreadKey(c) = j
  BY DEF Keys
<1> QED BY <1>1, IdOfClass

(* A conversation is of one line, has a comment and no id to come.         *)
LEMMA IdsOld ==
    ASSUME TalkInv, NEW t \in talks.all
    PROVE  last \notin t /\ t \in SUBSET Nat /\ t # {} /\ \E k \in Keys : t = Ids(k)
<1>1. PICK k \in Keys : t = Ids(k)
  BY DEF TalkInv, Held
<1>2. PICK c \in posts : ThreadKey(c) = k
  BY DEF Keys
<1>3. c.id \in t
  BY <1>1, <1>2, IdOfClass
<1>4. \A d \in posts : d.id \in Nat /\ d.id < last /\ last \in Nat
  BY PostParts
<1>5. \A i \in t : \E d \in posts : i = d.id
  BY <1>1 DEF Ids, Class
<1>6. \A i \in t : i \in Nat /\ i < last
  BY <1>4, <1>5
<1> QED BY <1>1, <1>3, <1>4, <1>6

(* Before anyone wrote anything nobody talks.                              *)
LEMMA TalkStart == ThreadInit => TalkInv
<1> SUFFICES ASSUME ThreadInit PROVE TalkInv
  OBVIOUS
<1>1. posts = {} /\ given = <<>> /\ last = 0 /\ talks.all = {} /\ talks.resolved = {}
  BY DEF ThreadInit
<1>2. Keys = {}
  BY <1>1 DEF Keys
<1>3. Talked
  BY <1>1, FS_EmptySet DEF Talked, TalkShape, ThreadInit
<1>4. Posted
  BY <1>1 DEF Posted
<1>5. Held
  BY <1>1, <1>2 DEF Held
<1> QED BY <1>3, <1>4, <1>5 DEF TalkInv

(* What the rest of the steps leave.                                       *)
(* What leaves posts, reviews and talks alone leaves the rest in place.    *)
LEMMA TalkFrame ==
    ASSUME TalkInv, UNCHANGED <<posts, talks>>, last' \in Nat, last' >= last,
           Len(given') \in Nat, DOMAIN given' = 1..Len(given'), \A i \in DOMAIN given' : given'[i] \in ReviewType,
           \A i, j \in DOMAIN given' : given'[i].id = given'[j].id => i = j,
           \A i \in DOMAIN given' : given'[i].id < last',
           \A i \in DOMAIN given : i \in DOMAIN given' /\ given'[i].id = given[i].id
              /\ (given[i].state # "REQUEST_REVIEW" => given'[i].state # "REQUEST_REVIEW")
    PROVE  TalkInv'
<1>1. Talked'
  BY DEF TalkInv, Talked, TalkShape
<1>2. \A c \in posts : c.id < last'
  BY PostParts
<1>3. Posted'
  BY <1>2 DEF TalkInv, Posted
<1>4. Keys' = Keys /\ \A k : Class(k)' = Class(k) /\ Ids(k)' = Ids(k)
  BY DEF Keys, Class, Ids
<1>5. Held'
  BY <1>4 DEF TalkInv, Held
<1> QED BY <1>1, <1>3, <1>5 DEF TalkInv

(* A remark joins the conversation on its line or begins it.               *)
LEMMA RemarkKept ==
    ASSUME TalkInv, NEW i \in DOMAIN given, NEW place \in Places, NEW line \in {-1, 1}, Remark(i, place, line)
    PROVE  TalkInv'
<1>a. PICK c : c = [id |-> last, review |-> given[i].id, user |-> given[i].user, place |-> place,
                    line |-> line, resolver |-> Nobody]
  OBVIOUS
<1>b. PICK spot : spot = <<given[i].id, place, line>>
  OBVIOUS
<1>1. /\ last \in Nat /\ last' = last + 1 /\ given' = given /\ given[i].state # "REQUEST_REVIEW"
      /\ posts' = posts \cup {c} /\ talks' = [talks EXCEPT !.all = @ \cup {{last}}]
      /\ {t \in talks.all : \E o \in posts : o.id \in t /\ o.review = c.review /\ o.place = place
                                                    /\ o.line = line} = {}
  BY <1>a DEF Remark, Posting, TalkInv, Talked
<1>2. c \in PostType /\ c.id = last /\ c.resolver = Nobody /\ c.review = given[i].id /\ ThreadKey(c) = spot
  BY <1>1, <1>a, <1>b DEF TalkInv, Talked, PostType, ReviewType, ThreadKey
<1>3. spot \notin Keys
  <2> SUFFICES ASSUME NEW o \in posts, ThreadKey(o) = spot PROVE FALSE
    BY DEF Keys
  <2>1. o.review = given[i].id /\ o.place = place /\ o.line = line
    BY <1>b DEF ThreadKey
  <2>2. Ids(spot) \in talks.all /\ o.id \in Ids(spot)
    BY PostParts DEF TalkInv, Held
  <2> QED BY <2>1, <2>2, <1>1, <1>2
<1>4. \A d \in posts : d.id < last /\ d.id \in Nat /\ ThreadKey(d) \in Keys
  BY PostParts
<1>5. /\ Keys' = Keys \cup {spot}
      /\ \A k : k # spot => Class(k)' = Class(k) /\ Ids(k)' = Ids(k)
      /\ Class(spot)' = {c} /\ Ids(spot)' = {last}
  <2>1. Keys' = Keys \cup {spot}
    BY <1>1, <1>2 DEF Keys, ThreadKey
  <2>2. \A k : Class(k)' = Class(k) \cup {d \in {c} : ThreadKey(d) = k}
    BY <1>1 DEF Class, ThreadKey
  <2>3. Class(spot) = {}
    BY <1>3 DEF Class, Keys
  <2>4. \A k : k # spot => Class(k)' = Class(k)
    BY <2>2, <1>2
  <2>5. Class(spot)' = {c}
    <3>1. Class(spot)' = Class(spot) \cup {d \in {c} : ThreadKey(d) = spot}
      BY <2>2
    <3> QED BY <3>1, <2>3, <1>2
  <2> QED BY <2>1, <2>4, <2>5, <1>2 DEF Ids
<1>6. /\ talks'.all = talks.all \cup {{last}} /\ talks'.resolved = talks.resolved
      /\ talks' = [all |-> talks.all \cup {{last}}, resolved |-> talks.resolved]
  BY <1>1 DEF TalkInv, Talked, TalkShape
<1>7. Talked'
  <2>1. IsFiniteSet(posts')
    BY <1>1, FS_AddElement DEF TalkInv, Talked
  <2>2. TalkShape'
    BY <1>6 DEF TalkShape
  <2> QED BY <2>1, <2>2, <1>1, <1>2 DEF TalkInv, Talked
<1>8. Posted'
  <2>1. \A x, d \in posts' : x.id = d.id => x = d
    BY <1>1, <1>2, <1>4 DEF TalkInv, Posted
  <2>2. \A d \in posts' : d.id < last'
    BY <1>1, <1>2, <1>4
  <2>3. \A j \in DOMAIN given : given[j].id < last'
    BY <1>1 DEF TalkInv, Talked, Posted, ReviewType
  <2>4. \A d \in posts' : \E j \in DOMAIN given : given[j].id = d.review /\ given[j].state # "REQUEST_REVIEW"
    BY <1>1, <1>2 DEF TalkInv, Posted
  <2> QED BY <2>1, <2>2, <2>3, <2>4, <1>1 DEF TalkInv, Posted
<1>9. Held'
  <2>1. talks'.all = {Ids(k)' : k \in Keys'}
    <3>1. talks.all = {Ids(k) : k \in Keys}
      BY DEF TalkInv, Held
    <3>2. {Ids(k)' : k \in Keys'} = {Ids(k)' : k \in Keys} \cup {Ids(spot)'}
      BY <1>5
    <3>3. \A k \in Keys : Ids(k)' = Ids(k)
      BY <1>3, <1>5
    <3> QED BY <3>1, <3>2, <3>3, <1>5, <1>6
  <2>2. talks'.resolved \subseteq talks'.all
    BY <1>6 DEF TalkInv, Held
  <2>3. ASSUME NEW d \in posts', d.resolver # Nobody PROVE \A e \in Class(ThreadKey(d))' : d.id <= e.id
    <3>1. d \in posts
      BY <2>3, <1>1, <1>2
    <3>2. ThreadKey(d) # spot
      BY <3>1, <1>3, <1>4
    <3> QED BY <3>1, <3>2, <2>3, <1>5 DEF TalkInv, Held
  <2>4. ASSUME NEW k \in Keys' PROVE Ids(k)' \in talks'.resolved <=> \E d \in Class(k)' : d.resolver # Nobody
    <3>1. CASE k = spot
      <4>1. {last} \notin talks.all
        BY IdsOld
      <4>2. Ids(spot)' \notin talks'.resolved
        BY <4>1, <1>5, <1>6 DEF TalkInv, Held
      <4>3. ~ \E d \in Class(spot)' : d.resolver # Nobody
        BY <1>2, <1>5
      <4> QED BY <3>1, <4>2, <4>3
    <3>2. CASE k # spot
      BY <3>2, <1>5, <1>6 DEF TalkInv, Held
    <3> QED BY <3>1, <3>2
  <2>5. \A d \in posts' : ThreadKey(d)' = ThreadKey(d)
    BY DEF ThreadKey
  <2> QED BY <2>1, <2>2, <2>3, <2>4, <2>5 DEF Held
<1> QED BY <1>7, <1>8, <1>9 DEF TalkInv

(* The conversation of a comment is its class.                             *)
(* A comment is in one conversation, that of its line.                     *)
LEMMA TalkOf ==
    ASSUME TalkInv, NEW c \in posts
    PROVE  (CHOOSE t \in talks.all : c.id \in t) = Ids(ThreadKey(c))
<1>1. Ids(ThreadKey(c)) \in talks.all /\ c.id \in Ids(ThreadKey(c))
  BY PostParts DEF TalkInv, Held
<1>2. ASSUME NEW t \in talks.all, c.id \in t PROVE t = Ids(ThreadKey(c))
  <2>1. PICK k \in Keys : t = Ids(k)
    BY IdsOld
  <2> QED BY <2>1, <1>2, IdOfClass
<1> QED BY <1>1, <1>2

(* A reply joins the conversation of what it answers.                      *)
LEMMA ReplyKept ==
    ASSUME TalkInv, NEW u \in People, NEW c \in posts, Reply(u, c)
    PROVE  TalkInv'
<1>a. PICK talk : talk = Ids(ThreadKey(c))
  OBVIOUS
<1>b. PICK d : d = [c EXCEPT !.id = last, !.user = u, !.resolver = Nobody]
  OBVIOUS
<1>c. PICK spot : spot = ThreadKey(c)
  OBVIOUS
<1> DEFINE grown(t) == IF t = talk THEN t \cup {last} ELSE t
<1>1. /\ last \in Nat /\ last' = last + 1 /\ given' = given
      /\ posts' = posts \cup {d}
      /\ talks' = [all |-> {grown(t) : t \in talks.all}, resolved |-> {grown(t) : t \in talks.resolved}]
  <2>1. (CHOOSE t \in talks.all : c.id \in t) = talk
    BY <1>a, TalkOf
  <2> QED BY <2>1, <1>b DEF Reply, Posting, TalkInv, Talked
<1>2. /\ d \in PostType /\ d.id = last /\ d.resolver = Nobody /\ d.review = c.review /\ ThreadKey(d) = spot
      /\ ThreadKey(c) = spot /\ spot \in Keys /\ talk = Ids(spot)
  <2>1. c \in PostType /\ ThreadKey(c) \in Keys
    BY PostParts
  <2>2. last \in Nat
    BY <1>1
  <2> QED BY <2>1, <2>2, <1>a, <1>b, <1>c DEF PostType, ThreadKey
<1>3. \A e \in posts : e.id < last /\ e.id \in Nat /\ ThreadKey(e) \in Keys
  BY PostParts
<1>4. /\ Keys' = Keys
      /\ \A k : k # spot => Class(k)' = Class(k) /\ Ids(k)' = Ids(k)
      /\ Class(spot)' = Class(spot) \cup {d} /\ Ids(spot)' = Ids(spot) \cup {last}
  <2>1. Keys' = Keys
    BY <1>1, <1>2 DEF Keys, ThreadKey
  <2>2. \A k : Class(k)' = Class(k) \cup {e \in {d} : ThreadKey(e) = k}
    BY <1>1 DEF Class, ThreadKey
  <2>3. \A k : k # spot => Class(k)' = Class(k)
    BY <2>2, <1>2
  <2>4. Class(spot)' = Class(spot) \cup {d}
    <3>1. Class(spot)' = Class(spot) \cup {e \in {d} : ThreadKey(e) = spot}
      BY <2>2
    <3> QED BY <3>1, <1>2
  <2> QED BY <2>1, <2>3, <2>4, <1>2 DEF Ids
<1>5. \A k \in Keys : Ids(k)' = grown(Ids(k))
  <2> TAKE k \in Keys
  <2>1. k # spot => Ids(k) # talk
    BY <1>2, ClassOfIds
  <2> QED BY <2>1, <1>2, <1>4
<1>6. \A s, t \in talks.all : grown(s) = grown(t) => s = t
  <2>1. \A t \in talks.all : grown(t) \ {last} = t
    BY IdsOld
  <2> HIDE DEF grown
  <2> QED BY <2>1
<1> HIDE DEF grown
<1>7. /\ talks'.all = {grown(t) : t \in talks.all} /\ talks'.resolved = {grown(t) : t \in talks.resolved}
      /\ talks' = [all |-> talks'.all, resolved |-> talks'.resolved]
  BY <1>1
<1>8. Talked'
  <2>1. IsFiniteSet(posts')
    BY <1>1, FS_AddElement DEF TalkInv, Talked
  <2>2. TalkShape'
    BY <1>7 DEF TalkShape
  <2> QED BY <2>1, <2>2, <1>1, <1>2 DEF TalkInv, Talked
<1>9. Posted'
  <2>1. \A x, e \in posts' : x.id = e.id => x = e
    BY <1>1, <1>2, <1>3 DEF TalkInv, Posted
  <2>2. \A e \in posts' : e.id < last'
    BY <1>1, <1>2, <1>3
  <2>3. \A j \in DOMAIN given : given[j].id < last'
    BY <1>1 DEF TalkInv, Talked, Posted, ReviewType
  <2>4. \A e \in posts' : \E j \in DOMAIN given : given[j].id = e.review /\ given[j].state # "REQUEST_REVIEW"
    BY <1>1, <1>2 DEF TalkInv, Posted
  <2> QED BY <2>1, <2>2, <2>3, <2>4, <1>1 DEF TalkInv, Posted
<1>10. Held'
  <2>0. /\ talks.all = {Ids(k) : k \in Keys} /\ talks.resolved \subseteq talks.all
        /\ \A k \in Keys : Ids(k) \in talks.resolved <=> \E e \in Class(k) : e.resolver # Nobody
    BY DEF TalkInv, Held
  <2>1. talks'.all = {Ids(k)' : k \in Keys'}
    <3>1. talks'.all = {grown(Ids(k)) : k \in Keys}
      BY <2>0, <1>7
    <3> QED BY <3>1, <1>4, <1>5
  <2>2. talks'.resolved \subseteq talks'.all
    BY <2>0, <1>7
  <2>3. ASSUME NEW e \in posts', e.resolver # Nobody PROVE \A x \in Class(ThreadKey(e))' : e.id <= x.id
    <3>1. e \in posts
      BY <2>3, <1>1, <1>2
    <3>2. \A x \in Class(ThreadKey(e)) : e.id <= x.id
      BY <3>1, <2>3 DEF TalkInv, Held
    <3>3. e.id <= d.id
      BY <3>1, <1>2, <1>3, <1>1
    <3>4. CASE ThreadKey(e) = spot
      <4> SUFFICES ASSUME NEW x \in Class(ThreadKey(e))' PROVE e.id <= x.id
        OBVIOUS
      <4>1. x \in Class(spot)'
        BY <3>4 DEF Class
      <4>2. x \in Class(spot) \/ x = d
        BY <4>1, <1>4
      <4> QED BY <4>2, <3>2, <3>3, <3>4
    <3>5. CASE ThreadKey(e) # spot
      BY <3>2, <3>5, <1>4
    <3> QED BY <3>4, <3>5
  <2>4. ASSUME NEW k \in Keys' PROVE Ids(k)' \in talks'.resolved <=> \E e \in Class(k)' : e.resolver # Nobody
    <3>0. k \in Keys /\ Ids(k) \in talks.all
      BY <2>0, <1>4
    <3>1. Ids(k)' \in talks'.resolved <=> Ids(k) \in talks.resolved
      <4>1. Ids(k)' = grown(Ids(k))
        BY <3>0, <1>5
      <4> QED BY <4>1, <3>0, <2>0, <1>6, <1>7
    <3>2. (\E e \in Class(k)' : e.resolver # Nobody) <=> (\E e \in Class(k) : e.resolver # Nobody)
      <4>1. Class(k)' = Class(k) \/ Class(k)' = Class(k) \cup {d}
        BY <1>4
      <4> QED BY <4>1, <1>2
    <3> QED BY <3>0, <3>1, <3>2, <2>0
  <2>5. \A e \in posts' : ThreadKey(e)' = ThreadKey(e)
    BY DEF ThreadKey
  <2> QED BY <2>1, <2>2, <2>3, <2>4, <2>5 DEF Held
<1> QED BY <1>8, <1>9, <1>10 DEF TalkInv

(* The first comment of a conversation.                                    *)
(* A conversation has one first comment.                                   *)
LEMMA RootOf ==
    ASSUME TalkInv, NEW t \in talks.all, NEW k \in Keys, t = Ids(k),
           NEW root, root = CHOOSE c \in posts : c.id \in t /\ \A i \in t : c.id <= i
    PROVE  root \in Class(k) /\ root \in posts /\ \A c \in Class(k) : root.id <= c.id
<1>1. t \in SUBSET Nat /\ t # {}
  BY IdsOld
<1>2. PICK i \in t : \A j \in t : i <= j
  BY <1>1, LeastOf
<1>3. PICK c \in Class(k) : c.id = i
  BY DEF Ids
<1>4. c \in posts
  BY DEF Class
<1>5. root \in posts /\ root.id \in t /\ \A j \in t : root.id <= j
  BY <1>2, <1>3, <1>4
<1>6. ThreadKey(root) = k
  BY <1>5, IdOfClass
<1> QED BY <1>5, <1>6 DEF Class, Ids

(* Resolving marks the first comment of one conversation only.             *)
LEMMA ResolveKept ==
    ASSUME TalkInv, ThreadsAssumption, NEW t \in talks.all, NEW u \in People, Resolve(t, u)
    PROVE  TalkInv'
<1>a. PICK root : root = CHOOSE c \in posts : c.id \in t /\ \A i \in t : c.id <= i
  OBVIOUS
<1>b. PICK who : who = IF t \in talks.resolved THEN Nobody ELSE u
  OBVIOUS
<1>c. PICK noted : noted = [root EXCEPT !.resolver = who]
  OBVIOUS
<1>d. PICK spot \in Keys : t = Ids(spot)
  BY IdsOld
<1>1. /\ talks' = [talks EXCEPT !.resolved = IF t \in @ THEN @ \ {t} ELSE @ \union {t}]
      /\ posts' = (posts \ {root}) \cup {noted} /\ given' = given /\ last' = last
  BY <1>a, <1>b, <1>c DEF Resolve
<1>2. root \in Class(spot) /\ root \in posts /\ \A c \in Class(spot) : root.id <= c.id
  BY <1>a, <1>d, RootOf
<1>3. /\ noted \in PostType /\ noted.id = root.id /\ noted.resolver = who /\ noted.review = root.review
      /\ ThreadKey(noted) = spot /\ ThreadKey(root) = spot
  <2>1. root \in PostType /\ ThreadKey(root) = spot
    BY <1>2, PostParts DEF Class
  <2> QED BY <2>1, <1>b, <1>c DEF PostType, ThreadKey
<1>4. who = Nobody <=> t \in talks.resolved
  BY <1>b DEF ThreadsAssumption
<1>5. /\ talks'.all = talks.all
      /\ talks'.resolved = IF t \in talks.resolved THEN talks.resolved \ {t} ELSE talks.resolved \cup {t}
      /\ talks' = [all |-> talks'.all, resolved |-> talks'.resolved]
  BY <1>1 DEF TalkInv, Talked, TalkShape
<1>6. \A c \in posts : c.id = root.id => c = root
  BY <1>2 DEF TalkInv, Posted
<1>7. /\ \A k : k # spot => Class(k)' = Class(k) /\ Ids(k)' = Ids(k)
      /\ Class(spot)' = (Class(spot) \ {root}) \cup {noted} /\ Ids(spot)' = Ids(spot) /\ Keys' = Keys
  <2>1. \A k : Class(k)' = (Class(k) \ {root}) \cup {e \in {noted} : ThreadKey(e) = k}
    BY <1>1 DEF Class, ThreadKey
  <2>2. \A k : k # spot => Class(k)' = Class(k)
    BY <2>1, <1>3 DEF Class
  <2>3. Class(spot)' = (Class(spot) \ {root}) \cup {noted}
    <3>1. Class(spot)' = (Class(spot) \ {root}) \cup {e \in {noted} : ThreadKey(e) = spot}
      BY <2>1
    <3> QED BY <3>1, <1>3
  <2>4. Ids(spot)' = Ids(spot)
    BY <2>3, <1>2, <1>3 DEF Ids
  <2>5. Keys' = Keys
    <3>1. Keys' = {ThreadKey(c) : c \in posts'}
      BY DEF Keys, ThreadKey
    <3> QED BY <3>1, <1>1, <1>2, <1>3 DEF Keys
  <2> QED BY <2>2, <2>3, <2>4, <2>5 DEF Ids
<1>8. Talked'
  <2>1. IsFiniteSet(posts')
    <3>1. IsFiniteSet(posts \ {root})
      BY FS_RemoveElement DEF TalkInv, Talked
    <3> QED BY <3>1, <1>1, FS_AddElement
  <2>2. TalkShape'
    BY <1>5 DEF TalkShape
  <2> QED BY <2>1, <2>2, <1>1, <1>3 DEF TalkInv, Talked
<1>9. Posted'
  <2>1. \A x, e \in posts' : x.id = e.id => x = e
    BY <1>1, <1>3, <1>6 DEF TalkInv, Posted
  <2>2. \A e \in posts' : e.id < last'
    BY <1>1, <1>2, <1>3 DEF TalkInv, Posted
  <2>3. \A e \in posts' : \E j \in DOMAIN given : given[j].id = e.review /\ given[j].state # "REQUEST_REVIEW"
    BY <1>1, <1>2, <1>3 DEF TalkInv, Posted
  <2> QED BY <2>1, <2>2, <2>3, <1>1 DEF TalkInv, Posted
<1>10. Held'
  <2>0. /\ talks.all = {Ids(k) : k \in Keys} /\ talks.resolved \subseteq talks.all
        /\ \A k \in Keys : Ids(k) \in talks.resolved <=> \E e \in Class(k) : e.resolver # Nobody
    BY DEF TalkInv, Held
  <2>1. talks'.all = {Ids(k)' : k \in Keys'}
    <3>1. \A k \in Keys : Ids(k)' = Ids(k)
      BY <1>7
    <3> QED BY <3>1, <2>0, <1>5, <1>7
  <2>2. talks'.resolved \subseteq talks'.all
    BY <2>0, <1>5
  <2>3. \A c \in Class(spot) : c # root => c.resolver = Nobody
    <3> SUFFICES ASSUME NEW c \in Class(spot), c # root, c.resolver # Nobody PROVE FALSE
      OBVIOUS
    <3>1. c \in posts /\ ThreadKey(c) = spot
      BY DEF Class
    <3>2. c.id <= root.id /\ root.id <= c.id /\ c.id \in Nat /\ root.id \in Nat
      BY <3>1, <1>2, PostParts DEF TalkInv, Held
    <3> QED BY <3>1, <3>2, <1>6
  <2>4. ASSUME NEW e \in posts', e.resolver # Nobody PROVE \A x \in Class(ThreadKey(e))' : e.id <= x.id
    <3>1. CASE e = noted
      <4> SUFFICES ASSUME NEW x \in Class(ThreadKey(e))' PROVE e.id <= x.id
        OBVIOUS
      <4>1. x \in Class(spot)'
        BY <3>1, <1>3 DEF Class, ThreadKey
      <4>2. x = noted \/ x \in Class(spot)
        BY <4>1, <1>7
      <4>3. root.id \in Nat
        BY <1>2, PostParts
      <4> QED BY <4>2, <4>3, <3>1, <1>2, <1>3
    <3>2. CASE e # noted
      <4>1. e \in posts /\ e # root
        BY <3>2, <1>1
      <4>2. ThreadKey(e) # spot
        BY <4>1, <2>3, <2>4 DEF Class
      <4>3. \A x \in Class(ThreadKey(e)) : e.id <= x.id
        BY <4>1, <2>4 DEF TalkInv, Held
      <4> QED BY <4>2, <4>3, <1>7
    <3> QED BY <3>1, <3>2
  <2>5. ASSUME NEW k \in Keys' PROVE Ids(k)' \in talks'.resolved <=> \E e \in Class(k)' : e.resolver # Nobody
    <3>1. CASE k = spot
      <4>1. Ids(spot)' \in talks'.resolved <=> t \notin talks.resolved
        BY <1>d, <1>5, <1>7
      <4>2. (\E e \in Class(spot)' : e.resolver # Nobody) <=> who # Nobody
        BY <2>3, <1>3, <1>7
      <4> QED BY <3>1, <4>1, <4>2, <1>4
    <3>2. CASE k # spot
      <4>1. k \in Keys /\ Ids(k) # t
        BY <3>2, <1>7, <1>d, ClassOfIds
      <4>2. Ids(k)' \in talks'.resolved <=> Ids(k) \in talks.resolved
        BY <4>1, <3>2, <1>5, <1>7
      <4> QED BY <4>1, <4>2, <3>2, <2>0, <1>7
    <3> QED BY <3>1, <3>2
  <2>6. \A e \in posts' : ThreadKey(e)' = ThreadKey(e)
    BY DEF ThreadKey
  <2> QED BY <2>1, <2>2, <2>4, <2>5, <2>6 DEF Held
<1> QED BY <1>8, <1>9, <1>10 DEF TalkInv

(* Every step keeps the comments in the conversations they are in.         *)
LEMMA TalkStep == TalkInv /\ [ThreadNext]_threadVars => TalkInv'
<1> SUFFICES ASSUME TalkInv, [ThreadNext]_threadVars PROVE TalkInv'
  OBVIOUS
<1>0. /\ last \in Nat /\ Len(given) \in Nat /\ DOMAIN given = 1..Len(given)
      /\ \A i \in DOMAIN given : given[i] \in ReviewType /\ given[i].id < last /\ given[i].id \in Nat
      /\ \A i, j \in DOMAIN given : given[i].id = given[j].id => i = j
  BY DEF TalkInv, Talked, Posted, ReviewType
<1>1. ASSUME UNCHANGED <<posts, talks, given>>, last' \in {last, last + 1} PROVE TalkInv'
  <2>1. last' \in Nat /\ last' >= last /\ \A i \in DOMAIN given : given[i].id < last'
    BY <1>0, <1>1
  <2> QED BY <2>1, <1>0, <1>1, TalkFrame
<1>2. ASSUME NEW u \in People, NEW state \in {"PENDING", "COMMENT", "REQUEST_REVIEW"}, GiveReview(u, state)
      PROVE  TalkInv'
  <2>1. PICK r : r = [id |-> last, user |-> u, state |-> state]
    OBVIOUS
  <2>2. given' = Append(given, r) /\ last' = last + 1 /\ UNCHANGED <<posts, talks>>
    BY <1>2, <2>1 DEF GiveReview, Posting
  <2>3. r \in ReviewType /\ r.id = last
    BY <2>1, <1>0 DEF ReviewType
  <2>4. /\ Len(given') = Len(given) + 1 /\ DOMAIN given' = 1..(Len(given) + 1)
        /\ \A i \in 1..Len(given) : given'[i] = given[i]
        /\ given'[Len(given) + 1] = r
    BY <2>2, <1>0 DEF TalkInv, Talked
  <2> QED BY <2>2, <2>3, <2>4, <1>0, TalkFrame
<1>3. ASSUME NEW i \in DOMAIN given, Submit(i) PROVE TalkInv'
  <2>1. given' = [given EXCEPT ![i].state = "COMMENT"] /\ last' = last /\ UNCHANGED <<posts, talks>>
    BY <1>3 DEF Submit
  <2>2. [given[i] EXCEPT !.state = "COMMENT"] \in ReviewType /\ [given[i] EXCEPT !.state = "COMMENT"].id = given[i].id
        /\ [given[i] EXCEPT !.state = "COMMENT"].state = "COMMENT"
    BY <1>0 DEF ReviewType
  <2>3. /\ DOMAIN given' = DOMAIN given /\ Len(given') = Len(given)
        /\ \A j \in DOMAIN given : given'[j] = IF j = i THEN [given[i] EXCEPT !.state = "COMMENT"] ELSE given[j]
    BY <2>1, <1>0
  <2>4. \A j \in DOMAIN given : given'[j] \in ReviewType /\ given'[j].id = given[j].id
                                /\ (given[j].state # "REQUEST_REVIEW" => given'[j].state # "REQUEST_REVIEW")
    BY <2>2, <2>3, <1>0
  <2> QED BY <2>1, <2>3, <2>4, <1>0, TalkFrame
<1>4. ASSUME NEW i \in DOMAIN given, NEW place \in Places, NEW line \in {-1, 1}, Remark(i, place, line) PROVE TalkInv'
  BY <1>4, RemarkKept
<1>5. ASSUME NEW u \in People, NEW c \in posts, Reply(u, c) PROVE TalkInv'
  BY <1>5, ReplyKept
<1>6. ASSUME NEW t \in talks.all, NEW u \in People, Resolve(t, u) PROVE TalkInv'
  BY <1>6, ThreadsAssumption, ResolveKept
<1>8. CASE Referring
  <2>1. UNCHANGED <<posts, talks, given>> /\ last' \in {last, last + 1}
    BY <1>8 DEF Referring, Say, Unsay, EndPull, Posting
  <2> QED BY <2>1, <1>0, <1>1
<1>9. CASE UNCHANGED threadVars
  BY <1>9, <1>0, <1>1 DEF threadVars
<1> QED BY <1>2, <1>3, <1>4, <1>5, <1>6, <1>8, <1>9 DEF ThreadNext, Talking

(* What a viewer sees of the reviews, and of the comments.                 *)
Shown(viewer) == {r.id : r \in {given[i] : i \in {i \in DOMAIN given : Listed(given[i], viewer)}}}
Seen(viewer, t) ==
    \E c \in posts, i \in DOMAIN given :
        /\ c.id \in t /\ given[i].id = c.review
        /\ given[i].state = "COMMENT" \/ given[i].user = viewer

(* A review is listed to a viewer if it is out or the viewer's own draft.  *)
LEMMA ShownIsSeen ==
    ASSUME TalkInv, NEW viewer, NEW c \in posts
    PROVE  c.review \in Shown(viewer)
           <=> \E i \in DOMAIN given : given[i].id = c.review
                                       /\ (given[i].state = "COMMENT" \/ given[i].user = viewer)
<1>1. PICK spot \in DOMAIN given : given[spot].id = c.review /\ given[spot].state # "REQUEST_REVIEW"
  BY DEF TalkInv, Posted
<1>2. \A i \in DOMAIN given : given[i].id = c.review => i = spot
  BY <1>1 DEF TalkInv, Posted
<1>3. given[spot].state \in {"PENDING", "COMMENT"}
  BY <1>1 DEF TalkInv, Talked, ReviewType
<1>4. Listed(given[spot], viewer) <=> given[spot].state = "COMMENT" \/ given[spot].user = viewer
  BY <1>1, <1>3 DEF Listed
<1>5. c.review \in Shown(viewer) <=> Listed(given[spot], viewer)
  BY <1>1, <1>2 DEF Shown
<1> QED BY <1>1, <1>2, <1>4, <1>5

(* The comments of a conversation, in order.                               *)
LEMMA ThreadIs ==
    ASSUME TalkInv, NEW k \in Keys, NEW t, t = ById(Class(k))
    PROVE  /\ t \in Seq(Class(k)) /\ Len(t) \in Nat /\ Len(t) >= 1 /\ DOMAIN t = 1..Len(t)
           /\ \A j \in DOMAIN t : t[j] \in Class(k)
           /\ \A c \in Class(k) : \E j \in DOMAIN t : t[j] = c
           /\ \A i, j \in DOMAIN t : i < j => t[i].id < t[j].id
           /\ {t[i].id : i \in DOMAIN t} = Ids(k)
<1> DEFINE key == [c \in Class(k) |-> c.id]
<1>1. IsFiniteSet(Class(k)) /\ Class(k) \subseteq posts
  BY FS_Subset DEF TalkInv, Talked, Class
<1>2. key \in [Class(k) -> Nat]
  BY <1>1, PostParts
<1>3. \A x, y \in Class(k) : key[x] = key[y] => x = y
  BY <1>1 DEF TalkInv, Posted
<1>4. t = Ordered(Class(k), key)
  BY DEF ById
<1> HIDE DEF key
<1>5. /\ t \in Seq(Class(k)) /\ Len(t) = Cardinality(Class(k))
      /\ Cardinality(Class(k)) \in Nat /\ DOMAIN t = 1..Cardinality(Class(k))
      /\ \A i, j \in 1..Cardinality(Class(k)) : i < j => key[t[i]] < key[t[j]]
      /\ \A i \in 1..Cardinality(Class(k)) : t[i] \in Class(k)
      /\ \A x \in Class(k) : \E i \in 1..Cardinality(Class(k)) : t[i] = x
  <2>1. IsFiniteSet(Class(k)) /\ key \in [Class(k) -> Nat] /\ \A x, y \in Class(k) : key[x] = key[y] => x = y
    BY <1>1, <1>2, <1>3
  <2> QED BY ONLY <2>1, <1>4, OrderedIs, SMTT(60)
<1>6. PICK c \in posts : ThreadKey(c) = k
  BY DEF Keys
<1>7. c \in Class(k)
  BY <1>6 DEF Class
<1>8. Len(t) >= 1
  BY <1>5, <1>7
<1>9. \A i, j \in DOMAIN t : i < j => t[i].id < t[j].id
  BY <1>5 DEF key
<1>10. {t[i].id : i \in DOMAIN t} = Ids(k)
  BY <1>5 DEF Ids
<1> QED BY <1>5, <1>8, <1>9, <1>10

(* So the threads made of the comments are the conversations.              *)
LEMMA TalkProp == TalkInv => ThreadsWhole
<1> SUFFICES ASSUME TalkInv, NEW viewer \in People
             PROVE  LET threads == ReviewThreads(viewer)
                        ids(t) == {t[i].id : i \in DOMAIN t}
                        seen(t) == \E c \in posts, i \in DOMAIN given :
                            /\ c.id \in t /\ given[i].id = c.review
                            /\ given[i].state = "COMMENT" \/ given[i].user = viewer
                    IN  /\ {ids(threads[i]) : i \in DOMAIN threads} = {t \in talks.all : seen(t)}
                        /\ Len(threads) = Cardinality({t \in talks.all : seen(t)})
                        /\ \A i \in DOMAIN threads :
                              /\ \A j \in 2..Len(threads[i]) : threads[i][j - 1].id < threads[i][j].id
                              /\ i > 1 => threads[i - 1][1].id < threads[i][1].id
                              /\ \A j \in DOMAIN threads[i] : DiffSide(threads[i]) = "left" <=> threads[i][j].line < 0
                              /\ Resolved(threads[i]) <=> ids(threads[i]) \in talks.resolved
  BY DEF ThreadsWhole
<1> DEFINE comments == {c \in posts : c.review \in Shown(viewer)}
           keys == {ThreadKey(c) : c \in comments}
           all == {ById(Class(k)) : k \in keys}
           first == [t \in all |-> t[1].id]
           threads == ReviewThreads(viewer)
           ids(t) == {t[i].id : i \in DOMAIN t}
<1>1. keys \subseteq Keys
  BY DEF Keys
<1>2. \A k \in keys : {c \in comments : ThreadKey(c) = k} = Class(k)
  BY DEF Class, ThreadKey
<1>3. threads = Ordered(all, first)
  <2>1. {ById({c \in comments : ThreadKey(c) = k}) : k \in keys} = all
    BY <1>2
  <2>2. threads = Ordered({ById({c \in comments : ThreadKey(c) = k}) : k \in keys},
                          [t \in {ById({c \in comments : ThreadKey(c) = k}) : k \in keys} |-> t[1].id])
    BY DEF ReviewThreads, Shown
  <2> QED BY <2>1, <2>2
<1>4. IsFiniteSet(all)
  <2>1. IsFiniteSet(comments)
    BY FS_Subset DEF TalkInv, Talked
  <2>2. IsFiniteSet(keys)
    <3>1. [c \in comments |-> ThreadKey(c)] \in Surjection(comments, keys)
      BY DEF Surjection
    <3> QED BY <2>1, <3>1, FS_Surjection
  <2>3. [k \in keys |-> ById(Class(k))] \in Surjection(keys, all)
    BY DEF Surjection
  <2> QED BY <2>2, <2>3, FS_Surjection
<1> HIDE DEF all, threads
<1>5. ASSUME NEW t \in all
      PROVE  \E k \in keys : /\ t = ById(Class(k)) /\ ids(t) = Ids(k) /\ 1 \in DOMAIN t /\ t[1] \in Class(k)
  <2>1. PICK k \in keys : t = ById(Class(k))
    BY DEF all
  <2> QED BY <2>1, <1>1, ThreadIs
<1>6. \A t \in all : t[1] \in posts /\ t[1].id \in Nat
  BY <1>5, PostParts DEF Class
<1>7. first \in [all -> Nat]
  BY <1>6
<1>8. \A s, t \in all : ids(s) = ids(t) => s = t
  BY <1>1, <1>5, ClassOfIds
<1>9. \A s, t \in all : first[s] = first[t] => s = t
  <2> SUFFICES ASSUME NEW s \in all, NEW t \in all, s[1].id = t[1].id PROVE s = t
    OBVIOUS
  <2>1. PICK j \in keys : s = ById(Class(j)) /\ s[1] \in Class(j)
    BY <1>5
  <2>2. PICK k \in keys : t = ById(Class(k)) /\ t[1] \in Class(k)
    BY <1>5
  <2>3. s[1] = t[1]
    BY <1>6 DEF TalkInv, Posted
  <2> QED BY <2>1, <2>2, <2>3 DEF Class
<1> HIDE DEF first
<1>10. /\ Len(threads) = Cardinality(all) /\ Cardinality(all) \in Nat /\ DOMAIN threads = 1..Cardinality(all)
       /\ \A i, j \in 1..Cardinality(all) : i < j => first[threads[i]] < first[threads[j]]
       /\ \A i \in 1..Cardinality(all) : threads[i] \in all
       /\ \A x \in all : \E i \in 1..Cardinality(all) : threads[i] = x
  BY <1>3, <1>4, <1>7, <1>9, OrderedIs
<1>11. {t \in talks.all : Seen(viewer, t)} = {Ids(k) : k \in keys}
  <2>1. ASSUME NEW k \in Keys PROVE Seen(viewer, Ids(k)) <=> k \in keys
    <3>1. \A c \in posts : c.id \in Ids(k) <=> ThreadKey(c) = k
      BY IdOfClass
    <3>2. \A c, d \in posts : ThreadKey(c) = ThreadKey(d) => c.review = d.review
      BY DEF ThreadKey
    <3>3. \A c \in posts : c.review \in Shown(viewer)
             <=> \E i \in DOMAIN given : given[i].id = c.review
                                         /\ (given[i].state = "COMMENT" \/ given[i].user = viewer)
      BY ShownIsSeen
    <3> QED BY <3>1, <3>2, <3>3 DEF Seen
  <2> QED BY <2>1, <1>1 DEF TalkInv, Held
<1>12. {ids(t) : t \in all} = {Ids(k) : k \in keys}
  <2>1. \A k \in keys : ids(ById(Class(k))) = Ids(k)
    BY <1>1, ThreadIs
  <2> QED BY <2>1 DEF all
<1>13. {ids(threads[i]) : i \in DOMAIN threads} = {t \in talks.all : Seen(viewer, t)}
  <2>1. {ids(threads[i]) : i \in DOMAIN threads} = {ids(t) : t \in all}
    BY <1>10
  <2> QED BY <2>1, <1>11, <1>12
<1>14. Len(threads) = Cardinality({t \in talks.all : Seen(viewer, t)})
  <2> DEFINE f == [t \in all |-> ids(t)]
             T == {ids(t) : t \in all}
  <2>1. f \in Bijection(all, T)
    BY <1>8 DEF Bijection, Injection, Surjection, IsInjective
  <2>2. Cardinality(T) = Cardinality(all)
    BY <2>1, <1>4, FS_Bijection DEF ExistsBijection
  <2> QED BY <2>2, <1>10, <1>11, <1>12
<1>15. ASSUME NEW i \in DOMAIN threads
       PROVE  /\ \A j \in 2..Len(threads[i]) : threads[i][j - 1].id < threads[i][j].id
              /\ i > 1 => threads[i - 1][1].id < threads[i][1].id
              /\ \A j \in DOMAIN threads[i] : DiffSide(threads[i]) = "left" <=> threads[i][j].line < 0
              /\ Resolved(threads[i]) <=> ids(threads[i]) \in talks.resolved
  <2>1. PICK t \in all : t = threads[i]
    BY <1>10
  <2>2. PICK k \in keys : t = ById(Class(k)) /\ ids(t) = Ids(k)
    BY <1>5
  <2>3. /\ Len(t) \in Nat /\ Len(t) >= 1 /\ DOMAIN t = 1..Len(t)
        /\ \A j \in DOMAIN t : t[j] \in Class(k)
        /\ \A c \in Class(k) : \E j \in DOMAIN t : t[j] = c
        /\ \A x, j \in DOMAIN t : x < j => t[x].id < t[j].id
    BY <2>2, <1>1, ThreadIs
  <2>4. \A j \in 2..Len(t) : t[j - 1].id < t[j].id
    <3> TAKE j \in 2..Len(t)
    <3>1. j - 1 \in DOMAIN t /\ j \in DOMAIN t /\ j - 1 < j
      BY <2>3
    <3> QED BY <3>1, <2>3
  <2>5. i > 1 => threads[i - 1][1].id < threads[i][1].id
    <3> HAVE i > 1
    <3>1. i - 1 \in 1..Cardinality(all) /\ i \in 1..Cardinality(all) /\ i - 1 < i
      BY <1>10
    <3>2. first[threads[i - 1]] < first[threads[i]] /\ threads[i - 1] \in all /\ threads[i] \in all
      BY <3>1, <1>10
    <3> QED BY <3>2 DEF first
  <2>6. \A c \in Class(k) : c.line \in {-1, 1} /\ c.line = t[1].line
    BY <2>3, PostParts DEF Class, ThreadKey
  <2>7. \A j \in DOMAIN t : DiffSide(t) = "left" <=> t[j].line < 0
    BY <2>3, <2>6 DEF DiffSide
  <2>8. Resolved(t) <=> ids(t) \in talks.resolved
    <3>1. Resolved(t) <=> \E c \in Class(k) : c.resolver # Nobody
      BY <2>3 DEF Resolved
    <3> QED BY <3>1, <2>2, <1>1 DEF TalkInv, Held
  <2> QED BY <2>1, <2>4, <2>5, <2>7, <2>8
<1> QED BY <1>13, <1>14, <1>15 DEF Seen, threads

(* Each conversation a viewer may see is shown as one thread, whole and in *)
(* order, resolved if it was resolved, whatever the order in which people  *)
(* remark, reply and resolve.  (threads.rs review_threads.)          *)
THEOREM TalksWholly == ThreadSpec => []ThreadsWhole
<1>1. ThreadInit => TalkInv
  BY TalkStart
<1>2. TalkInv /\ [ThreadNext]_threadVars => TalkInv'
  BY TalkStep
<1>3. TalkInv => ThreadsWhole
  BY TalkProp
<1> QED BY <1>1, <1>2, <1>3, PTL DEF ThreadSpec

(***************************************************************************)
(* The workflow of a run                                                   *)
(***************************************************************************)

(* The invariant: the host keeps its shape, and so do the runs that began. *)
RunType == [file : Files, commit : DOMAIN tree, status : Native \union {"new"}]
HostInv ==
    /\ Hosted
    /\ \A i \in DOMAIN began : began[i] \in RunType

(* The runs, taken apart.                                                  *)
LEMMA RunParts ==
    ASSUME Hosted
    PROVE  /\ Len(runs) \in Nat /\ DOMAIN runs = 1..Len(runs) /\ runs \in Seq(RunType)
           /\ \A i \in DOMAIN runs : runs[i] \in RunType /\ runs[i].file \in Files /\ runs[i].commit \in DOMAIN tree
<1>1. runs \in Seq(RunType)
  BY DEF Hosted, RunType
<1>2. Len(runs) \in Nat /\ DOMAIN runs = 1..Len(runs) /\ \A i \in DOMAIN runs : runs[i] \in RunType
  BY <1>1
<1> QED BY <1>1, <1>2 DEF RunType

(* The first directory with workflows is one of those there are.           *)
LEMMA FirstIsOf ==
    ASSUME NEW dirs \in SUBSET Dirs, dirs # {}
    PROVE  FirstOf(dirs) \in dirs
<1> DEFINE WD == WORKFLOW_DIRECTORIES
           S == {i \in DOMAIN WD : WD[i] \in dirs}
<1>1. DOMAIN WD \subseteq Nat /\ S \in SUBSET Nat /\ S # {} /\ \A i \in DOMAIN WD : \A j \in 1..(i - 1) : j \in DOMAIN WD /\ j < i
  <2>1. WD \in Seq(Dirs) /\ DOMAIN WD = 1..Len(WD) /\ Len(WD) \in Nat
    BY RunsAssumption DEF Dirs
  <2> QED BY <2>1 DEF Dirs, Range
<1>2. PICK i \in S : \A j \in S : i <= j
  BY <1>1, LeastOf
<1>3. WD[i] \in dirs /\ \A j \in 1..(i - 1) : WD[j] \notin dirs
  BY <1>1, <1>2
<1> QED BY <1>3 DEF FirstOf

(* The default branch's workflow of a file is one.                         *)
(* A workflow listed is in the tree of the commit it is listed of.         *)
LEMMA KnownIs ==
    ASSUME Hosted, NEW w \in Workflows
    PROVE  /\ DirsAt(Main) # {} /\ FirstOf(DirsAt(Main)) \in DirsAt(Main)
           /\ w = Workflow(w.id, FirstOf(DirsAt(Main)), Main) /\ w.id \in tree[Main][FirstOf(DirsAt(Main))]
<1>1. DirsAt(Main) # {}
  BY DEF Workflows
<1>2. FirstOf(DirsAt(Main)) \in DirsAt(Main)
  BY <1>1, FirstIsOf DEF DirsAt
<1>3. PICK f \in tree[Main][FirstOf(DirsAt(Main))] \cap Files : w = Workflow(f, FirstOf(DirsAt(Main)), Main)
  BY <1>1 DEF Workflows
<1> QED BY <1>1, <1>2, <1>3 DEF Workflow

(* The workflow of a run has its file for id, is the listed one if one is  *)
(* listed, and is in a tree the run has unless none holds it.              *)
LEMMA NameOf ==
    ASSUME Hosted, NEW run \in RunType, NEW w, w = WorkflowFor(run)
    PROVE  /\ w.id = run.file
           /\ \A k \in Workflows : k.id = run.file => w = k
           /\ w.of # "" => w.path[2] \in tree[w.of][w.path[1]] /\ w.of \in {Main, run.commit}
           /\ w.of = "" => run.commit \in broken \/ \A d \in DOMAIN tree[run.commit] : run.file \notin tree[run.commit][d]
<1> DEFINE known == {v \in Workflows : v.id = run.file}
           used == {v.path[1] : v \in Workflows}
           first(dirs) == FirstOf(IF dirs \cap used # {} THEN dirs \cap used ELSE dirs)
           holding == {d \in Dirs : run.file \in tree[run.commit][d]}
<1>1. w = IF known # {} THEN CHOOSE v \in known : TRUE
          ELSE IF holding # {} /\ run.commit \notin broken
               THEN Workflow(run.file, first(holding), run.commit)
          ELSE Workflow(run.file, first(Dirs), "")
  BY DEF WorkflowFor
<1>2. run.commit \in DOMAIN tree /\ run.commit # "" /\ Main # "" /\ DOMAIN tree[run.commit] = Dirs
  BY DEF Hosted, RunType
<1>3. first(holding) \in holding \/ holding = {}
  BY FirstIsOf
<1> HIDE DEF used, first
<1>4. CASE known # {}
  <2>1. w \in known
    BY <1>1, <1>4
  <2>2. w = Workflow(run.file, FirstOf(DirsAt(Main)), Main) /\ run.file \in tree[Main][FirstOf(DirsAt(Main))]
    BY <2>1, KnownIs
  <2>3. \A k \in Workflows : k.id = run.file => w = k
    BY <2>2, KnownIs
  <2>4. w.id = run.file /\ w.path[1] = FirstOf(DirsAt(Main)) /\ w.path[2] = run.file /\ w.of = Main
    BY <2>2 DEF Workflow
  <2> QED BY ONLY <2>2, <2>3, <2>4, <1>2
<1>5. CASE known = {} /\ holding # {} /\ run.commit \notin broken
  <2>1. w = Workflow(run.file, first(holding), run.commit) /\ first(holding) \in holding
    BY <1>1, <1>3, <1>5
  <2>2. w.id = run.file /\ w.path[1] = first(holding) /\ w.path[2] = run.file /\ w.of = run.commit
    BY <2>1 DEF Workflow
  <2>3. run.file \in tree[run.commit][first(holding)]
    BY <2>1
  <2>4. \A k \in Workflows : k.id # run.file
    BY <1>5
  <2> QED BY ONLY <2>2, <2>3, <2>4, <1>2
<1>6. CASE known = {} /\ ~(holding # {} /\ run.commit \notin broken)
  <2>1. w = Workflow(run.file, first(Dirs), "")
    BY <1>1, <1>6
  <2>2. w.id = run.file /\ w.of = ""
    <3>1. PICK d : d = first(Dirs)
      OBVIOUS
    <3>2. w = [id |-> run.file, path |-> <<d, run.file>>, of |-> ""]
      BY <2>1, <3>1 DEF Workflow
    <3> QED BY ONLY <3>2
  <2>3. run.commit \in broken \/ \A d \in Dirs : run.file \notin tree[run.commit][d]
    BY <1>6
  <2>4. \A k \in Workflows : k.id # run.file
    BY <1>6
  <2> QED BY ONLY <2>2, <2>3, <2>4, <1>2
<1> QED BY <1>4, <1>5, <1>6

(* In particular it is the one of that id.                                 *)
LEMMA NameIs ==
    ASSUME Hosted, NEW run \in RunType
    PROVE  /\ WorkflowFor(run).id = run.file
           /\ \A k \in Workflows : k.id = run.file => WorkflowFor(run) = k
BY NameOf

(* So what a run names is found, and is what a recent run of it names.     *)
LEMMA NamedProp == Hosted => RunsNamed
<1> SUFFICES ASSUME Hosted PROVE RunsNamed
  OBVIOUS
<1>0. /\ Len(runs) \in Nat /\ DOMAIN runs = 1..Len(runs)
      /\ \A i \in DOMAIN runs : runs[i] \in RunType
  BY RunParts
<1>1. ASSUME NEW i \in DOMAIN runs, i <= RECENT
      PROVE  LET workflows == FindWorkflow(WorkflowFor(runs[i]).id)
             IN  /\ workflows # {}
                 /\ \A w \in workflows : \E j \in DOMAIN runs :
                       runs[j].file = runs[i].file /\ WorkflowFor(runs[j]) = w
  <2> DEFINE id == runs[i].file
             known == {w \in Workflows : w.id = id}
             recent == {k \in DOMAIN runs : k <= RECENT /\ runs[k].file = id}
  <2>1. WorkflowFor(runs[i]).id = id /\ \A k \in known : WorkflowFor(runs[i]) = k
    BY <1>0, NameIs
  <2>2. FindWorkflow(id) = IF known # {} THEN known
                           ELSE {WorkflowFor(runs[k]) : k \in {k \in recent : \A j \in recent : k <= j}}
    BY DEF FindWorkflow
  <2>3. CASE known # {}
    BY <2>1, <2>2, <2>3
  <2>4. CASE known = {}
    <3>1. recent \in SUBSET Nat /\ i \in recent
      BY <1>0, <1>1
    <3>2. PICK k \in recent : \A j \in recent : k <= j
      BY <3>1, LeastOf
    <3>3. FindWorkflow(id) # {}
      BY <2>2, <2>4, <3>2
    <3>4. \A w \in FindWorkflow(id) : \E j \in recent : WorkflowFor(runs[j]) = w
      BY <2>2, <2>4
    <3> QED BY <3>3, <3>4, <2>1
  <2> QED BY <2>3, <2>4
<1>2. ASSUME NEW i \in DOMAIN runs
      PROVE  LET w == WorkflowFor(runs[i])
             IN  /\ w.of # "" => w.path[2] \in tree[w.of][w.path[1]] /\ w.of \in {Main, runs[i].commit}
                 /\ w.of = "" => \/ runs[i].commit \in broken
                                 \/ \A d \in DOMAIN tree[runs[i].commit] :
                                       runs[i].file \notin tree[runs[i].commit][d]
  BY <1>0, NameOf
<1> QED BY <1>1, <1>2 DEF RunsNamed

(* Runs that begin, end and go leave the host its shape.                   *)
LEMMA HostKept == HostInv /\ [RunsNext]_runVars => HostInv'
<1> SUFFICES ASSUME HostInv, [RunsNext]_runVars PROVE HostInv'
  OBVIOUS
<1>1. ASSUME UNCHANGED <<runs, tree, began>> PROVE HostInv'
  BY <1>1 DEF HostInv, Hosted, RunType, Dirs
<1>2. ASSUME NEW i \in DOMAIN began, Start([began[i] EXCEPT !.commit = Main]) PROVE HostInv'
  <2>1. [began[i] EXCEPT !.commit = Main] \in RunType
    BY DEF HostInv, Hosted, RunType
  <2>2. runs' = <<[began[i] EXCEPT !.commit = Main]>> \o runs /\ UNCHANGED <<tree, began>>
    BY <1>2 DEF Start
  <2>3. runs' \in Seq(RunType)
    <3>1. runs \in Seq(RunType)
      BY RunParts DEF HostInv
    <3> QED BY <2>1, <2>2, <3>1
  <2> QED BY <2>2, <2>3 DEF HostInv, Hosted, RunType, Dirs
<1>3. CASE AskPage
  BY <1>1, <1>3 DEF AskPage
<1>4. CASE ReadRuns
  BY <1>1, <1>4 DEF ReadRuns
<1>5. CASE UNCHANGED runVars
  BY <1>1, <1>5 DEF runVars
<1> QED BY <1>2, <1>3, <1>4, <1>5 DEF RunsNext

(* The workflow a recent run is shown with is found by its id, is one the  *)
(* repository has at the commit shown, and is nameless only when no tree   *)
(* holds it.  (actions.rs workflow_for, find_workflow.)                    *)
THEOREM NamesARun == RunsSpec => []RunsNamed
<1>1. RunsInit => HostInv
  BY RunParts DEF RunsInit, HostInv
<1>2. HostInv /\ [RunsNext]_runVars => HostInv'
  BY HostKept
<1>3. HostInv => RunsNamed
  BY NamedProp DEF HostInv
<1> QED BY <1>1, <1>2, <1>3, PTL DEF RunsSpec

(***************************************************************************)
(* The walk through the runs                                               *)
(***************************************************************************)

(* What one run adds to the ones that match, and the ones up to each.      *)
Matched(run, sought) == IF Meets(run, sought) THEN <<run>> ELSE <<>>
IsMeeting(f, all, sought, n) == f = [m \in 0..n |-> IF m = 0 THEN <<>> ELSE f[m - 1] \o Matched(all[m], sought)]

(* They can be matched one after the other, however many there are.        *)
LEMMA MeetingExists ==
    ASSUME NEW all, NEW sought, NEW n \in Nat
    PROVE  \E f : IsMeeting(f, all, sought, n)
<1> DEFINE Bad == {m \in Nat : ~ \E f : IsMeeting(f, all, sought, m)}
<1>1. ASSUME Bad # {} PROVE FALSE
  <2>1. PICK m \in Bad : \A l \in Bad : m <= l
    BY <1>1, LeastOf
  <2>2. CASE m = 0
    <3>1. IsMeeting([l \in 0..0 |-> <<>>], all, sought, 0)
      BY DEF IsMeeting
    <3> QED BY <2>1, <2>2, <3>1
  <2>3. CASE m # 0
    <3>1. m \in Nat /\ m - 1 \in Nat /\ m - 1 \notin Bad
      BY <2>1, <2>3
    <3>2. PICK f : IsMeeting(f, all, sought, m - 1)
      BY <3>1
    <3> DEFINE g == [l \in 0..m |-> IF l = m THEN f[m - 1] \o Matched(all[m], sought) ELSE f[l]]
    <3>3. \A l \in 0..m : g[l] = IF l = 0 THEN <<>> ELSE g[l - 1] \o Matched(all[l], sought)
      <4> TAKE l \in 0..m
      <4>1. CASE l = m
        <5>1. g[m] = f[m - 1] \o Matched(all[m], sought) /\ g[m - 1] = f[m - 1]
          BY <3>1
        <5> QED BY <4>1, <5>1, <2>3
      <4>2. CASE l # m
        <5>1. l \in 0..(m - 1) /\ g[l] = f[l]
          BY <3>1, <4>2
        <5>2. f[l] = IF l = 0 THEN <<>> ELSE f[l - 1] \o Matched(all[l], sought)
          BY <3>2, <5>1 DEF IsMeeting
        <5>3. l # 0 => g[l - 1] = f[l - 1]
          BY <3>1, <5>1
        <5> QED BY <5>1, <5>2, <5>3
      <4> QED BY <4>1, <4>2
    <3>4. g = [l \in 0..m |-> IF l = 0 THEN <<>> ELSE g[l - 1] \o Matched(all[l], sought)]
      <4>1. g = [l \in 0..m |-> g[l]]
        OBVIOUS
      <4> HIDE DEF g
      <4> QED BY <3>3, <4>1
    <3>5. IsMeeting(g, all, sought, m)
      BY <3>4 DEF IsMeeting
    <3> QED BY <2>1, <3>5
  <2> QED BY <2>2, <2>3
<1> QED BY <1>1

(* So Matching has a value, made run by run.                               *)
LEMMA MatchIs ==
    ASSUME NEW all, NEW sought, Len(all) \in Nat
    PROVE  \E f : /\ f[0] = <<>> /\ Matching(all, sought) = f[Len(all)]
                  /\ \A n \in 1..Len(all) : f[n] = f[n - 1] \o Matched(all[n], sought)
<1> DEFINE r == CHOOSE f : IsMeeting(f, all, sought, Len(all))
<1>1. IsMeeting(r, all, sought, Len(all))
  BY MeetingExists
<1>2. Matching(all, sought) = r[Len(all)]
  BY DEF Matching, IsMeeting, Matched
<1> HIDE DEF r
<1>3. r[0] = <<>> /\ \A n \in 1..Len(all) : r[n] = r[n - 1] \o Matched(all[n], sought)
  <2>1. \A m \in 0..Len(all) : r[m] = IF m = 0 THEN <<>> ELSE r[m - 1] \o Matched(all[m], sought)
    BY <1>1, Zenon DEF IsMeeting
  <2>2. r[0] = <<>>
    BY <2>1
  <2>3. ASSUME NEW n \in 1..Len(all) PROVE r[n] = r[n - 1] \o Matched(all[n], sought)
    <3>1. n \in 0..Len(all) /\ n # 0
      OBVIOUS
    <3> QED BY ONLY <2>1, <3>1, Zenon
  <2> QED BY <2>2, <2>3
<1> QED BY <1>2, <1>3

(* What matches is a sequence of the runs that meet the sought.             *)
LEMMA MatchSeq ==
    ASSUME NEW sought, NEW T, NEW all \in Seq(T)
    PROVE  Matching(all, sought) \in Seq({t \in T : Meets(t, sought)})
<1> DEFINE N == Len(all)
           U == {t \in T : Meets(t, sought)}
<1>0. N \in Nat /\ \A n \in 1..N : all[n] \in T
  OBVIOUS
<1>1. PICK f : /\ f[0] = <<>> /\ Matching(all, sought) = f[N]
               /\ \A n \in 1..N : f[n] = f[n - 1] \o Matched(all[n], sought)
  BY <1>0, MatchIs
<1> DEFINE Bad == {n \in 0..N : f[n] \notin Seq(U)}
<1>2. ASSUME NEW n \in 1..N PROVE Matched(all[n], sought) \in Seq(U)
  <2>1. Meets(all[n], sought) => all[n] \in U
    BY <1>0
  <2> HIDE DEF U
  <2>2. Meets(all[n], sought) => <<all[n]>> \in Seq(U)
    BY <2>1
  <2> QED BY <2>2 DEF Matched
<1>3. ASSUME Bad # {} PROVE FALSE
  <2>1. PICK n \in Bad : \A m \in Bad : n <= m
    <3>1. Bad \in SUBSET Nat
      BY <1>0
    <3> HIDE DEF Bad
    <3> QED BY <1>3, <3>1, LeastOf
  <2>2. n # 0
    <3>1. f[0] \in Seq(U)
      BY <1>1
    <3> QED BY <2>1, <3>1
  <2>3. n - 1 \in 0..N /\ n - 1 \notin Bad /\ n \in 1..N
    BY <1>0, <2>1, <2>2
  <2>4. f[n - 1] \in Seq(U) /\ f[n] = f[n - 1] \o Matched(all[n], sought)
    BY <1>1, <2>3
  <2>5. f[n] \in Seq(U)
    BY <1>2, <2>3, <2>4
  <2> QED BY <2>1, <2>5
<1>4. N \in 0..N
  BY <1>0
<1> QED BY <1>1, <1>3, <1>4

(* A run that starts comes before the ones that match already.             *)
LEMMA MatchMore ==
    ASSUME NEW sought, NEW T, NEW all \in Seq(T), NEW run \in T
    PROVE  Matching(<<run>> \o all, sought) = Matched(run, sought) \o Matching(all, sought)
<1> DEFINE N == Len(all)
           more == <<run>> \o all
           U == {t \in T : Meets(t, sought)}
<1>0. N \in Nat /\ Len(more) = N + 1 /\ more[1] = run /\ \A n \in 1..N : more[n + 1] = all[n] /\ all[n] \in T
  OBVIOUS
<1> HIDE DEF more
<1>1. PICK f : /\ f[0] = <<>> /\ Matching(all, sought) = f[N]
               /\ \A n \in 1..N : f[n] = f[n - 1] \o Matched(all[n], sought)
  BY <1>0, MatchIs
<1>2. PICK g : /\ g[0] = <<>> /\ Matching(more, sought) = g[N + 1]
               /\ \A n \in 1..(N + 1) : g[n] = g[n - 1] \o Matched(more[n], sought)
  <2>1. Len(more) \in Nat
    BY <1>0
  <2>2. \E g : /\ g[0] = <<>> /\ Matching(more, sought) = g[Len(more)]
               /\ \A n \in 1..Len(more) : g[n] = g[n - 1] \o Matched(more[n], sought)
    BY ONLY <2>1, MatchIs
  <2>3. Len(more) = N + 1
    BY <1>0
  <2> QED BY ONLY <2>2, <2>3
<1> DEFINE Good(n) == f[n] \in Seq(T) /\ g[n + 1] = Matched(run, sought) \o f[n]
           Bad == {n \in 0..N : ~Good(n)}
<1>3. Matched(run, sought) \in Seq(T) /\ \A n \in 1..N : Matched(all[n], sought) \in Seq(T)
  BY <1>0 DEF Matched
<1>4. ASSUME Bad # {} PROVE FALSE
  <2>1. PICK n \in Bad : \A m \in Bad : n <= m
    <3>1. Bad \in SUBSET Nat
      BY <1>0
    <3> HIDE DEF Bad
    <3> QED BY <1>4, <3>1, LeastOf
  <2>2. n # 0
    <3>1. f[0] \in Seq(T)
      BY <1>1
    <3>2. g[1] = g[0] \o Matched(more[1], sought)
      <4>1. 1 \in 1..(N + 1) /\ 1 - 1 = 0
        BY <1>0
      <4>2. g[1] = g[1 - 1] \o Matched(more[1], sought)
        BY <1>2, <4>1
      <4> QED BY ONLY <4>1, <4>2
    <3>3. g[1] = <<>> \o Matched(run, sought)
      BY <1>0, <1>2, <3>2
    <3>4. g[0 + 1] = Matched(run, sought) \o f[0]
      BY <3>3, <1>1, <1>3, ConcatEmptySeq
    <3> QED BY <2>1, <3>1, <3>4
  <2>3. n - 1 \in 0..N /\ n - 1 \notin Bad /\ n \in 1..N /\ (n - 1) + 1 = n
    BY <1>0, <2>1, <2>2
  <2>4. f[n - 1] \in Seq(T) /\ g[n] = Matched(run, sought) \o f[n - 1]
    BY <2>3
  <2>5. f[n] = f[n - 1] \o Matched(all[n], sought)
    BY <1>1, <2>3
  <2>6. g[n + 1] = g[n] \o Matched(all[n], sought)
    <3>1. n + 1 \in 1..(N + 1) /\ (n + 1) - 1 = n /\ more[n + 1] = all[n]
      BY <1>0, <2>3
    <3>2. g[n + 1] = g[(n + 1) - 1] \o Matched(more[n + 1], sought)
      BY <1>2, <3>1
    <3> QED BY <3>1, <3>2
  <2>7. f[n] \in Seq(T)
    BY <1>3, <2>3, <2>4, <2>5, ConcatProperties
  <2>8. g[n + 1] = Matched(run, sought) \o f[n]
    <3>1. (Matched(run, sought) \o f[n - 1]) \o Matched(all[n], sought) = Matched(run, sought) \o (f[n - 1] \o Matched(all[n], sought))
      <4>1. Matched(run, sought) \in Seq(T) /\ f[n - 1] \in Seq(T) /\ Matched(all[n], sought) \in Seq(T)
        BY <1>3, <2>3, <2>4
      <4>2. PICK a, b, c : a = Matched(run, sought) /\ b = f[n - 1] /\ c = Matched(all[n], sought)
        OBVIOUS
      <4>3. a \in Seq(T) /\ b \in Seq(T) /\ c \in Seq(T)
        BY ONLY <4>1, <4>2
      <4>4. (a \o b) \o c = a \o (b \o c)
        BY ONLY <4>3, ConcatAssociative, SMTT(60)
      <4> QED BY ONLY <4>2, <4>4
    <3> QED BY <2>4, <2>5, <2>6, <3>1
  <2> QED BY <2>1, <2>7, <2>8
<1>5. N \in 0..N
  BY <1>0
<1>6. Good(N)
  BY <1>4, <1>5
<1> QED BY <1>1, <1>2, <1>6 DEF more

(* A number is as many times another, and less than it over.               *)
LEMMA DivParts ==
    ASSUME NEW a \in Nat, NEW b \in Nat, b > 0
    PROVE  \E q \in Nat, r \in 0..(b - 1) : a \div b = q /\ a % b = r /\ a = q * b + r
<1>1. PICK q \in Int : q = a \div b
  OBVIOUS
<1>2. b * q <= a /\ q >= 0
  BY <1>1
<1>3. a < b * q + b
  BY <1>1
<1>4. PICK r : r = a - b * q
  OBVIOUS
<1>5. r \in 0..(b - 1)
  BY <1>2, <1>3, <1>4
<1>6. a = b * q + r
  BY <1>4
<1>7. a % b = r
  BY <1>2, <1>5, <1>6
<1>8. a = q * b + r
  BY <1>6
<1>9. q \in Nat
  BY <1>2
<1> QED BY ONLY <1>1, <1>5, <1>7, <1>8, <1>9

(* Number of pages: the last one reaches the end.                          *)
LEMMA LastReaches ==
    ASSUME NEW total \in Nat, NEW limit \in Nat, limit > 0, NEW page \in Nat,
           ~(page < (total + limit - 1) \div limit)
    PROVE  total <= page * limit
<1>1. total + limit - 1 \in Nat
  OBVIOUS
<1>2. PICK d \in Nat, r \in 0..(limit - 1) :
         d = (total + limit - 1) \div limit /\ total + limit - 1 = d * limit + r
  BY <1>1, DivParts
<1>3. d <= page
  BY <1>2
<1>4. d * limit <= page * limit
  BY <1>3
<1> QED BY <1>2, <1>4

(* A page before the last one does not.                                    *)
LEMMA PageBefore ==
    ASSUME NEW total \in Nat, NEW limit \in Nat, limit > 0, NEW page \in Nat,
           page < (total + limit - 1) \div limit
    PROVE  page * limit < total
<1>1. total + limit - 1 \in Nat
  OBVIOUS
<1>2. PICK d \in Nat, r \in 0..(limit - 1) :
         d = (total + limit - 1) \div limit /\ total + limit - 1 = d * limit + r
  BY <1>1, DivParts
<1>3. page + 1 <= d
  BY <1>2
<1>4. (page + 1) * limit <= d * limit
  BY <1>3
<1>5. (page + 1) * limit = page * limit + limit
  OBVIOUS
<1> QED BY <1>2, <1>4, <1>5

(* A part of a sequence.                                                   *)
LEMMA Part ==
    ASSUME NEW T, NEW s \in Seq(T), NEW m \in Nat, NEW n \in Nat, n <= Len(s), NEW u, u = SubSeq(s, m + 1, n)
    PROVE  /\ u \in Seq(T) /\ Len(u) \in Nat /\ Len(u) = IF m <= n THEN n - m ELSE 0
           /\ \A j \in 1..Len(u) : u[j] = s[m + j]
OBVIOUS

(* Two sequences, one after the other.                                     *)
LEMMA Cat ==
    ASSUME NEW T, NEW s \in Seq(T), NEW t \in Seq(T), NEW u, u = s \o t
    PROVE  /\ u \in Seq(T) /\ Len(u) \in Nat /\ Len(u) = Len(s) + Len(t)
           /\ \A j \in 1..Len(u) : u[j] = IF j <= Len(s) THEN s[j] ELSE t[j - Len(s)]
BY ConcatProperties

(* What a page of the forge's adds: got is what was answered, batch what   *)
(* was read of the forge's pages since.  It continues what was read where  *)
(* that ended.                                                             *)
IsPage(T, all, got, batch, size, a, b, s, page, g, f) ==
    /\ all \in Seq(T) /\ got \in Seq(T) /\ batch \in Seq(T)
    /\ size \in Nat /\ a \in Nat /\ b \in Nat /\ s \in 0..(size - 1)
    /\ a <= b /\ (b = a \/ b - a >= size) /\ Len(got) = a + s /\ Len(batch) = b - a
    /\ page = SubSeq(all, b + 1, IF b + size < Len(all) THEN b + size ELSE Len(all))
    /\ g = got \o SubSeq(batch, s + 1, Len(batch))
    /\ f = got \o SubSeq(batch \o page, s + 1, Len(batch \o page))

LEMMA PageAdds ==
    ASSUME NEW T, NEW all, NEW got, NEW batch, NEW size, NEW a, NEW b, NEW s, NEW page, NEW g, NEW f,
           IsPage(T, all, got, batch, size, a, b, s, page, g, f)
    PROVE  /\ page \in Seq(T) /\ g \in Seq(T) /\ f \in Seq(T) /\ Len(g) <= Len(f)
           /\ \A j \in 1..Len(g) : f[j] = g[j]
           /\ \A j \in (Len(g) + 1)..Len(f) : j <= Len(all) /\ f[j] = all[j]
           /\ page = <<>> \/ b + size >= Len(all) => Len(f) >= Len(all)
           /\ b + size < Len(all) => Len(page) = size
           /\ batch \o page \in Seq(T)
           /\ Len(batch \o page) >= s => Len(f) = a + Len(batch \o page)
<1> USE DEF IsPage
<1>1. PICK L, e : L = Len(all) /\ e = IF b + size < L THEN b + size ELSE L
  OBVIOUS
<1>2. PICK both, old, new : /\ both = batch \o page
                           /\ old = SubSeq(batch, s + 1, Len(batch))
                           /\ new = SubSeq(both, s + 1, Len(both))
  OBVIOUS
<1>3. page = SubSeq(all, b + 1, e) /\ g = got \o old /\ f = got \o new
  BY <1>1, <1>2
<1>4. /\ Len(got) \in Nat /\ Len(batch) \in Nat /\ L \in Nat /\ e \in Nat /\ e <= L
      /\ Len(got) = a + s /\ Len(batch) = b - a /\ s \in Nat /\ s < size
  BY <1>1
<1>a. all \in Seq(T) /\ batch \in Seq(T) /\ got \in Seq(T) /\ s \in Nat /\ b \in Nat
  OBVIOUS
<1>5. /\ page \in Seq(T) /\ Len(page) \in Nat /\ Len(page) = IF b <= e THEN e - b ELSE 0
      /\ \A j \in 1..Len(page) : page[j] = all[b + j]
  <2>1. e \in Nat /\ e <= Len(all) /\ page = SubSeq(all, b + 1, e)
    BY ONLY <1>1, <1>3, <1>4
  <2>2. all \in Seq(T) /\ b \in Nat /\ e \in Nat /\ e <= Len(all) /\ page = SubSeq(all, b + 1, e)
    BY ONLY <1>a, <2>1
  <2> QED BY ONLY <2>2, Part
<1>6. /\ both \in Seq(T) /\ Len(both) \in Nat /\ Len(both) = Len(batch) + Len(page)
      /\ \A j \in 1..Len(both) : both[j] = IF j <= Len(batch) THEN batch[j] ELSE page[j - Len(batch)]
  <2>1. batch \in Seq(T) /\ page \in Seq(T) /\ both = batch \o page
    BY ONLY <1>2, <1>5, <1>a
  <2> QED BY ONLY <2>1, Cat
<1>7. /\ old \in Seq(T) /\ Len(old) \in Nat /\ Len(old) = IF s <= Len(batch) THEN Len(batch) - s ELSE 0
      /\ \A j \in 1..Len(old) : old[j] = batch[s + j]
  <2>1. Len(batch) \in Nat /\ Len(batch) <= Len(batch)
    BY ONLY <1>4
  <2>2. batch \in Seq(T) /\ s \in Nat /\ old = SubSeq(batch, s + 1, Len(batch))
    BY ONLY <1>2, <1>a
  <2> QED BY ONLY <2>1, <2>2, Part
<1>8. /\ new \in Seq(T) /\ Len(new) \in Nat /\ Len(new) = IF s <= Len(both) THEN Len(both) - s ELSE 0
      /\ \A j \in 1..Len(new) : new[j] = both[s + j]
  <2>1. Len(both) \in Nat /\ Len(both) <= Len(both)
    BY ONLY <1>6
  <2>2. both \in Seq(T) /\ s \in Nat /\ new = SubSeq(both, s + 1, Len(both))
    BY ONLY <1>2, <1>6, <1>a
  <2> QED BY ONLY <2>1, <2>2, Part
<1>9. /\ g \in Seq(T) /\ Len(g) \in Nat /\ Len(g) = Len(got) + Len(old)
      /\ \A j \in 1..Len(g) : g[j] = IF j <= Len(got) THEN got[j] ELSE old[j - Len(got)]
  <2>1. got \in Seq(T) /\ old \in Seq(T) /\ g = got \o old
    BY ONLY <1>3, <1>7, <1>a
  <2> QED BY ONLY <2>1, Cat
<1>10. /\ f \in Seq(T) /\ Len(f) \in Nat /\ Len(f) = Len(got) + Len(new)
       /\ \A j \in 1..Len(f) : f[j] = IF j <= Len(got) THEN got[j] ELSE new[j - Len(got)]
  <2>1. got \in Seq(T) /\ new \in Seq(T) /\ f = got \o new
    BY ONLY <1>3, <1>8, <1>a
  <2> QED BY ONLY <2>1, Cat
<1>b. PICK lg, lb, lp, lo, ln, lw, lx, ly :
         /\ lg = Len(got) /\ lb = Len(batch) /\ lp = Len(page) /\ lw = Len(both)
         /\ lo = Len(old) /\ ln = Len(new) /\ lx = Len(g) /\ ly = Len(f)
  OBVIOUS
<1>c. /\ lg \in Nat /\ lb \in Nat /\ lp \in Nat /\ lw \in Nat /\ lo \in Nat /\ ln \in Nat /\ lx \in Nat
      /\ ly \in Nat /\ s \in Nat /\ a \in Nat /\ b \in Nat /\ size \in Nat /\ L \in Nat /\ e \in Nat
      /\ lg = a + s /\ lb = b - a /\ s < size /\ a <= b /\ (b = a \/ b - a >= size)
      /\ e = IF b + size < L THEN b + size ELSE L
      /\ lp = IF b <= e THEN e - b ELSE 0
      /\ lw = lb + lp
      /\ lo = IF s <= lb THEN lb - s ELSE 0
      /\ ln = IF s <= lw THEN lw - s ELSE 0
      /\ lx = lg + lo /\ ly = lg + ln
  <2>1. lg = a + s /\ lb = b - a
    BY ONLY <1>4, <1>b
  <2>5. lp = IF b <= e THEN e - b ELSE 0
    BY ONLY <1>5, <1>b
  <2>6. lw = lb + lp
    BY ONLY <1>6, <1>b
  <2>7. lo = IF s <= lb THEN lb - s ELSE 0
    BY ONLY <1>7, <1>b
  <2>8. ln = IF s <= lw THEN lw - s ELSE 0
    BY ONLY <1>8, <1>b
  <2>9. lx = lg + lo
    BY ONLY <1>9, <1>b
  <2>10. ly = lg + ln
    BY ONLY <1>10, <1>b
  <2>2. /\ lg \in Nat /\ lb \in Nat /\ lp \in Nat /\ lw \in Nat
        /\ lo \in Nat /\ ln \in Nat /\ lx \in Nat /\ ly \in Nat
    BY ONLY <1>4, <1>5, <1>6, <1>7, <1>8, <1>9, <1>10, <1>b, Zenon
  <2>3. e = IF b + size < L THEN b + size ELSE L
    BY ONLY <1>1
  <2>4. a \in Nat /\ b \in Nat /\ size \in Nat /\ s \in Nat /\ s < size /\ a <= b /\ (b = a \/ b - a >= size)
    OBVIOUS
  <2>11. L \in Nat /\ e \in Nat
    BY ONLY <1>4
  <2> QED BY ONLY <2>1, <2>2, <2>3, <2>4, <2>5, <2>6, <2>7, <2>8, <2>9, <2>10, <2>11, Zenon
<1>d. /\ \A j \in 1..lp : page[j] = all[b + j]
      /\ \A j \in 1..lw : both[j] = IF j <= lb THEN batch[j] ELSE page[j - lb]
      /\ \A j \in 1..lo : old[j] = batch[s + j]
      /\ \A j \in 1..ln : new[j] = both[s + j]
      /\ \A j \in 1..lx : g[j] = IF j <= lg THEN got[j] ELSE old[j - lg]
      /\ \A j \in 1..ly : f[j] = IF j <= lg THEN got[j] ELSE new[j - lg]
  BY ONLY <1>5, <1>6, <1>7, <1>8, <1>9, <1>10, <1>b, Zenon
<1>12. lx <= ly /\ lo <= ln
  BY ONLY <1>c
<1>13. ASSUME NEW j \in 1..lx PROVE f[j] = g[j]
  <2>0. j \in Nat /\ j \in 1..ly /\ j \in 1..lx
    BY ONLY <1>c, <1>12, j \in 1..lx
  <2>1. CASE j <= lg
    <3>1. f[j] = got[j] /\ g[j] = got[j]
      BY ONLY <1>d, <2>0, <2>1
    <3> QED BY ONLY <3>1
  <2>2. CASE ~(j <= lg)
    <3>1. j - lg \in 1..lo /\ j - lg \in 1..ln
      BY ONLY <1>c, <1>12, <2>0, <2>2
    <3>2. s + (j - lg) \in 1..lb /\ s + (j - lg) \in 1..lw /\ s + (j - lg) <= lb
      BY ONLY <1>c, <2>0, <3>1
    <3>3. old[j - lg] = batch[s + (j - lg)] /\ new[j - lg] = both[s + (j - lg)]
      BY ONLY <1>d, <3>1
    <3>4. both[s + (j - lg)] = batch[s + (j - lg)]
      BY ONLY <1>d, <3>2
    <3>5. g[j] = old[j - lg] /\ f[j] = new[j - lg]
      BY ONLY <1>d, <2>0, <2>2
    <3> QED BY ONLY <3>3, <3>4, <3>5
  <2> QED BY <2>1, <2>2
<1>14. ASSUME NEW j \in (lx + 1)..ly PROVE j <= L /\ f[j] = all[j]
  <2>1. j \in 1..ly /\ ~(j <= lg) /\ j - lg \in 1..ln /\ j \in Nat
    BY ONLY <1>c, j \in (lx + 1)..ly
  <2>2. s + (j - lg) \in 1..lw /\ s + (j - lg) = j - a
    BY ONLY <1>c, <2>1
  <2>3. f[j] = new[j - lg] /\ new[j - lg] = both[s + (j - lg)]
    BY ONLY <1>d, <2>1
  <2>4. ~(j - a <= lb) /\ j - a \in 1..lw
    BY ONLY <1>c, <2>1, <2>2, j \in (lx + 1)..ly
  <2>5. both[j - a] = page[(j - a) - lb]
    BY ONLY <1>d, <2>4
  <2>6. (j - a) - lb = j - b /\ j - b \in 1..lp /\ b + (j - b) = j /\ j <= L
    BY ONLY <1>c, <2>1, <2>2, <2>4
  <2>7. page[j - b] = all[b + (j - b)]
    BY ONLY <1>d, <2>6
  <2> QED BY ONLY <2>2, <2>3, <2>5, <2>6, <2>7
<1>15. page = <<>> \/ b + size >= L => ly >= L
  <2>1. page = <<>> => lp = 0
    BY <1>b
  <2> QED BY ONLY <1>c, <2>1
<1>16. b + size < L => lp = size
  BY ONLY <1>c
<1>17. lw >= s => ly = a + lw
  BY ONLY <1>c
<1>18. /\ lx <= ly /\ \A j \in 1..lx : f[j] = g[j]
       /\ \A j \in (lx + 1)..ly : j <= L /\ f[j] = all[j]
  BY ONLY <1>12, <1>13, <1>14
<1>19. /\ Len(g) <= Len(f) /\ \A j \in 1..Len(g) : f[j] = g[j]
       /\ \A j \in (Len(g) + 1)..Len(f) : j <= Len(all) /\ f[j] = all[j]
       /\ page = <<>> \/ b + size >= Len(all) => Len(f) >= Len(all)
       /\ b + size < Len(all) => Len(page) = size
  BY ONLY <1>1, <1>b, <1>15, <1>16, <1>18, Zenon
<1>20. /\ batch \o page \in Seq(T)
       /\ Len(batch \o page) >= s => Len(f) = a + Len(batch \o page)
  BY ONLY <1>2, <1>6, <1>17, <1>b, Zenon
<1> QED BY ONLY <1>5, <1>9, <1>10, <1>19, <1>20, Zenon

(* The page answered is what follows what was answered, as far as it was   *)
(* read, and a page long.                                                  *)
IsWindow(T, got, both, s, limit, f, window, w) ==
    /\ got \in Seq(T) /\ both \in Seq(T) /\ s \in Nat /\ limit \in Nat /\ limit > 0
    /\ f = got \o SubSeq(both, s + 1, Len(both))
    /\ window = SubSeq(both, s + 1, IF s + limit < Len(both) THEN s + limit ELSE Len(both))
    /\ w = got \o window

LEMMA WindowIs ==
    ASSUME NEW T, NEW got, NEW both, NEW s, NEW limit, NEW f, NEW window, NEW w,
           IsWindow(T, got, both, s, limit, f, window, w)
    PROVE  /\ window \in Seq(T) /\ w \in Seq(T) /\ f \in Seq(T) /\ Len(f) \in Nat
           /\ Len(w) = IF Len(got) + limit < Len(f) THEN Len(got) + limit ELSE Len(f)
           /\ \A j \in 1..Len(w) : w[j] = f[j]
<1> USE DEF IsWindow
<1>1. PICK e, rest, lg, lb, lr, lv, lf, lw :
         /\ rest = SubSeq(both, s + 1, Len(both)) /\ lg = Len(got) /\ lb = Len(both)
         /\ e = IF s + limit < lb THEN s + limit ELSE lb
         /\ lr = Len(rest) /\ lv = Len(window) /\ lf = Len(f) /\ lw = Len(w)
  OBVIOUS
<1>2. got \in Seq(T) /\ both \in Seq(T) /\ s \in Nat /\ limit \in Nat /\ limit > 0 /\ lg \in Nat /\ lb \in Nat
  BY <1>1
<1>3. window = SubSeq(both, s + 1, e) /\ f = got \o rest /\ w = got \o window
  BY <1>1
<1>4. /\ rest \in Seq(T) /\ lr \in Nat /\ lr = IF s <= lb THEN lb - s ELSE 0
      /\ \A j \in 1..lr : rest[j] = both[s + j]
  <2>1. both \in Seq(T) /\ s \in Nat /\ Len(both) \in Nat /\ Len(both) <= Len(both)
        /\ rest = SubSeq(both, s + 1, Len(both))
    BY <1>1, <1>2
  <2>2. /\ rest \in Seq(T) /\ Len(rest) \in Nat /\ Len(rest) = IF s <= Len(both) THEN Len(both) - s ELSE 0
        /\ \A j \in 1..Len(rest) : rest[j] = both[s + j]
    BY ONLY <2>1, Part
  <2> QED BY ONLY <1>1, <2>2
<1>5. /\ window \in Seq(T) /\ lv \in Nat /\ lv = IF s <= e THEN e - s ELSE 0
      /\ \A j \in 1..lv : window[j] = both[s + j]
  <2>1. both \in Seq(T) /\ s \in Nat /\ e \in Nat /\ e <= Len(both) /\ window = SubSeq(both, s + 1, e)
    BY <1>1, <1>2, <1>3
  <2>2. /\ window \in Seq(T) /\ Len(window) \in Nat /\ Len(window) = IF s <= e THEN e - s ELSE 0
        /\ \A j \in 1..Len(window) : window[j] = both[s + j]
    <3>1. both \in Seq(T) /\ s \in Nat /\ e \in Nat
      BY ONLY <2>1
    <3>2. e <= Len(both) /\ window = SubSeq(both, s + 1, e)
      BY ONLY <2>1
    <3> QED BY ONLY <3>1, <3>2, Part, SMTT(30)
  <2> QED BY ONLY <1>1, <2>2
<1>6. /\ f \in Seq(T) /\ lf \in Nat /\ lf = lg + lr
      /\ \A j \in 1..lf : f[j] = IF j <= lg THEN got[j] ELSE rest[j - lg]
  <2>1. got \in Seq(T) /\ rest \in Seq(T) /\ f = got \o rest
    BY ONLY <1>2, <1>3, <1>4
  <2>2. /\ f \in Seq(T) /\ Len(f) \in Nat /\ Len(f) = Len(got) + Len(rest)
        /\ \A j \in 1..Len(f) : f[j] = IF j <= Len(got) THEN got[j] ELSE rest[j - Len(got)]
    BY ONLY <2>1, Cat
  <2> QED BY ONLY <1>1, <2>2
<1>7. /\ w \in Seq(T) /\ lw \in Nat /\ lw = lg + lv
      /\ \A j \in 1..lw : w[j] = IF j <= lg THEN got[j] ELSE window[j - lg]
  <2>1. got \in Seq(T) /\ window \in Seq(T) /\ w = got \o window
    BY ONLY <1>2, <1>3, <1>5
  <2>2. /\ w \in Seq(T) /\ Len(w) \in Nat /\ Len(w) = Len(got) + Len(window)
        /\ \A j \in 1..Len(w) : w[j] = IF j <= Len(got) THEN got[j] ELSE window[j - Len(got)]
    BY ONLY <2>1, Cat
  <2> QED BY ONLY <1>1, <2>2
<1>8. e = IF s + limit < lb THEN s + limit ELSE lb
  BY <1>1
<1>9. /\ lw = lg + lv /\ lv = (IF s <= e THEN e - s ELSE 0) /\ lr = (IF s <= lb THEN lb - s ELSE 0)
      /\ lf = lg + lr /\ lw \in Nat /\ lv \in Nat /\ lr \in Nat /\ lf \in Nat
  BY ONLY <1>4, <1>5, <1>6, <1>7, Zenon
<1>10. lw = (IF lg + limit < lf THEN lg + limit ELSE lf) /\ lv <= lr
  BY ONLY <1>2, <1>8, <1>9
<1>11. ASSUME NEW j \in 1..lw PROVE w[j] = f[j]
  <2>0. j \in 1..lw /\ j \in 1..lf /\ j \in Nat
    BY ONLY <1>2, <1>9, <1>10, j \in 1..lw
  <2>1. CASE j <= lg
    <3>1. w[j] = got[j] /\ f[j] = got[j]
      BY ONLY <1>6, <1>7, <2>0, <2>1
    <3> QED BY ONLY <3>1
  <2>2. CASE ~(j <= lg)
    <3>1. j - lg \in 1..lv /\ j - lg \in 1..lr
      BY ONLY <1>2, <1>9, <1>10, <2>0, <2>2
    <3>2. window[j - lg] = both[s + (j - lg)] /\ rest[j - lg] = both[s + (j - lg)]
      BY ONLY <1>4, <1>5, <3>1
    <3>3. w[j] = window[j - lg] /\ f[j] = rest[j - lg]
      BY ONLY <1>6, <1>7, <2>0, <2>2
    <3> QED BY ONLY <3>2, <3>3
  <2> QED BY <2>1, <2>2
<1>12. \A j \in 1..lw : w[j] = f[j]
  BY <1>11
<1> QED BY ONLY <1>1, <1>5, <1>6, <1>7, <1>10, <1>12, Zenon

(* The runs there were at first are where they were read: a run read is    *)
(* at a place no later than where it is now, behind those that started.    *)
Passed(base, lead, n) == {k \in 1..Len(base) : lead + k <= n}
PlacedBy(c, base, lead, seq) ==
    /\ c \in [Passed(base, lead, Len(seq)) -> 1..Len(seq)]
    /\ \A k \in Passed(base, lead, Len(seq)) : seq[c[k]] = base[k] /\ c[k] <= lead + k
    /\ \A k, l \in Passed(base, lead, Len(seq)) : c[k] = c[l] => k = l
Placed(base, lead, seq) == \E c : PlacedBy(c, base, lead, seq)

LEMMA PlacedMore ==
    ASSUME NEW base, Len(base) \in Nat, NEW lead \in Nat, NEW all, NEW g, NEW f,
           Len(g) \in Nat, Len(f) \in Nat, Len(g) <= Len(f),
           \A k \in 1..Len(base) : all[lead + k] = base[k],
           \A j \in 1..Len(g) : f[j] = g[j],
           \A j \in (Len(g) + 1)..Len(f) : f[j] = all[j],
           Placed(base, lead, g)
    PROVE  Placed(base, lead, f)
<1>1. PICK c : PlacedBy(c, base, lead, g)
  BY DEF Placed
<1>2. PICK lb, lg, lf : lb = Len(base) /\ lg = Len(g) /\ lf = Len(f)
  OBVIOUS
<1>3. PICK old, new : old = Passed(base, lead, lg) /\ new = Passed(base, lead, lf)
  OBVIOUS
<1>4. /\ lb \in Nat /\ lg \in Nat /\ lf \in Nat /\ lg <= lf /\ lead \in Nat
      /\ \A k \in 1..lb : all[lead + k] = base[k]
      /\ \A j \in 1..lg : f[j] = g[j] /\ \A i \in (lg + 1)..lf : f[i] = all[i]
      /\ \A j \in (lg + 1)..lf : f[j] = all[j]
  BY <1>2
<1>5. /\ c \in [old -> 1..lg]
      /\ \A k \in old : g[c[k]] = base[k] /\ c[k] <= lead + k
      /\ \A k, l \in old : c[k] = c[l] => k = l
  BY <1>1, <1>2, <1>3 DEF PlacedBy
<1>6. /\ \A k : k \in old <=> k \in 1..lb /\ lead + k <= lg
      /\ \A k : k \in new <=> k \in 1..lb /\ lead + k <= lf
  BY <1>2, <1>3 DEF Passed
<1>7. PICK d : d = [k \in new |-> IF k \in old THEN c[k] ELSE lead + k]
  OBVIOUS
<1>8. ASSUME NEW k \in new PROVE d[k] \in 1..lf /\ f[d[k]] = base[k] /\ d[k] <= lead + k
  <2>0. k \in 1..lb /\ lead + k <= lf /\ k \in Nat
    BY ONLY <1>4, <1>6, k \in new
  <2>1. CASE k \in old
    <3>1. d[k] = c[k]
      BY <1>7, <2>1
    <3>2. c[k] \in 1..lg /\ g[c[k]] = base[k] /\ c[k] <= lead + k
      BY ONLY <1>5, <2>1
    <3>3. f[c[k]] = g[c[k]] /\ c[k] \in 1..lf
      BY ONLY <1>4, <3>2
    <3> QED BY ONLY <3>1, <3>2, <3>3
  <2>2. CASE k \notin old
    <3>1. d[k] = lead + k
      BY <1>7, <2>2
    <3>2. lead + k \in (lg + 1)..lf /\ lead + k \in 1..lf
      BY ONLY <1>4, <1>6, <2>0, <2>2
    <3>3. f[lead + k] = base[k]
      BY ONLY <1>4, <2>0, <3>2
    <3>4. lead + k <= lead + k
      BY ONLY <1>4, <2>0
    <3> QED BY ONLY <3>1, <3>2, <3>3, <3>4
  <2> QED BY <2>1, <2>2
<1>9. ASSUME NEW k \in new, NEW l \in new, d[k] = d[l] PROVE k = l
  <2>0. k \in Nat /\ l \in Nat /\ k \in 1..lb /\ l \in 1..lb
    BY ONLY <1>4, <1>6, k \in new, l \in new
  <2>1. CASE k \in old /\ l \in old
    <3>1. d[k] = c[k] /\ d[l] = c[l]
      BY <1>7, <2>1
    <3> QED BY ONLY <1>5, <1>9, <2>1, <3>1
  <2>2. CASE k \in old /\ l \notin old
    <3>1. d[k] = c[k] /\ d[l] = lead + l
      BY <1>7, <2>2
    <3>2. c[k] \in 1..lg
      BY ONLY <1>5, <2>2
    <3>3. ~(lead + l <= lg)
      BY ONLY <1>6, <2>0, <2>2
    <3>4. c[k] = lead + l
      BY ONLY <1>9, <3>1
    <3>5. lg \in Nat /\ lead \in Nat
      BY ONLY <1>4
    <3> QED BY ONLY <2>0, <3>2, <3>3, <3>4, <3>5
  <2>3. CASE k \notin old /\ l \in old
    <3>1. d[l] = c[l] /\ d[k] = lead + k
      BY <1>7, <2>3
    <3>2. c[l] \in 1..lg
      BY ONLY <1>5, <2>3
    <3>3. ~(lead + k <= lg)
      BY ONLY <1>6, <2>0, <2>3
    <3>4. c[l] = lead + k
      BY ONLY <1>9, <3>1
    <3>5. lg \in Nat /\ lead \in Nat
      BY ONLY <1>4
    <3> QED BY ONLY <2>0, <3>2, <3>3, <3>4, <3>5
  <2>4. CASE k \notin old /\ l \notin old
    <3>1. d[k] = lead + k /\ d[l] = lead + l
      BY <1>7, <2>4
    <3>2. lead + k = lead + l /\ lead \in Nat
      BY ONLY <1>4, <1>9, <3>1
    <3> QED BY ONLY <2>0, <3>2
  <2> QED BY <2>1, <2>2, <2>3, <2>4
<1>10. d \in [new -> 1..lf]
  BY <1>7, <1>8
<1>11. PlacedBy(d, base, lead, f)
  BY ONLY <1>2, <1>3, <1>8, <1>9, <1>10 DEF PlacedBy
<1> QED BY <1>11 DEF Placed

(* A part of it is enough for those that are in that part by now, also     *)
(* when more have started since.                                           *)
LEMMA PlacedLess ==
    ASSUME NEW base, Len(base) \in Nat, NEW lead \in Nat, NEW later \in Nat, lead <= later, NEW f, NEW w,
           Len(w) \in Nat, Len(f) \in Nat, Len(w) <= Len(f), \A j \in 1..Len(w) : w[j] = f[j],
           Placed(base, lead, f)
    PROVE  Placed(base, later, w)
<1>1. PICK c : PlacedBy(c, base, lead, f)
  BY DEF Placed
<1>2. PICK lb, lw, lf : lb = Len(base) /\ lw = Len(w) /\ lf = Len(f)
  OBVIOUS
<1>3. PICK old, new : old = Passed(base, lead, lf) /\ new = Passed(base, later, lw)
  OBVIOUS
<1>4. /\ lb \in Nat /\ lw \in Nat /\ lf \in Nat /\ lw <= lf /\ lead \in Nat /\ later \in Nat /\ lead <= later
      /\ \A j \in 1..lw : w[j] = f[j]
  BY <1>2
<1>5. /\ c \in [old -> 1..lf]
      /\ \A k \in old : f[c[k]] = base[k] /\ c[k] <= lead + k
      /\ \A k, l \in old : c[k] = c[l] => k = l
  BY <1>1, <1>2, <1>3 DEF PlacedBy
<1>6. /\ \A k : k \in old <=> k \in 1..lb /\ lead + k <= lf
      /\ \A k : k \in new <=> k \in 1..lb /\ later + k <= lw
  BY <1>2, <1>3 DEF Passed
<1>7. PICK d : d = [k \in new |-> c[k]]
  OBVIOUS
<1>8. ASSUME NEW k \in new PROVE k \in old /\ d[k] = c[k] /\ d[k] \in 1..lw /\ w[d[k]] = base[k] /\ d[k] <= later + k
  <2>1. k \in 1..lb /\ later + k <= lw /\ k \in Nat
    BY ONLY <1>4, <1>6, k \in new
  <2>2. k \in old
    BY ONLY <1>4, <1>6, <2>1
  <2>3. c[k] \in 1..lf /\ f[c[k]] = base[k] /\ c[k] <= lead + k
    BY ONLY <1>5, <2>2
  <2>4. c[k] \in 1..lw /\ c[k] <= later + k
    BY ONLY <1>4, <2>1, <2>3
  <2>5. w[c[k]] = f[c[k]]
    BY ONLY <1>4, <2>4
  <2>6. d[k] = c[k]
    BY <1>7
  <2> QED BY ONLY <2>2, <2>3, <2>4, <2>5, <2>6
<1>9. \A k, l \in new : d[k] = d[l] => k = l
  BY ONLY <1>5, <1>8
<1>10. d \in [new -> 1..lw]
  BY <1>7, <1>8
<1>11. PlacedBy(d, base, later, w)
  BY ONLY <1>2, <1>3, <1>8, <1>9, <1>10 DEF PlacedBy
<1> QED BY <1>11 DEF Placed

(* A sequence that holds them all holds each as often as they do.          *)
LEMMA PlacedTimes ==
    ASSUME NEW T, NEW base \in Seq(T), NEW seq \in Seq(T), NEW lead \in Nat, NEW r,
           lead + Len(base) <= Len(seq), Placed(base, lead, seq)
    PROVE  Times(r, seq) >= Times(r, base)
<1>1. PICK c : PlacedBy(c, base, lead, seq)
  BY DEF Placed
<1>2. Len(base) \in Nat /\ Len(seq) \in Nat /\ DOMAIN base = 1..Len(base) /\ DOMAIN seq = 1..Len(seq)
  OBVIOUS
<1>3. Passed(base, lead, Len(seq)) = 1..Len(base)
  BY <1>2 DEF Passed
<1>4. /\ \A k \in 1..Len(base) : c[k] \in 1..Len(seq) /\ seq[c[k]] = base[k]
      /\ \A k, l \in 1..Len(base) : c[k] = c[l] => k = l
  BY <1>1, <1>3 DEF PlacedBy
<1>5. PICK A, B : A = {i \in DOMAIN base : base[i] = r} /\ B = {i \in DOMAIN seq : seq[i] = r}
  OBVIOUS
<1>6. IsFiniteSet(1..Len(base)) /\ IsFiniteSet(1..Len(seq))
  BY <1>2, FS_Interval
<1>7. A \subseteq 1..Len(base) /\ B \subseteq 1..Len(seq)
  BY <1>2, <1>5
<1>8. IsFiniteSet(A) /\ IsFiniteSet(B)
  BY ONLY <1>6, <1>7, FS_Subset
<1>9. PICK d : d = [k \in A |-> c[k]]
  OBVIOUS
<1>10. \A k \in A : c[k] \in B
  BY <1>2, <1>4, <1>5
<1>11. d \in [A -> B] /\ \A k, l \in A : d[k] = d[l] => k = l
  BY ONLY <1>4, <1>7, <1>9, <1>10
<1>12. d \in Injection(A, B)
  BY ONLY <1>11 DEF Injection, IsInjective
<1>13. Cardinality(A) <= Cardinality(B)
  BY ONLY <1>8, <1>12, FS_Injection DEF ExistsInjection
<1>14. Cardinality(A) \in Nat /\ Cardinality(B) \in Nat
  BY ONLY <1>8, FS_CardinalityType
<1> QED BY ONLY <1>5, <1>13, <1>14 DEF Times

(* The runs asked for, when gh began and now, and how many started since;  *)
(* how far gh is, where its page is on the forge's, and what it has of it. *)
Wished == Matching(began, wanted)
There == Matching(runs, wanted)
Lead == Len(There) - Len(Wished)
Limit == Clamp(wanted.limit)
Past == (walk.page - 1) * Limit
Skip == Past % SIZE
First == Past \div SIZE + 1
ReadSoFar == walk.got \o SubSeq(walk.batch, Skip + 1, Len(walk.batch))

(* The types.                                                              *)
Walked ==
    /\ Hosted /\ began \in Seq(RunType) /\ wanted \in RunQueries
    /\ stage \in {"ask", "read", "done", "failed"}
    /\ walk = [page |-> walk.page, upstream |-> walk.upstream, batch |-> walk.batch, got |-> walk.got, total |-> walk.total]
    /\ walk.page \in Nat \ {0} /\ walk.upstream \in Nat
    /\ walk.batch \in Seq(RunType) /\ walk.got \in Seq(RunType)

(* The runs there were are still there, behind those that started.         *)
Behind ==
    /\ Len(began) <= Len(runs) /\ (Len(runs) = Len(began) => runs = began)
    /\ Lead \in Nat /\ \A k \in 1..Len(Wished) : There[Lead + k] = Wished[k]

(* What was read goes page by page, and each part of it was where it is.   *)
Proper(seq) ==
    \A j \in 1..Len(seq) :
        /\ Meets(seq[j], wanted)
        /\ runs = began => j <= Len(Wished) /\ seq[j] = Wished[j]
Paged ==
    /\ Len(walk.got) = Past
    /\ \A j \in 1..Len(walk.got) : walk.got[j].status \in Native
    /\ stage = "ask" => walk.batch = <<>>
    /\ stage = "read" => First <= walk.upstream /\ Len(walk.batch) = (walk.upstream - First) * SIZE
    /\ Placed(Wished, Lead, ReadSoFar) /\ Proper(ReadSoFar)

(* The invariant.                                                          *)
WalkInv ==
    /\ Walked /\ Behind
    /\ stage \in {"ask", "read"} => Paged
    /\ stage = "done" => RunsListed

(* Some limit there is.                                                    *)
LEMMA ClampPositive == ASSUME Walked PROVE Limit \in Nat /\ Limit > 0
<1>1. wanted.limit \in Nat /\ MAX_LIMIT \in Nat \ {0}
  BY RunsAssumption DEF Walked
<1> QED BY <1>1 DEF Limit, Clamp

(* The runs that match, and that they do.                                  *)
LEMMA MatchTypes ==
    ASSUME Walked
    PROVE  /\ There \in Seq(RunType) /\ Wished \in Seq(RunType) /\ Len(There) \in Nat /\ Len(Wished) \in Nat
           /\ \A j \in 1..Len(There) : Meets(There[j], wanted)
           /\ \A j \in 1..Len(Wished) : Meets(Wished[j], wanted)
<1> DEFINE U == {t \in RunType : Meets(t, wanted)}
<1>1. runs \in Seq(RunType) /\ began \in Seq(RunType)
  BY RunParts DEF Walked
<1>2. There \in Seq(U) /\ Wished \in Seq(U)
  BY <1>1, MatchSeq DEF There, Wished
<1>3. U \subseteq RunType /\ \A t \in U : Meets(t, wanted)
  OBVIOUS
<1> HIDE DEF U
<1> QED BY <1>2, <1>3

(* What has been read.                                                     *)
LEMMA ReadTypes ==
    ASSUME Walked
    PROVE  /\ Past \in Nat /\ Skip \in Nat
           /\ walk.got \in Seq(RunType) /\ SubSeq(walk.batch, Skip + 1, Len(walk.batch)) \in Seq(RunType)
           /\ ReadSoFar \in Seq(RunType) /\ Len(ReadSoFar) \in Nat
<1>1. walk.page - 1 \in Nat /\ Limit \in Nat
  BY ClampPositive DEF Walked
<1>2. Past \in Nat
  BY <1>1 DEF Past
<1>3. Skip \in Nat
  <2>1. SIZE \in Nat /\ SIZE > 0
    BY RunsAssumption
  <2>2. PICK q \in Nat, r \in 0..(SIZE - 1) : Past % SIZE = r
    BY <1>2, <2>1, DivParts
  <2> QED BY <2>2 DEF Skip
<1>4. walk.got \in Seq(RunType) /\ walk.batch \in Seq(RunType)
  BY DEF Walked
<1>5. SubSeq(walk.batch, Skip + 1, Len(walk.batch)) \in Seq(RunType)
  <2>1. PICK batch, got, u, s : batch = walk.batch /\ s = Skip /\ u = SubSeq(batch, s + 1, Len(batch))
    OBVIOUS
  <2>2. batch \in Seq(RunType) /\ s \in Nat /\ Len(batch) \in Nat /\ Len(batch) <= Len(batch)
    BY <1>3, <1>4, <2>1
  <2>3. u \in Seq(RunType)
    BY ONLY <2>1, <2>2, Part
  <2> QED BY ONLY <2>1, <2>3
<1>6. ReadSoFar \in Seq(RunType) /\ Len(ReadSoFar) \in Nat
  BY <1>4, <1>5 DEF ReadSoFar
<1> QED BY <1>2, <1>3, <1>4, <1>5, <1>6

(* A run that starts moves all of them on.                                 *)
LEMMA StartKept ==
    ASSUME WalkInv, NEW run \in RunType, Start(run)
    PROVE  WalkInv'
<1>1. /\ stage \in {"ask", "read"} /\ runs' = <<run>> \o runs
      /\ UNCHANGED <<tree, broken, wanted, walk, began, stage>>
  BY DEF Start
<1>2. runs \in Seq(RunType) /\ began \in Seq(RunType) /\ Hosted
  BY RunParts DEF WalkInv, Walked
<1>3. runs' \in Seq(RunType) /\ Len(runs') = Len(runs) + 1 /\ Len(runs) \in Nat /\ Len(began) \in Nat
  <2>1. <<run>> \in Seq(RunType) /\ Len(<<run>>) = 1
    OBVIOUS
  <2>2. Len(runs') = Len(<<run>>) + Len(runs)
    BY <1>1, <1>2, <2>1, ConcatProperties
  <2>3. runs' \in Seq(RunType) /\ Len(runs) \in Nat /\ Len(began) \in Nat
    BY <1>1, <1>2, <2>1, ConcatProperties
  <2> QED BY <2>1, <2>2, <2>3
<1>4. Walked'
  <2>1. Hosted'
    BY <1>1, <1>2, <1>3 DEF Hosted, RunType, Dirs
  <2> QED BY <1>1, <1>2, <2>1 DEF WalkInv, Walked, RunType
<1>5. Wished' = Wished /\ There' = Matched(run, wanted) \o There /\ Wished \in Seq(RunType) /\ There \in Seq(RunType)
  <2>1. Wished' = Wished /\ There' = Matching(<<run>> \o runs, wanted)
    BY <1>1 DEF Wished, There
  <2>2. There' = Matched(run, wanted) \o There
    BY <1>2, <2>1, MatchMore DEF There
  <2> QED BY <2>1, <2>2, MatchTypes DEF WalkInv
<1>6. PICK one : one = Matched(run, wanted) /\ one \in Seq(RunType) /\ Len(one) \in 0..1
  <2>1. <<run>> \in Seq(RunType) /\ Len(<<run>>) \in 0..1 /\ <<>> \in Seq(RunType) /\ Len(<<>>) \in 0..1
    OBVIOUS
  <2>2. Matched(run, wanted) = <<run>> \/ Matched(run, wanted) = <<>>
    BY Zenon DEF Matched
  <2>3. Matched(run, wanted) \in Seq(RunType) /\ Len(Matched(run, wanted)) \in 0..1
    BY ONLY <2>1, <2>2, Zenon
  <2> QED BY ONLY <2>3, Zenon
<1>7. /\ Len(There') = Len(one) + Len(There) /\ Len(There) \in Nat /\ Len(Wished) \in Nat
      /\ \A k \in 1..Len(There) : There'[Len(one) + k] = There[k]
  <2>1. one \in Seq(RunType) /\ There \in Seq(RunType) /\ There' = one \o There
    BY <1>5, <1>6
  <2>2. Len(There) \in Nat /\ Len(Wished) \in Nat
    BY <1>5
  <2>3. /\ Len(There') = Len(one) + Len(There)
        /\ \A j \in 1..(Len(one) + Len(There)) :
              There'[j] = IF j <= Len(one) THEN one[j] ELSE There[j - Len(one)]
    BY ONLY <2>1, ConcatProperties
  <2>4. ASSUME NEW k \in 1..Len(There) PROVE There'[Len(one) + k] = There[k]
    <3>1. Len(one) \in Nat /\ k \in Nat /\ Len(one) + k \in 1..(Len(one) + Len(There))
          /\ ~(Len(one) + k <= Len(one)) /\ (Len(one) + k) - Len(one) = k
      BY <1>6, <2>2
    <3> QED BY ONLY <2>3, <3>1
  <2> QED BY <2>2, <2>3, <2>4
<1>8. Lead' = Len(one) + Lead /\ Lead \in Nat /\ Lead' \in Nat /\ Lead <= Lead'
  <2>1. Lead \in Nat /\ Lead = Len(There) - Len(Wished) /\ Lead' = Len(There') - Len(Wished)
    BY <1>5 DEF WalkInv, Behind, Lead
  <2> QED BY ONLY <1>6, <1>7, <2>1
<1>9. Behind'
  <2>1. Len(began') <= Len(runs') /\ Len(runs') # Len(began')
    BY <1>1, <1>3 DEF WalkInv, Behind
  <2>2. ASSUME NEW k \in 1..Len(Wished) PROVE There'[Lead' + k] = Wished[k]
    <3>1. There[Lead + k] = Wished[k]
      BY DEF WalkInv, Behind
    <3>2. Lead + k \in 1..Len(There) /\ Lead' + k = Len(one) + (Lead + k)
      <4>1. Lead = Len(There) - Len(Wished)
        BY DEF Lead
      <4> QED BY ONLY <1>6, <1>7, <1>8, <4>1, k \in 1..Len(Wished)
    <3>3. There'[Len(one) + (Lead + k)] = There[Lead + k]
      BY ONLY <1>7, <3>2
    <3> QED BY ONLY <3>1, <3>2, <3>3
  <2> QED BY <1>5, <1>8, <2>1, <2>2 DEF Behind
<1>10. Paged'
  <2>1. Paged
    BY <1>1 DEF WalkInv
  <2>2. Past' = Past /\ Skip' = Skip /\ First' = First /\ ReadSoFar' = ReadSoFar /\ walk' = walk /\ stage' = stage
    BY <1>1 DEF Past, Limit, Skip, First, ReadSoFar
  <2>3. Placed(Wished, Lead', ReadSoFar)
    <3>1. Len(ReadSoFar) \in Nat
      BY ReadTypes DEF WalkInv
    <3>2. Placed(Wished, Lead, ReadSoFar)
      BY <2>1 DEF Paged
    <3>3. Len(ReadSoFar) <= Len(ReadSoFar) /\ \A j \in 1..Len(ReadSoFar) : ReadSoFar[j] = ReadSoFar[j]
      BY ONLY <3>1
    <3> QED BY ONLY <1>7, <1>8, <3>1, <3>2, <3>3, PlacedLess
  <2>4. runs' # began'
    BY <1>1, <1>3 DEF WalkInv, Behind
  <2>5. Proper(ReadSoFar)'
    BY <1>1, <2>1, <2>2, <2>4 DEF Paged, Proper
  <2>6. Wished' = Wished
    BY <1>5
  <2> QED BY <2>1, <2>2, <2>3, <2>5, <2>6, Zenon DEF Paged
<1> QED BY <1>1, <1>4, <1>9, <1>10 DEF WalkInv

(* gh asks for its next page.                                              *)
LEMMA AskKept ==
    ASSUME WalkInv, AskPage
    PROVE  WalkInv'
<1>1. /\ stage = "ask" /\ stage' \in {"failed", "read"}
      /\ walk' = [walk EXCEPT !.upstream = ((walk.page - 1) * Clamp(wanted.limit)) \div SIZE + 1, !.batch = <<>>]
      /\ UNCHANGED <<runs, tree, broken, wanted, began>>
  BY DEF AskPage
<1>2. Walked /\ Behind /\ Paged
  BY <1>1 DEF WalkInv
<1>3. /\ walk' = [page |-> walk.page, upstream |-> First, batch |-> <<>>, got |-> walk.got, total |-> walk.total]
      /\ walk'.page = walk.page /\ walk'.upstream = First /\ walk'.batch = <<>> /\ walk'.got = walk.got
  <2>1. walk = [page |-> walk.page, upstream |-> walk.upstream, batch |-> walk.batch, got |-> walk.got, total |-> walk.total]
    BY <1>2 DEF Walked
  <2>2. walk' = [walk EXCEPT !.upstream = First, !.batch = <<>>]
    BY <1>1 DEF First, Past, Limit
  <2>3. walk' = [page |-> walk.page, upstream |-> First, batch |-> <<>>, got |-> walk.got, total |-> walk.total]
    BY ONLY <2>1, <2>2
  <2> QED BY <2>3
<1>4. First \in Nat
  <2>1. Past \in Nat /\ SIZE \in Nat /\ SIZE > 0
    BY <1>2, ReadTypes, RunsAssumption
  <2>2. PICK q \in Nat, r \in 0..(SIZE - 1) : Past \div SIZE = q
    BY <2>1, DivParts
  <2> QED BY <2>2 DEF First
<1>5. Walked'
  <2>1. Hosted'
    BY <1>1, <1>2 DEF Walked, Hosted, Dirs
  <2>2. walk.page \in Nat \ {0} /\ walk.got \in Seq(RunType) /\ <<>> \in Seq(RunType)
    BY <1>2 DEF Walked
  <2>3. RunType' = RunType
    BY <1>1 DEF RunType
  <2>4. /\ walk'.page \in Nat \ {0} /\ walk'.upstream \in Nat
        /\ walk'.batch \in Seq(RunType') /\ walk'.got \in Seq(RunType')
    BY ONLY <1>3, <1>4, <2>2, <2>3
  <2>5. walk' = [page |-> walk'.page, upstream |-> walk'.upstream, batch |-> walk'.batch, got |-> walk'.got, total |-> walk'.total]
    BY ONLY <1>3
  <2>6. began' \in Seq(RunType') /\ wanted' \in RunQueries /\ stage' \in {"ask", "read", "done", "failed"}
    BY <1>1, <1>2, <2>3 DEF Walked
  <2> QED BY <2>1, <2>4, <2>5, <2>6, Zenon DEF Walked
<1>6. Behind'
  BY <1>1, <1>2 DEF Behind, Lead, There, Wished
<1>7. Paged' /\ stage' # "done"
  <2>1. Past' = Past /\ Skip' = Skip /\ First' = First /\ Wished' = Wished /\ Lead' = Lead
    BY <1>1, <1>3 DEF Past, Limit, Skip, First, Wished, Lead, There
  <2>2. ReadSoFar' = ReadSoFar
    BY <1>1, <1>2, <1>3, <2>1 DEF ReadSoFar, Paged
  <2>3. Placed(Wished, Lead, ReadSoFar)' /\ Proper(ReadSoFar)'
    <3>1. Placed(Wished, Lead, ReadSoFar) /\ Proper(ReadSoFar)
      BY <1>2 DEF Paged
    <3>2. Placed(Wished', Lead', ReadSoFar') <=> Placed(Wished, Lead, ReadSoFar)
      BY <2>1, <2>2, Zenon
    <3>3. Proper(ReadSoFar)'
      BY <1>1, <2>1, <2>2, <3>1 DEF Proper
    <3> QED BY <3>1, <3>2, <3>3, Zenon
  <2>4. Len(walk'.batch) = 0 /\ First <= First /\ (First - First) * SIZE = 0
    BY <1>3, <1>4, RunsAssumption
  <2>5. Len(walk'.got) = Past' /\ \A j \in 1..Len(walk'.got) : walk'.got[j].status \in Native
    BY <1>2, <1>3, <2>1 DEF Paged
  <2>6. /\ stage' = "ask" => walk'.batch = <<>>
        /\ First' <= walk'.upstream /\ Len(walk'.batch) = (walk'.upstream - First') * SIZE
    BY <1>1, <1>3, <2>1, <2>4
  <2>7. stage' # "done"
    BY <1>1
  <2>8. Paged'
    BY <2>3, <2>5, <2>6 DEF Paged
  <2> QED BY <2>7, <2>8
<1> QED BY <1>5, <1>6, <1>7 DEF WalkInv

(* One page of the forge's is read.                                        *)
LEMMA PageRead ==
    ASSUME WalkInv, stage = "read", NEW page, NEW both, NEW f,
           page = SubSeq(There, (walk.upstream - 1) * SIZE + 1,
                         IF walk.upstream * SIZE < Len(There) THEN walk.upstream * SIZE ELSE Len(There)),
           both = walk.batch \o page, f = walk.got \o SubSeq(both, Skip + 1, Len(both))
    PROVE  /\ both \in Seq(RunType) /\ f \in Seq(RunType)
           /\ Placed(Wished, Lead, f) /\ Proper(f)
           /\ page = <<>> \/ ~(walk.upstream * SIZE < Len(There)) => Len(f) >= Len(There)
           /\ walk.upstream * SIZE < Len(There) => Len(both) = (walk.upstream + 1 - First) * SIZE
           /\ Len(both) >= Skip => Len(f) = (Past - Skip) + Len(both)
<1>1. Walked /\ Behind /\ Paged
  BY DEF WalkInv
<1>2. PICK a, b, s, lt : a = (First - 1) * SIZE /\ b = (walk.upstream - 1) * SIZE /\ s = Skip /\ lt = Len(There)
  OBVIOUS
<1>3. SIZE \in Nat /\ SIZE > 0 /\ Past \in Nat /\ walk.upstream \in Nat /\ lt \in Nat
  <2>1. SIZE \in Nat /\ SIZE > 0
    BY RunsAssumption
  <2>2. Past \in Nat /\ Len(There) \in Nat
    BY <1>1, ReadTypes, MatchTypes
  <2>3. walk.upstream \in Nat
    BY <1>1 DEF Walked
  <2> QED BY ONLY <1>2, <2>1, <2>2, <2>3
<1>4. First \in Nat \ {0} /\ s \in 0..(SIZE - 1) /\ Past = a + s /\ a \in Nat
  <2>1. PICK q \in Nat, r \in 0..(SIZE - 1) : Past \div SIZE = q /\ Past % SIZE = r /\ Past = q * SIZE + r
    BY <1>3, DivParts
  <2>2. First = q + 1 /\ First - 1 = q /\ s = r
    BY <1>2, <2>1 DEF First, Skip
  <2>3. a = q * SIZE /\ a \in Nat
    BY ONLY <1>2, <1>3, <2>1, <2>2
  <2> QED BY ONLY <2>1, <2>2, <2>3
<1>5. First <= walk.upstream /\ Len(walk.batch) = (walk.upstream - First) * SIZE /\ Len(walk.got) = Past
  BY <1>1 DEF Paged
<1>6. PICK n \in Nat : n = walk.upstream - First
  BY <1>3, <1>4, <1>5
<1>7. /\ b = a + n * SIZE /\ b \in Nat /\ walk.upstream * SIZE = b + SIZE /\ (walk.upstream + 1 - First) * SIZE = n * SIZE + SIZE
      /\ n * SIZE \in Nat /\ (n = 0 \/ n * SIZE >= SIZE)
  <2>1. PICK q \in Nat : q = First - 1
    BY <1>4
  <2>2. walk.upstream = q + 1 + n
    BY ONLY <1>3, <1>4, <1>6, <2>1
  <2>3. a = q * SIZE
    BY ONLY <1>2, <2>1
  <2>4. b = (q + n) * SIZE
    BY ONLY <1>2, <1>6, <2>1, <2>2
  <2>5. (q + n) * SIZE = q * SIZE + n * SIZE /\ (q + 1 + n) * SIZE = (q + n) * SIZE + SIZE
    BY ONLY <1>3, <1>6, <2>1
  <2>6. walk.upstream + 1 - First = n + 1 /\ (n + 1) * SIZE = n * SIZE + SIZE
    BY ONLY <1>3, <1>4, <1>6
  <2>7. n * SIZE \in Nat /\ q * SIZE \in Nat /\ (n = 0 \/ n * SIZE >= SIZE)
    <3>1. CASE n = 0
      BY ONLY <1>3, <2>1, <3>1
    <3>2. CASE n # 0
      <4>1. PICK m \in Nat : n = m + 1
        <5>1. n - 1 \in Nat /\ n = (n - 1) + 1
          BY ONLY <1>6, <3>2
        <5> QED BY ONLY <5>1
      <4>2. n * SIZE = m * SIZE + SIZE /\ m * SIZE \in Nat /\ q * SIZE \in Nat
        BY ONLY <1>3, <2>1, <4>1
      <4> QED BY ONLY <1>3, <4>2
    <3> QED BY ONLY <3>1, <3>2
  <2> QED BY ONLY <1>3, <2>2, <2>3, <2>4, <2>5, <2>6, <2>7
<1>8. a <= b /\ (b = a \/ b - a >= SIZE) /\ Len(walk.batch) = b - a
  <2>1. PICK m \in Nat : m = n * SIZE
    BY <1>7
  <2>2. b = a + m /\ Len(walk.batch) = m /\ (m = 0 \/ m >= SIZE)
    <3>1. n = 0 => m = 0
      BY ONLY <1>3, <2>1
    <3>2. (walk.upstream - First) * SIZE = n * SIZE
      BY ONLY <1>6
    <3> QED BY ONLY <1>5, <1>7, <2>1, <3>1, <3>2
  <2> QED BY ONLY <1>3, <1>4, <2>1, <2>2
<1>9. PICK all, batch, got, g :
         all = There /\ batch = walk.batch /\ got = walk.got /\ g = got \o SubSeq(batch, s + 1, Len(batch))
  OBVIOUS
<1>10. all \in Seq(RunType) /\ batch \in Seq(RunType) /\ got \in Seq(RunType) /\ g = ReadSoFar
  BY <1>1, <1>2, <1>9, MatchTypes DEF Walked, ReadSoFar
<1>11. /\ page = SubSeq(all, b + 1, IF b + SIZE < Len(all) THEN b + SIZE ELSE Len(all))
       /\ f = got \o SubSeq(batch \o page, s + 1, Len(batch \o page))
       /\ Len(got) = a + s /\ Len(batch) = b - a
  BY <1>2, <1>4, <1>5, <1>7, <1>8, <1>9
<1>12. /\ page \in Seq(RunType) /\ g \in Seq(RunType) /\ f \in Seq(RunType) /\ Len(g) <= Len(f)
       /\ \A j \in 1..Len(g) : f[j] = g[j]
       /\ \A j \in (Len(g) + 1)..Len(f) : j <= Len(all) /\ f[j] = all[j]
       /\ page = <<>> \/ b + SIZE >= Len(all) => Len(f) >= Len(all)
       /\ b + SIZE < Len(all) => Len(page) = SIZE
       /\ batch \o page \in Seq(RunType)
       /\ Len(batch \o page) >= s => Len(f) = a + Len(batch \o page)
  <2>1. SIZE \in Nat /\ a \in Nat /\ b \in Nat /\ s \in 0..(SIZE - 1)
    BY ONLY <1>3, <1>4, <1>7
  <2>2. /\ all \in Seq(RunType) /\ got \in Seq(RunType) /\ batch \in Seq(RunType)
        /\ a <= b /\ (b = a \/ b - a >= SIZE) /\ Len(got) = a + s /\ Len(batch) = b - a
    BY ONLY <1>8, <1>10, <1>11
  <2>3. /\ page = SubSeq(all, b + 1, IF b + SIZE < Len(all) THEN b + SIZE ELSE Len(all))
        /\ g = got \o SubSeq(batch, s + 1, Len(batch))
        /\ f = got \o SubSeq(batch \o page, s + 1, Len(batch \o page))
    BY ONLY <1>9, <1>11, Zenon
  <2>4. IsPage(RunType, all, got, batch, SIZE, a, b, s, page, g, f)
    BY ONLY <2>1, <2>2, <2>3, Zenon DEF IsPage
  <2> QED BY ONLY <2>4, PageAdds
<1>13. Placed(Wished, Lead, f)
  <2>1. Placed(Wished, Lead, g)
    BY <1>1, <1>10 DEF Paged
  <2>2. Len(Wished) \in Nat /\ Lead \in Nat /\ \A k \in 1..Len(Wished) : all[Lead + k] = Wished[k]
    BY <1>1, <1>9, MatchTypes DEF Behind
  <2>3. Len(g) \in Nat /\ Len(f) \in Nat
    BY ONLY <1>12
  <2>4. \A j \in (Len(g) + 1)..Len(f) : f[j] = all[j]
    BY ONLY <1>12
  <2> QED BY ONLY <1>12, <2>1, <2>2, <2>3, <2>4, PlacedMore
<1>14. Proper(f)
  <2>1. Proper(g)
    BY <1>1, <1>10 DEF Paged
  <2>2. \A j \in 1..Len(all) : Meets(all[j], wanted)
    BY <1>1, <1>9, MatchTypes
  <2>3. runs = began => all = Wished
    BY <1>9 DEF There, Wished
  <2>4. ASSUME NEW j \in 1..Len(f)
        PROVE  Meets(f[j], wanted) /\ (runs = began => j <= Len(Wished) /\ f[j] = Wished[j])
    <3>0. Len(g) \in Nat /\ Len(f) \in Nat /\ Len(all) \in Nat
      BY ONLY <1>10, <1>12
    <3>1. CASE j \in 1..Len(g)
      BY ONLY <1>12, <2>1, <3>1 DEF Proper
    <3>2. CASE j \in (Len(g) + 1)..Len(f)
      <4>1. j <= Len(all) /\ f[j] = all[j] /\ j \in 1..Len(all)
        BY ONLY <1>12, <3>0, <3>2
      <4> QED BY ONLY <2>2, <2>3, <4>1
    <3> QED BY ONLY <3>0, <3>1, <3>2, j \in 1..Len(f)
  <2> QED BY ONLY <2>4 DEF Proper
<1>15. /\ Len(f) = (IF Len(both) >= s THEN Past - s + Len(both) ELSE Len(f))
       /\ walk.upstream * SIZE < Len(There) => Len(both) = (walk.upstream + 1 - First) * SIZE
       /\ page = <<>> \/ ~(walk.upstream * SIZE < Len(There)) => Len(f) >= Len(There)
  <2>1. both = batch \o page /\ Len(all) = lt
    BY <1>2, <1>9
  <2>2. Len(both) \in Nat /\ Len(page) \in Nat /\ Len(batch) \in Nat /\ Len(both) = Len(batch) + Len(page)
    BY ONLY <1>10, <1>12, <2>1, ConcatProperties
  <2>3. Len(both) >= s => Len(f) = Past - s + Len(both)
    BY ONLY <1>4, <1>12, <2>1, <2>2
  <2>4. walk.upstream * SIZE < lt => Len(both) = (walk.upstream + 1 - First) * SIZE
    <3>1. b + SIZE < lt => Len(page) = SIZE
      BY ONLY <1>12, <2>1
    <3>2. Len(batch) = n * SIZE
      BY ONLY <1>4, <1>7, <1>11
    <3> QED BY ONLY <1>7, <2>2, <3>1, <3>2
  <2>5. page = <<>> \/ ~(walk.upstream * SIZE < lt) => Len(f) >= lt
    <3>1. page = <<>> \/ b + SIZE >= lt => Len(f) >= lt
      BY ONLY <1>12, <2>1
    <3> QED BY ONLY <1>3, <1>7, <3>1
  <2> QED BY ONLY <1>2, <2>3, <2>4, <2>5
<1>16. both \in Seq(RunType) /\ s = Skip
  BY ONLY <1>2, <1>9, <1>12, both = walk.batch \o page
<1> QED BY ONLY <1>12, <1>13, <1>14, <1>15, <1>16

(* What GitHub's status or conclusion says of a run is what was asked for. *)
LEMMA StatusMeant ==
    ASSUME NEW st, st # "", NEW x \in Native, x \in NativeOf(st)
    PROVE  st \in {RunStatus(x)[1], RunStatus(x)[2]}
<1>1. PICK e : e = ""
  OBVIOUS
<1>2. st # e
  BY <1>1, Zenon
<1>3. NativeOf(st) = (CASE st = e -> Native \union {"new"}
                        [] st = "queued" -> {"waiting", "blocked", "unknown"}
                        [] st = "in_progress" -> {"running"}
                        [] st = "completed" -> {"success", "failure", "cancelled", "skipped"}
                        [] OTHER -> {st} \cap {"success", "failure", "cancelled", "skipped"})
  BY <1>1, Zenon DEF NativeOf
<1>4. RunStatus(x) = (CASE x \in {"waiting", "blocked", "unknown"} -> <<"queued", e>>
                        [] x = "running" -> <<"in_progress", e>>
                        [] OTHER -> <<"completed", x>>)
  BY <1>1, Zenon DEF RunStatus
<1>5. x \in NativeOf(st) /\ x \in Native
  OBVIOUS
<1> QED BY ONLY <1>2, <1>3, <1>4, <1>5 DEF Native

(* A page of the forge's is read, and with enough of them gh's is answered. *)
LEMMA ReadKept ==
    ASSUME WalkInv, ReadRuns
    PROVE  WalkInv'
<1>1. PICK total, page, both, window, e :
         /\ total = Len(There)
         /\ page = SubSeq(There, (walk.upstream - 1) * SIZE + 1,
                          IF walk.upstream * SIZE < total THEN walk.upstream * SIZE ELSE total)
         /\ both = walk.batch \o page
         /\ e = (IF Skip + Limit < Len(both) THEN Skip + Limit ELSE Len(both))
         /\ window = SubSeq(both, Skip + 1, e)
  OBVIOUS
<1>2. /\ stage = "read"
      /\ \/ /\ page = <<>> \/ Len(both) >= Skip + Limit \/ walk.upstream * SIZE >= total
            /\ \/ (\E i \in DOMAIN window : window[i].status \notin Native) /\ stage' = "failed" /\ UNCHANGED walk
               \/ /\ \A i \in DOMAIN window : window[i].status \in Native
                  /\ stage' = IF walk.page < LastPage(total) THEN "ask" ELSE "done"
                  /\ walk' = [walk EXCEPT !.page = @ + 1, !.batch = <<>>, !.got = @ \o window, !.total = total]
         \/ /\ page # <<>> /\ Len(both) < Skip + Limit /\ walk.upstream * SIZE < total
            /\ stage' = IF walk.upstream + 1 < First + MAX_RUN_PAGES THEN "read" ELSE "failed"
            /\ walk' = [walk EXCEPT !.upstream = @ + 1, !.batch = both]
      /\ UNCHANGED <<runs, tree, broken, wanted, began>>
  <2> DEFINE tt == Len(There)
             pp == SubSeq(There, (walk.upstream - 1) * SIZE + 1, IF walk.upstream * SIZE < tt THEN walk.upstream * SIZE ELSE tt)
             bb == walk.batch \o pp
             ww == SubSeq(bb, Skip + 1, IF Skip + Limit < Len(bb) THEN Skip + Limit ELSE Len(bb))
  <2>1. /\ stage = "read"
        /\ \/ /\ pp = <<>> \/ Len(bb) >= Skip + Limit \/ walk.upstream * SIZE >= tt
              /\ IF \E i \in DOMAIN ww : ww[i].status \notin Native
                 THEN stage' = "failed" /\ UNCHANGED walk
                 ELSE /\ stage' = IF walk.page < LastPage(tt) THEN "ask" ELSE "done"
                      /\ walk' = [walk EXCEPT !.page = @ + 1, !.batch = <<>>, !.got = @ \o ww, !.total = tt]
           \/ /\ pp # <<>> /\ Len(bb) < Skip + Limit /\ walk.upstream * SIZE < tt
              /\ stage' = IF walk.upstream + 1 < First + MAX_RUN_PAGES THEN "read" ELSE "failed"
              /\ walk' = [walk EXCEPT !.upstream = @ + 1, !.batch = bb]
        /\ UNCHANGED <<runs, tree, broken, wanted, began>>
    BY Zenon DEF ReadRuns, There, Skip, Past, Limit, First
  <2>2. tt = total /\ pp = page /\ bb = both /\ ww = window
    BY <1>1
  <2> HIDE DEF tt, pp, bb, ww
  <2>3. /\ stage = "read"
        /\ \/ /\ page = <<>> \/ Len(both) >= Skip + Limit \/ walk.upstream * SIZE >= total
              /\ IF \E i \in DOMAIN window : window[i].status \notin Native
                 THEN stage' = "failed" /\ UNCHANGED walk
                 ELSE /\ stage' = IF walk.page < LastPage(total) THEN "ask" ELSE "done"
                      /\ walk' = [walk EXCEPT !.page = @ + 1, !.batch = <<>>, !.got = @ \o window, !.total = total]
           \/ /\ page # <<>> /\ Len(both) < Skip + Limit /\ walk.upstream * SIZE < total
              /\ stage' = IF walk.upstream + 1 < First + MAX_RUN_PAGES THEN "read" ELSE "failed"
              /\ walk' = [walk EXCEPT !.upstream = @ + 1, !.batch = both]
        /\ UNCHANGED <<runs, tree, broken, wanted, began>>
    BY ONLY <2>1, <2>2
  <2> QED BY ONLY <2>3, Zenon
<1>3. Walked /\ Behind /\ Paged
  BY <1>2 DEF WalkInv
<1>4. PICK f : f = walk.got \o SubSeq(both, Skip + 1, Len(both))
  OBVIOUS
<1>5. /\ both \in Seq(RunType) /\ f \in Seq(RunType)
      /\ Placed(Wished, Lead, f) /\ Proper(f)
      /\ page = <<>> \/ ~(walk.upstream * SIZE < total) => Len(f) >= total
      /\ walk.upstream * SIZE < total => Len(both) = (walk.upstream + 1 - First) * SIZE
      /\ Len(both) >= Skip => Len(f) = (Past - Skip) + Len(both)
  <2>1. /\ WalkInv /\ stage = "read"
        /\ page = SubSeq(There, (walk.upstream - 1) * SIZE + 1,
                         IF walk.upstream * SIZE < Len(There) THEN walk.upstream * SIZE ELSE Len(There))
        /\ both = walk.batch \o page /\ f = walk.got \o SubSeq(both, Skip + 1, Len(both))
    BY <1>1, <1>2, <1>4, Zenon
  <2> QED BY ONLY <1>1, <2>1, PageRead, Zenon
<1>6. /\ Hosted' /\ RunType' = RunType /\ Behind'
      /\ Wished' = Wished /\ There' = There /\ Lead' = Lead /\ Limit' = Limit
  <2>1. Hosted'
    BY <1>2, <1>3 DEF Walked, Hosted, Dirs
  <2>2. RunType' = RunType /\ Wished' = Wished /\ There' = There /\ Limit' = Limit
    BY <1>2 DEF RunType, Wished, There, Limit
  <2>3. Lead' = Lead
    BY <2>2 DEF Lead
  <2>4. Behind'
    BY <1>2, <1>3, <2>2, <2>3 DEF Behind
  <2> QED BY <2>1, <2>2, <2>3, <2>4
<1>7. /\ walk = [page |-> walk.page, upstream |-> walk.upstream, batch |-> walk.batch, got |-> walk.got, total |-> walk.total]
      /\ walk.page \in Nat \ {0} /\ walk.upstream \in Nat /\ walk.got \in Seq(RunType) /\ walk.batch \in Seq(RunType)
  BY <1>3 DEF Walked
<1>8. began' \in Seq(RunType') /\ wanted' \in RunQueries
  BY <1>2, <1>3, <1>6 DEF Walked
<1>9. /\ Limit \in Nat /\ Limit > 0 /\ Past \in Nat /\ Skip \in Nat /\ total \in Nat /\ Len(walk.got) = Past
      /\ Past = (walk.page - 1) * Limit
  BY <1>1, <1>3, ClampPositive, ReadTypes, MatchTypes DEF Paged, Past
<1>10. CASE /\ page # <<>> /\ Len(both) < Skip + Limit /\ walk.upstream * SIZE < total
            /\ stage' = IF walk.upstream + 1 < First + MAX_RUN_PAGES THEN "read" ELSE "failed"
            /\ walk' = [walk EXCEPT !.upstream = @ + 1, !.batch = both]
  <2>1. /\ walk' = [page |-> walk.page, upstream |-> walk.upstream + 1, batch |-> both, got |-> walk.got, total |-> walk.total]
        /\ walk'.page = walk.page /\ walk'.upstream = walk.upstream + 1 /\ walk'.batch = both /\ walk'.got = walk.got
        /\ walk'.total = walk.total
    BY ONLY <1>7, <1>10
  <2>2. walk' = [page |-> walk'.page, upstream |-> walk'.upstream, batch |-> walk'.batch, got |-> walk'.got, total |-> walk'.total]
    BY ONLY <2>1
  <2>3. stage' \in {"read", "failed"}
    BY <1>10
  <2>4. /\ walk'.page \in Nat \ {0} /\ walk'.upstream \in Nat
        /\ walk'.batch \in Seq(RunType') /\ walk'.got \in Seq(RunType')
    BY ONLY <1>5, <1>6, <1>7, <2>1
  <2>5. Walked'
    BY <1>6, <1>8, <2>2, <2>3, <2>4, Zenon DEF Walked
  <2>6. Past' = Past /\ Skip' = Skip /\ First' = First
    BY <1>6, <2>1 DEF Past, Skip, First
  <2>7. ReadSoFar' = f
    BY <1>4, <2>1, <2>6 DEF ReadSoFar
  <2>8. Placed(Wished, Lead, ReadSoFar)' /\ Proper(ReadSoFar)'
    <3>1. Placed(Wished', Lead', ReadSoFar') <=> Placed(Wished, Lead, f)
      BY <1>6, <2>7, Zenon
    <3>2. Proper(ReadSoFar)'
      BY <1>2, <1>5, <1>6, <2>7 DEF Proper
    <3> QED BY <1>5, <3>1, <3>2, Zenon
  <2>9. Len(walk'.got) = Past' /\ \A j \in 1..Len(walk'.got) : walk'.got[j].status \in Native
    BY <1>3, <2>1, <2>6 DEF Paged
  <2>10. stage' # "ask" /\ stage' # "done"
    BY <2>3
  <2>11. First' <= walk'.upstream /\ Len(walk'.batch) = (walk'.upstream - First') * SIZE
    <3>1. First <= walk.upstream
      BY <1>2, <1>3 DEF Paged
    <3>2. First \in Nat
      <4>1. SIZE \in Nat /\ SIZE > 0
        BY RunsAssumption
      <4>2. PICK q \in Nat, r \in 0..(SIZE - 1) : Past \div SIZE = q
        BY <1>9, <4>1, DivParts
      <4> QED BY <4>2 DEF First
    <3>3. Len(walk'.batch) = (walk'.upstream - First') * SIZE
      <4>1. Len(walk'.batch) = (walk.upstream + 1 - First) * SIZE
        BY <1>5, <1>10, <2>1
      <4>2. walk'.upstream = walk.upstream + 1 /\ First' = First
        BY ONLY <2>1, <2>6, Zenon
      <4>3. PICK u, v, n, k : u = walk'.upstream /\ v = First' /\ n = Len(walk'.batch) /\ k = walk.upstream
        OBVIOUS
      <4>4. u = k + 1 /\ v = First /\ n = (k + 1 - First) * SIZE
        BY ONLY <4>1, <4>2, <4>3
      <4>5. k \in Nat /\ SIZE \in Nat
        BY <1>7, <4>3, RunsAssumption
      <4>6. n = (u - v) * SIZE
        BY ONLY <3>2, <4>4, <4>5
      <4> QED BY ONLY <4>3, <4>6
    <3>4. First <= walk.upstream + 1
      BY ONLY <1>7, <3>1, <3>2
    <3> QED BY <2>1, <2>6, <3>3, <3>4
  <2>12. Paged'
    BY <2>8, <2>9, <2>10, <2>11 DEF Paged
  <2> QED BY <1>6, <2>5, <2>10, <2>12 DEF WalkInv
<1>11. CASE stage' = "failed" /\ UNCHANGED walk
  <2>1. Walked'
    BY <1>6, <1>7, <1>8, <1>11, Zenon DEF Walked
  <2> QED BY <1>6, <1>11, <2>1 DEF WalkInv
<1>12. CASE /\ page = <<>> \/ Len(both) >= Skip + Limit \/ walk.upstream * SIZE >= total
            /\ \A i \in DOMAIN window : window[i].status \in Native
            /\ stage' = IF walk.page < LastPage(total) THEN "ask" ELSE "done"
            /\ walk' = [walk EXCEPT !.page = @ + 1, !.batch = <<>>, !.got = @ \o window, !.total = total]
  <2>1. PICK w : w = walk.got \o window
    OBVIOUS
  <2>2. /\ walk' = [page |-> walk.page + 1, upstream |-> walk.upstream, batch |-> <<>>, got |-> w, total |-> total]
        /\ walk'.page = walk.page + 1 /\ walk'.upstream = walk.upstream /\ walk'.batch = <<>> /\ walk'.got = w
        /\ walk'.total = total
    BY ONLY <1>7, <1>12, <2>1
  <2>3. /\ window \in Seq(RunType) /\ w \in Seq(RunType) /\ Len(f) \in Nat
        /\ Len(w) = IF Past + Limit < Len(f) THEN Past + Limit ELSE Len(f)
        /\ \A j \in 1..Len(w) : w[j] = f[j]
    <3>1. PICK got, s : got = walk.got /\ s = Skip
      OBVIOUS
    <3>2. /\ got \in Seq(RunType) /\ both \in Seq(RunType) /\ s \in Nat /\ Limit \in Nat /\ Limit > 0
          /\ f = got \o SubSeq(both, s + 1, Len(both))
          /\ window = SubSeq(both, s + 1, IF s + Limit < Len(both) THEN s + Limit ELSE Len(both))
          /\ w = got \o window /\ Len(got) = Past
      BY <1>1, <1>4, <1>5, <1>7, <1>9, <2>1, <3>1
    <3>3. /\ window \in Seq(RunType) /\ w \in Seq(RunType) /\ f \in Seq(RunType) /\ Len(f) \in Nat
          /\ Len(w) = IF Len(got) + Limit < Len(f) THEN Len(got) + Limit ELSE Len(f)
          /\ \A j \in 1..Len(w) : w[j] = f[j]
      <4>1. IsWindow(RunType, got, both, s, Limit, f, window, w)
        BY ONLY <3>2 DEF IsWindow
      <4> QED BY ONLY <4>1, WindowIs
    <3> QED BY ONLY <3>2, <3>3
  <2>4. Len(w) \in Nat /\ Len(w) <= Len(f)
    BY ONLY <1>9, <2>3
  <2>5. Placed(Wished, Lead, w)
    <3>1. Len(Wished) \in Nat /\ Lead \in Nat /\ Lead <= Lead
      BY <1>3, MatchTypes DEF Behind
    <3> QED BY ONLY <1>5, <2>3, <2>4, <3>1, PlacedLess
  <2>6. Proper(w)
    <3>1. \A j \in 1..Len(w) : j \in 1..Len(f)
      BY ONLY <2>3, <2>4
    <3> QED BY ONLY <1>5, <2>3, <3>1 DEF Proper
  <2>7. \A j \in 1..Len(w) : w[j].status \in Native
    <3>1. \A j \in 1..Len(walk.got) : walk.got[j].status \in Native
      BY <1>3 DEF Paged
    <3>2. \A j \in 1..Len(window) : window[j].status \in Native
      <4>1. DOMAIN window = 1..Len(window)
        BY <2>3
      <4> QED BY ONLY <1>12, <4>1
    <3>3. /\ Len(walk.got) \in Nat /\ Len(window) \in Nat /\ Len(w) = Len(walk.got) + Len(window)
          /\ \A j \in 1..Len(w) : w[j] = IF j <= Len(walk.got) THEN walk.got[j] ELSE window[j - Len(walk.got)]
      <4>1. PICK got : got = walk.got
        OBVIOUS
      <4>2. got \in Seq(RunType) /\ window \in Seq(RunType) /\ w = got \o window
        BY ONLY <1>7, <2>1, <2>3, <4>1
      <4>3. /\ Len(got) \in Nat /\ Len(window) \in Nat /\ Len(w) = Len(got) + Len(window)
            /\ \A j \in 1..Len(w) : w[j] = IF j <= Len(got) THEN got[j] ELSE window[j - Len(got)]
        BY ONLY <4>2, Cat
      <4> QED BY ONLY <4>1, <4>3
    <3>4. ASSUME NEW j \in 1..Len(w) PROVE w[j].status \in Native
      <4>1. CASE j <= Len(walk.got)
        <5>1. j \in 1..Len(walk.got)
          BY ONLY <3>3, <4>1, j \in 1..Len(w)
        <5> QED BY ONLY <3>1, <3>3, <4>1, <5>1, j \in 1..Len(w)
      <4>2. CASE ~(j <= Len(walk.got))
        <5>1. j - Len(walk.got) \in 1..Len(window)
          BY ONLY <3>3, <4>2, j \in 1..Len(w)
        <5>2. w[j] = window[j - Len(walk.got)]
          BY ONLY <3>3, <4>2, j \in 1..Len(w)
        <5> QED BY ONLY <3>2, <5>1, <5>2
      <4> QED BY ONLY <4>1, <4>2
    <3> QED BY <3>4
  <2>8. page = <<>> \/ ~(walk.upstream * SIZE < total) \/ Len(both) >= Skip + Limit
    <3>1. walk.upstream * SIZE \in Int
      BY <1>7, RunsAssumption
    <3> QED BY ONLY <1>9, <1>12, <3>1
  <2>9. Len(f) >= total \/ Len(f) >= Past + Limit
    <3>1. Len(both) \in Nat
      BY <1>5
    <3> QED BY ONLY <1>5, <1>9, <2>3, <2>8, <3>1
  <2>10. Past' = Past + Limit /\ Past + Limit = walk.page * Limit
    <3>1. Past' = walk.page * Limit
      <4>1. (walk.page + 1) - 1 = walk.page
        BY <1>7
      <4> QED BY <1>6, <2>2, <4>1 DEF Past
    <3>2. PICK p \in Nat : walk.page = p + 1
      <4>1. walk.page - 1 \in Nat /\ walk.page = (walk.page - 1) + 1
        BY ONLY <1>7
      <4> QED BY ONLY <4>1
    <3>3. Past = p * Limit /\ walk.page * Limit = p * Limit + Limit
      <4>1. (p + 1) - 1 = p /\ (p + 1) * Limit = p * Limit + Limit
        BY ONLY <1>9
      <4> QED BY ONLY <1>9, <3>2, <4>1
    <3> QED BY ONLY <1>9, <3>1, <3>3
  <2>11. stage' \in {"ask", "done"}
    BY <1>12
  <2>12. Walked'
    <3>1. walk' = [page |-> walk'.page, upstream |-> walk'.upstream, batch |-> walk'.batch, got |-> walk'.got, total |-> walk'.total]
      BY ONLY <2>2
    <3>2. /\ walk'.page \in Nat \ {0} /\ walk'.upstream \in Nat
          /\ walk'.batch \in Seq(RunType') /\ walk'.got \in Seq(RunType')
      <4>1. <<>> \in Seq(RunType)
        OBVIOUS
      <4> QED BY ONLY <1>6, <1>7, <2>2, <2>3, <4>1
    <3> QED BY <1>6, <1>8, <2>11, <3>1, <3>2, Zenon DEF Walked
  <2>13. ASSUME stage' = "ask" PROVE Paged'
    <3>1. total > Past + Limit
      <4>1. walk.page < (total + Limit - 1) \div Limit
        BY <1>12, <2>11, <2>13 DEF LastPage, Limit
      <4>2. walk.page \in Nat
        BY <1>7
      <4>3. walk.page * Limit < total
        BY ONLY <1>9, <4>1, <4>2, PageBefore
      <4> QED BY ONLY <2>10, <4>3, <1>9
    <3>2. Len(w) = Past'
      BY ONLY <1>9, <2>3, <2>9, <2>10, <3>1
    <3>3. ReadSoFar' = w
      <4>1. SubSeq(<<>>, Skip' + 1, Len(<<>>)) = <<>>
        <5>1. Skip' \in Nat
          <6>1. Walked'
            BY <2>12
          <6>2. SIZE \in Nat /\ SIZE > 0 /\ Past' \in Nat
            BY <1>9, <2>10, RunsAssumption
          <6>3. PICK q \in Nat, r \in 0..(SIZE - 1) : Past' % SIZE = r
            BY ONLY <6>2, DivParts
          <6> QED BY <6>3 DEF Skip
        <5> QED BY ONLY <5>1
      <4>2. w \o <<>> = w
        BY <2>3, ConcatEmptySeq
      <4> QED BY <2>2, <4>1, <4>2 DEF ReadSoFar
    <3>4. Placed(Wished, Lead, ReadSoFar)' /\ Proper(ReadSoFar)'
      <4>1. Placed(Wished', Lead', ReadSoFar') <=> Placed(Wished, Lead, w)
        BY <1>6, <3>3, Zenon
      <4>2. Proper(ReadSoFar)'
        BY <1>2, <1>6, <2>6, <3>3 DEF Proper
      <4> QED BY <2>5, <4>1, <4>2, Zenon
    <3>5. stage' # "read"
      BY <2>13
    <3> QED BY <2>2, <2>7, <3>2, <3>4, <3>5 DEF Paged
  <2>14. ASSUME stage' = "done" PROVE RunsListed'
    <3>1. total <= Past + Limit
      <4>1. ~(walk.page < (total + Limit - 1) \div Limit)
        BY <1>12, <2>14 DEF LastPage, Limit
      <4>2. walk.page \in Nat
        BY <1>7
      <4>3. total <= walk.page * Limit
        BY ONLY <1>9, <4>1, <4>2, LastReaches
      <4> QED BY ONLY <2>10, <4>3
    <3>2. Len(w) >= total
      BY ONLY <1>9, <2>3, <2>9, <3>1
    <3>3. Wished \in Seq(RunType) /\ Len(Wished) \in Nat /\ Lead \in Nat /\ total = Lead + Len(Wished)
      <4>1. Wished \in Seq(RunType) /\ Len(Wished) \in Nat /\ Lead \in Nat
        BY <1>3, MatchTypes DEF Behind
      <4>2. Lead = total - Len(Wished)
        BY <1>1 DEF Lead
      <4> QED BY ONLY <1>9, <4>1, <4>2
    <3>4. \A r : Times(r, w) >= Times(r, Wished)
      <4>1. Lead + Len(Wished) <= Len(w)
        BY ONLY <2>4, <3>2, <3>3
      <4> QED BY ONLY <2>3, <2>5, <3>3, <4>1, PlacedTimes
    <3>5. ASSUME runs = began PROVE w = Wished
      <4>1. There = Wished /\ total = Len(Wished)
        BY <1>1, <3>5 DEF There, Wished
      <4>2. \A j \in 1..Len(w) : j <= Len(Wished) /\ w[j] = Wished[j]
        BY <2>6, <3>5 DEF Proper
      <4>3. Len(w) = Len(Wished)
        <5>1. CASE Len(w) = 0
          BY ONLY <3>2, <3>3, <4>1, <5>1
        <5>2. CASE Len(w) # 0
          <6>1. Len(w) \in 1..Len(w)
            BY ONLY <2>4, <5>2
          <6> QED BY ONLY <2>4, <3>2, <3>3, <4>1, <4>2, <6>1
        <5> QED BY ONLY <5>1, <5>2
      <4> QED BY ONLY <2>3, <3>3, <4>2, <4>3, SeqEqual
    <3>6. ASSUME NEW i \in DOMAIN w
          PROVE  \/ wanted.status = ""
                 \/ wanted.status \in {RunStatus(w[i].status)[1], RunStatus(w[i].status)[2]}
      <4>1. i \in 1..Len(w)
        BY <2>3
      <4>2. w[i].status \in Native /\ w[i].status \in NativeOf(wanted.status)
        BY <2>6, <2>7, <4>1, Zenon DEF Proper, Meets
      <4> QED BY <4>2, StatusMeant, Zenon
    <3>7. \A r : Times(r, Matching(began, wanted)) = Times(r, Wished)
      BY DEF Wished
    <3>8. \A r \in {began'[i] : i \in DOMAIN began'} : Times(r, walk'.got) >= Times(r, Matching(began', wanted'))
      BY <1>2, <2>2, <3>4 DEF Wished
    <3>9. runs' = began' => walk'.got = Matching(began', wanted')
      BY <1>2, <2>2, <3>5 DEF Wished
    <3>10. \A i \in DOMAIN walk'.got :
              wanted'.status = ""
              \/ wanted'.status \in {RunStatus(walk'.got[i].status)[1], RunStatus(walk'.got[i].status)[2]}
      BY <1>2, <2>2, <3>6, Zenon
    <3> QED BY <3>8, <3>9, <3>10, Zenon DEF RunsListed
  <2>15. stage' # "read"
    BY <2>11
  <2> QED BY <1>6, <2>11, <2>12, <2>13, <2>14, <2>15 DEF WalkInv
<1> QED BY <1>2, <1>10, <1>11, <1>12

(* Nothing is read at first.                                               *)
LEMMA WalkStarts ==
    ASSUME RunsInit
    PROVE  WalkInv
<1>1. /\ Hosted /\ wanted \in RunQueries /\ began = runs /\ stage = "ask"
      /\ walk = [page |-> 1, upstream |-> 1, batch |-> <<>>, got |-> <<>>, total |-> 0]
  BY DEF RunsInit
<1>2. /\ walk.page = 1 /\ walk.upstream = 1 /\ walk.batch = <<>> /\ walk.got = <<>> /\ walk.total = 0
  BY ONLY <1>1
<1>3. Walked
  <2>1. runs \in Seq(RunType) /\ <<>> \in Seq(RunType)
    BY <1>1, RunParts
  <2>2. walk = [page |-> walk.page, upstream |-> walk.upstream, batch |-> walk.batch, got |-> walk.got, total |-> walk.total]
    BY ONLY <1>1
  <2>3. walk.page \in Nat \ {0} /\ walk.upstream \in Nat /\ stage \in {"ask", "read", "done", "failed"}
    BY ONLY <1>1, <1>2
  <2> QED BY <1>1, <1>2, <2>1, <2>2, <2>3, Zenon DEF Walked
<1>4. There = Wished /\ Lead = 0 /\ Len(There) \in Nat
  <2>1. There = Wished
    BY <1>1 DEF There, Wished
  <2> QED BY <1>3, <2>1, MatchTypes DEF Lead
<1>5. Behind
  <2>1. Len(runs) \in Nat
    BY <1>1, RunParts
  <2>2. \A k \in 1..Len(Wished) : There[Lead + k] = Wished[k]
    BY <1>4
  <2> QED BY <1>1, <1>4, <2>1, <2>2 DEF Behind
<1>6. Paged
  <2>1. Past = 0
    <3>1. (1 - 1) * Limit = 0
      BY <1>3, ClampPositive
    <3> QED BY <1>2, <3>1 DEF Past
  <2>2. ReadSoFar = <<>>
    <3>1. Skip \in Nat
      BY <1>3, ReadTypes
    <3>2. SubSeq(<<>>, Skip + 1, Len(<<>>)) = <<>> /\ <<>> \o <<>> = <<>>
      BY ONLY <3>1
    <3> QED BY <1>2, <3>2 DEF ReadSoFar
  <2>3. Placed(Wished, Lead, <<>>)
    <3>1. Passed(Wished, Lead, Len(<<>>)) = {}
      BY <1>4 DEF Passed
    <3>2. PlacedBy([k \in {} |-> 0], Wished, Lead, <<>>)
      BY <3>1 DEF PlacedBy
    <3> QED BY <3>2 DEF Placed
  <2>4. Proper(<<>>)
    BY DEF Proper
  <2> QED BY <1>1, <1>2, <2>1, <2>2, <2>3, <2>4 DEF Paged
<1> QED BY <1>1, <1>3, <1>5, <1>6 DEF WalkInv

(* Every step keeps the invariant.                                         *)
LEMMA WalkStep ==
    ASSUME WalkInv, [RunsNext]_runVars
    PROVE  WalkInv'
<1>1. CASE AskPage
  BY <1>1, AskKept
<1>2. CASE ReadRuns
  BY <1>2, ReadKept
<1>3. ASSUME NEW i \in DOMAIN began, Start([began[i] EXCEPT !.commit = Main]) PROVE WalkInv'
  <2>1. began[i] \in RunType /\ Main \in DOMAIN tree
    <3>1. began \in Seq(RunType) /\ Hosted
      BY DEF WalkInv, Walked
    <3>2. began[i] \in RunType
      BY <3>1
    <3> QED BY <3>1, <3>2 DEF Hosted
  <2>2. [began[i] EXCEPT !.commit = Main] \in RunType
    BY <2>1 DEF RunType
  <2> QED BY <1>3, <2>2, StartKept
<1>4. CASE UNCHANGED runVars
  <2>1. UNCHANGED <<runs, tree, broken, wanted, walk, began, stage>>
    BY <1>4 DEF runVars
  <2>2. Walked' <=> Walked
    BY <2>1 DEF Walked, Hosted, RunType, Dirs
  <2>3. Behind' <=> Behind
    BY <2>1 DEF Behind, Lead, There, Wished
  <2>4. Paged' <=> Paged
    <3>1. /\ Past' = Past /\ First' = First /\ ReadSoFar' = ReadSoFar /\ Wished' = Wished /\ Lead' = Lead
      BY <2>1 DEF Past, First, Limit, Skip, ReadSoFar, Wished, Lead, There
    <3>2. Placed(Wished, Lead, ReadSoFar)' <=> Placed(Wished, Lead, ReadSoFar)
      BY <3>1, Zenon
    <3>3. Proper(ReadSoFar)' <=> Proper(ReadSoFar)
      BY <2>1, <3>1 DEF Proper
    <3> QED BY <2>1, <3>1, <3>2, <3>3, Zenon DEF Paged
  <2>5. RunsListed' <=> RunsListed
    BY <2>1, Zenon DEF RunsListed
  <2> QED BY <2>1, <2>2, <2>3, <2>4, <2>5 DEF WalkInv
<1> QED BY <1>1, <1>2, <1>3, <1>4 DEF RunsNext

(* A walk along the `next` links that ends has every run there was when it *)
(* began, of the status asked for, whatever the sizes of the pages of gh   *)
(* and of the forge, however many runs there are and start meanwhile; and  *)
(* with none starting each once, in order.  (runs.rs list, actions.rs      *)
(* action_runs.)                                                           *)
THEOREM ListsEveryRun == RunsSpec => []RunsListed
<1>1. RunsInit => WalkInv
  BY WalkStarts
<1>2. WalkInv /\ [RunsNext]_runVars => WalkInv'
  BY WalkStep
<1>3. WalkInv => RunsListed
  <2>1. stage # "done" => RunsListed
    BY DEF RunsListed
  <2> QED BY <2>1 DEF WalkInv
<1> QED BY <1>1, <1>2, <1>3, PTL DEF RunsSpec

(***************************************************************************)
(* Searches and lists                                                      *)
(***************************************************************************)

(* What has been read of a search, term by term.                           *)
IsReading(f, terms, n) ==
    f = [m \in 0..n |-> IF m = 0 THEN NoQuery ELSE ReadTerm(f[m - 1], terms[m])]

(* The terms can be read one after the other, however many there are.      *)
LEMMA ReadingExists ==
    ASSUME NEW terms, NEW n \in Nat
    PROVE  \E f : IsReading(f, terms, n)
<1> DEFINE Bad == {m \in Nat : ~ \E f : IsReading(f, terms, m)}
<1>1. ASSUME Bad # {} PROVE FALSE
  <2>1. PICK m \in Bad : \A l \in Bad : m <= l
    BY <1>1, LeastOf
  <2>2. CASE m = 0
    <3>1. IsReading([l \in 0..0 |-> NoQuery], terms, 0)
      BY DEF IsReading
    <3> QED BY <2>1, <2>2, <3>1
  <2>3. CASE m # 0
    <3>1. m \in Nat /\ m - 1 \in Nat /\ m - 1 \notin Bad
      BY <2>1, <2>3
    <3>2. PICK f : IsReading(f, terms, m - 1)
      BY <3>1
    <3> DEFINE g == [l \in 0..m |-> IF l = m THEN ReadTerm(f[m - 1], terms[m]) ELSE f[l]]
    <3>3. \A l \in 0..m : g[l] = IF l = 0 THEN NoQuery ELSE ReadTerm(g[l - 1], terms[l])
      <4> TAKE l \in 0..m
      <4>1. CASE l = m
        <5>1. g[m] = ReadTerm(f[m - 1], terms[m]) /\ g[m - 1] = f[m - 1]
          BY <3>1
        <5> QED BY <4>1, <5>1, <2>3
      <4>2. CASE l # m
        <5>1. l \in 0..(m - 1) /\ g[l] = f[l]
          BY <3>1, <4>2
        <5>2. f[l] = IF l = 0 THEN NoQuery ELSE ReadTerm(f[l - 1], terms[l])
          BY <3>2, <5>1 DEF IsReading
        <5>3. l # 0 => g[l - 1] = f[l - 1]
          BY <3>1, <5>1
        <5> QED BY <5>1, <5>2, <5>3
      <4> QED BY <4>1, <4>2
    <3>4. g = [l \in 0..m |-> IF l = 0 THEN NoQuery ELSE ReadTerm(g[l - 1], terms[l])]
      <4>1. g = [l \in 0..m |-> g[l]]
        OBVIOUS
      <4> HIDE DEF g
      <4> QED BY <3>3, <4>1
    <3>5. IsReading(g, terms, m)
      BY <3>4 DEF IsReading
    <3> QED BY <2>1, <3>5
  <2> QED BY <2>2, <2>3
<1> QED BY <1>1

(* So Read has a value at each term, made from the one before it.          *)
LEMMA ReadIs ==
    ASSUME NEW terms, Len(terms) \in Nat
    PROVE  \E f : /\ f[0] = NoQuery /\ Read(terms) = f[Len(terms)]
                  /\ \A n \in 1..Len(terms) : f[n] = ReadTerm(f[n - 1], terms[n])
<1> DEFINE r == CHOOSE f : IsReading(f, terms, Len(terms))
<1>1. IsReading(r, terms, Len(terms))
  BY ReadingExists
<1>2. Read(terms) = r[Len(terms)]
  BY DEF Read, IsReading
<1> HIDE DEF r
<1>3. r[0] = NoQuery /\ \A n \in 1..Len(terms) : r[n] = ReadTerm(r[n - 1], terms[n])
  BY <1>1 DEF IsReading
<1> QED BY <1>2, <1>3

(***************************************************************************)
(* A search that is accepted holds what each of its terms says, and no     *)
(* more than they say.                                                     *)
(***************************************************************************)

(* What a term accepted says of the search, and what a search says that    *)
(* some term said.                                                         *)
Fields == {"repo", "kind", "state", "author", "assignee", "mention", "labels", "words", "base",
           "head", "reviewer", "title", "sort", "depth", "bad"}
Handled == {"repo", "type", "state", "author", "assignee", "review-requested", "label", "head", "base", "in",
            "sort", "word", "quoted", "open", "close"}

Holds(q, t) ==
    /\ t.key \in Handled
    /\ t.key = "repo" => q.repo = t.value
    /\ t.key = "type" => q.kind = t.value /\ t.value \in {"pr", "issue"}
    /\ t.key = "state" => q.state = t.value /\ t.value \in {"open", "closed", "merged"}
    /\ t.key = "author" => q.author = Login(t.value)
    /\ t.key = "assignee" => q.assignee = Login(t.value)
    /\ t.key = "review-requested" => q.reviewer = Login(t.value)
    /\ t.key = "label" => t.value \in q.labels
    /\ t.key = "head" => q.head = t.value
    /\ t.key = "base" => q.base = t.value
    /\ t.key = "in" => q.title /\ t.value = "title"
    /\ t.key = "sort" => t.value \in {"created-desc", "updated-asc"}
    /\ t.key \in {"word", "quoted"} => t.value \in q.words

Asked(q, T) ==
    /\ q.mention = Absent
    /\ q.kind # Absent => \E t \in T : t.key = "type" /\ t.value = q.kind
    /\ q.state # "all" => \E t \in T : t.key = "state" /\ t.value = q.state
    /\ q.author # Absent => \E t \in T : t.key = "author" /\ Login(t.value) = q.author
    /\ q.assignee # Absent => \E t \in T : t.key = "assignee" /\ Login(t.value) = q.assignee
    /\ q.reviewer # Absent => \E t \in T : t.key = "review-requested" /\ Login(t.value) = q.reviewer
    /\ q.head # Absent => \E t \in T : t.key = "head" /\ t.value = q.head
    /\ q.base # Absent => \E t \in T : t.key = "base" /\ t.value = q.base
    /\ \A l \in q.labels : \E t \in T : t.key = "label" /\ t.value = l
    /\ \A w \in q.words : \E t \in T : t.key \in {"word", "quoted"} /\ t.value = w
    /\ q.title => \E t \in T : t = Term("in", "title")

Shaped(q) == DOMAIN q = Fields /\ q.bad \in BOOLEAN /\ q.title \in BOOLEAN
             /\ q = [f \in Fields |-> q[f]]
Faithful(q, T) == ~q.bad => Asked(q, T) /\ \A t \in T : Holds(q, t)

(* A login given is one, @me included.                                     *)
LEMMA LoginIs == ASSUME NEW v, v # Absent PROVE Login(v) # Absent
BY ListAssumption DEF Login

(* What one term does to a search it leaves acceptable.                    *)
Does(q, t, r) ==
    /\ t.key \in Handled
    /\ t.key = "repo" => r = [q EXCEPT !.repo = t.value] /\ q.repo = Absent
    /\ t.key = "type" => r = [q EXCEPT !.kind = t.value, !.bad = FALSE] /\ q.kind \in {Absent, t.value}
                         /\ t.value \in {"pr", "issue"}
    /\ t.key = "state" => r = [q EXCEPT !.state = t.value, !.bad = FALSE] /\ q.state \in {"all", t.value}
                          /\ t.value \in {"open", "closed", "merged"}
    /\ t.key = "author" => r = [q EXCEPT !.author = Login(t.value)] /\ q.author = Absent
    /\ t.key = "assignee" => r = [q EXCEPT !.assignee = Login(t.value)] /\ q.assignee = Absent
    /\ t.key = "review-requested" => r = [q EXCEPT !.reviewer = Login(t.value)] /\ q.reviewer = Absent
    /\ t.key = "label" => r = [q EXCEPT !.labels = @ \union {t.value}]
    /\ t.key = "head" => r = [q EXCEPT !.head = t.value] /\ q.head = Absent
    /\ t.key = "base" => r = [q EXCEPT !.base = t.value] /\ q.base = Absent
    /\ t.key = "in" => r = [q EXCEPT !.title = TRUE] /\ t.value = "title"
    /\ t.key = "sort" => r = [q EXCEPT !.sort = t.value] /\ q.sort = Absent
                         /\ t.value \in {"created-desc", "updated-asc"}
    /\ t.key \in {"word", "quoted"} => r = [q EXCEPT !.words = @ \union {t.value}]
    /\ t.key = "open" => r = [q EXCEPT !.depth = @ + 1]
    /\ t.key = "close" => r = [q EXCEPT !.depth = @ - 1]

(* A term that leaves the search acceptable does what Does says.           *)
LEMMA TermDoes ==
    ASSUME NEW q, Shaped(q), NEW t, t.value # Absent, NEW r, r = ReadTerm(q, t)
    PROVE  Shaped(r) /\ (q.bad => r.bad) /\ (~r.bad => Does(q, t, r))
<1> USE DEF Shaped, Fields, Handled, Does
<1>1. CASE t.key = "repo"
  <2>1. r = IF q.repo = Absent THEN [q EXCEPT !.repo = t.value] ELSE [q EXCEPT !.bad = TRUE]
    BY <1>1 DEF ReadTerm, Once
  <2> QED BY <2>1, <1>1
<1>2. CASE t.key = "type"
  <2>1. r = IF t.value \in {"pr", "issue"} THEN [q EXCEPT !.kind = t.value, !.bad = @ \/ q.kind \notin {Absent, t.value}]
            ELSE [q EXCEPT !.bad = TRUE]
    BY <1>2 DEF ReadTerm
  <2> QED BY <2>1, <1>2
<1>3. CASE t.key = "state"
  <2>1. r = IF t.value \in {"open", "closed", "merged"} THEN [q EXCEPT !.state = t.value, !.bad = @ \/ q.state \notin {"all", t.value}]
            ELSE [q EXCEPT !.bad = TRUE]
    BY <1>3 DEF ReadTerm
  <2> QED BY <2>1, <1>3
<1>4. CASE t.key = "author"
  <2>1. r = IF q.author = Absent THEN [q EXCEPT !.author = Login(t.value)] ELSE [q EXCEPT !.bad = TRUE]
    BY <1>4 DEF ReadTerm, Once
  <2> QED BY <2>1, <1>4
<1>5. CASE t.key = "assignee"
  <2>1. r = IF q.assignee = Absent THEN [q EXCEPT !.assignee = Login(t.value)] ELSE [q EXCEPT !.bad = TRUE]
    BY <1>5 DEF ReadTerm, Once
  <2> QED BY <2>1, <1>5
<1>6. CASE t.key = "review-requested"
  <2>1. r = IF q.reviewer = Absent THEN [q EXCEPT !.reviewer = Login(t.value)] ELSE [q EXCEPT !.bad = TRUE]
    BY <1>6 DEF ReadTerm, Once
  <2> QED BY <2>1, <1>6
<1>7. CASE t.key = "label"
  <2>1. r = [q EXCEPT !.labels = @ \union {t.value}]
    BY <1>7 DEF ReadTerm
  <2> QED BY <2>1, <1>7
<1>15. CASE t.key = "head"
  <2>1. r = IF q.head = Absent THEN [q EXCEPT !.head = t.value] ELSE [q EXCEPT !.bad = TRUE]
    BY <1>15 DEF ReadTerm, Once
  <2> QED BY <2>1, <1>15
<1>8. CASE t.key = "base"
  <2>1. r = IF q.base = Absent THEN [q EXCEPT !.base = t.value] ELSE [q EXCEPT !.bad = TRUE]
    BY <1>8 DEF ReadTerm, Once
  <2> QED BY <2>1, <1>8
<1>9. CASE t.key = "in"
  <2>1. r = IF t.value = "title" THEN [q EXCEPT !.title = TRUE] ELSE [q EXCEPT !.bad = TRUE]
    BY <1>9 DEF ReadTerm
  <2> QED BY <2>1, <1>9
<1>10. CASE t.key = "sort"
  <2>1. r = IF t.value \in {"created-desc", "updated-asc"} /\ q.sort = Absent THEN [q EXCEPT !.sort = t.value]
            ELSE [q EXCEPT !.bad = TRUE]
    BY <1>10 DEF ReadTerm, Once
  <2> QED BY <2>1, <1>10
<1>11. CASE t.key \in {"word", "quoted"}
  <2>1. r = [q EXCEPT !.words = @ \union {t.value}]
    BY <1>11 DEF ReadTerm
  <2> QED BY <2>1, <1>11
<1>12. CASE t.key = "open"
  <2>1. r = [q EXCEPT !.depth = @ + 1]
    BY <1>12 DEF ReadTerm
  <2> QED BY <2>1, <1>12
<1>13. CASE t.key = "close"
  <2>1. r = IF q.depth > 0 THEN [q EXCEPT !.depth = @ - 1] ELSE [q EXCEPT !.bad = TRUE]
    BY <1>13 DEF ReadTerm
  <2> QED BY <2>1, <1>13
<1>14. CASE t.key \notin Handled
  <2>1. r = [q EXCEPT !.bad = TRUE]
    BY <1>14 DEF ReadTerm
  <2> QED BY <2>1, <1>14
<1> QED BY <1>1, <1>2, <1>3, <1>4, <1>5, <1>6, <1>7, <1>8, <1>9, <1>10, <1>11, <1>12, <1>13, <1>14, <1>15

(* It adds itself to the search and loses no other term.                   *)
LEMMA TermHeld ==
    ASSUME NEW q, Shaped(q), NEW t, t.value # Absent, NEW r, r = ReadTerm(q, t),
           NEW T, \A o \in T : o.value # Absent /\ o = Term(o.key, o.value), t = Term(t.key, t.value),
           Faithful(q, T)
    PROVE  Shaped(r) /\ Faithful(r, T \cup {t})
<1>1. Shaped(r) /\ (q.bad => r.bad)
  BY TermDoes, Zenon
<1> SUFFICES ASSUME ~r.bad PROVE Faithful(r, T \cup {t})
  BY <1>1 DEF Faithful
<1>2. ~q.bad /\ Asked(q, T) /\ \A o \in T : Holds(q, o)
  BY <1>1 DEF Faithful
<1>3. Does(q, t, r)
  BY TermDoes, Zenon
<1>4. \A o \in T : o.value # Absent /\ Login(o.value) # Absent
  BY LoginIs
<1>5. DOMAIN q = Fields
  BY DEF Shaped
<1> USE <1>2, <1>4, <1>5 DEF Fields
<1>7. CASE t.key = "repo"
  <2>1. r.repo = t.value /\ q.repo = Absent /\ \A g \in Fields \ {"repo"} : r[g] = q[g]
    BY <1>3, <1>7 DEF Does
  <2> QED BY <2>1, <1>7 DEF Faithful, Asked, Holds, Handled
<1>8. CASE t.key = "type"
  <2>1. r.kind = t.value /\ q.kind \in {Absent, t.value} /\ t.value \in {"pr", "issue"}
        /\ \A g \in Fields \ {"kind", "bad"} : r[g] = q[g]
    BY <1>3, <1>8 DEF Does
  <2> QED BY <2>1, <1>8 DEF Faithful, Asked, Holds, Handled
<1>9. CASE t.key = "state"
  <2>1. r.state = t.value /\ q.state \in {"all", t.value} /\ t.value \in {"open", "closed", "merged"}
        /\ \A g \in Fields \ {"state", "bad"} : r[g] = q[g]
    BY <1>3, <1>9 DEF Does
  <2> QED BY <2>1, <1>9 DEF Faithful, Asked, Holds, Handled
<1>10. CASE t.key = "author"
  <2>1. r.author = Login(t.value) /\ q.author = Absent /\ \A g \in Fields \ {"author"} : r[g] = q[g]
    BY <1>3, <1>10 DEF Does
  <2> QED BY <2>1, <1>10 DEF Faithful, Asked, Holds, Handled
<1>11. CASE t.key = "assignee"
  <2>1. r.assignee = Login(t.value) /\ q.assignee = Absent /\ \A g \in Fields \ {"assignee"} : r[g] = q[g]
    BY <1>3, <1>11 DEF Does
  <2> QED BY <2>1, <1>11 DEF Faithful, Asked, Holds, Handled
<1>12. CASE t.key = "review-requested"
  <2>1. r.reviewer = Login(t.value) /\ q.reviewer = Absent /\ \A g \in Fields \ {"reviewer"} : r[g] = q[g]
    BY <1>3, <1>12 DEF Does
  <2> QED BY <2>1, <1>12 DEF Faithful, Asked, Holds, Handled
<1>13. CASE t.key = "label"
  <2>1. r.labels = q.labels \cup {t.value} /\ \A g \in Fields \ {"labels"} : r[g] = q[g]
    BY <1>3, <1>13 DEF Does
  <2> QED BY <2>1, <1>13 DEF Faithful, Asked, Holds, Handled
<1>20. CASE t.key = "head"
  <2>1. r.head = t.value /\ q.head = Absent /\ \A g \in Fields \ {"head"} : r[g] = q[g]
    BY <1>3, <1>20 DEF Does
  <2> QED BY <2>1, <1>20 DEF Faithful, Asked, Holds, Handled
<1>14. CASE t.key = "base"
  <2>1. r.base = t.value /\ q.base = Absent /\ \A g \in Fields \ {"base"} : r[g] = q[g]
    BY <1>3, <1>14 DEF Does
  <2> QED BY <2>1, <1>14 DEF Faithful, Asked, Holds, Handled
<1>15. CASE t.key = "in"
  <2>1. r.title /\ t.value = "title" /\ \A g \in Fields \ {"title"} : r[g] = q[g]
    BY <1>3, <1>15 DEF Does
  <2>2. t = Term("in", "title")
    BY <2>1, <1>15
  <2> QED BY <2>1, <2>2, <1>15 DEF Faithful, Asked, Holds, Handled
<1>16. CASE t.key = "sort"
  <2>1. t.value \in {"created-desc", "updated-asc"} /\ \A g \in Fields \ {"sort"} : r[g] = q[g]
    BY <1>3, <1>16 DEF Does
  <2> QED BY <2>1, <1>16 DEF Faithful, Asked, Holds, Handled
<1>17. CASE t.key \in {"word", "quoted"}
  <2>1. r.words = q.words \cup {t.value} /\ \A g \in Fields \ {"words"} : r[g] = q[g]
    BY <1>3, <1>17 DEF Does
  <2> QED BY <2>1, <1>17 DEF Faithful, Asked, Holds, Handled
<1>18. CASE t.key \in {"open", "close"}
  <2>1. \A g \in Fields \ {"depth"} : r[g] = q[g]
    BY <1>3, <1>18 DEF Does
  <2> QED BY <2>1, <1>18 DEF Faithful, Asked, Holds, Handled
<1>19. t.key \in Handled
  BY <1>3 DEF Does
<1> QED BY <1>19, <1>7, <1>8, <1>9, <1>10, <1>11, <1>12, <1>13, <1>14, <1>15, <1>16, <1>17, <1>18, <1>20 DEF Handled

(* The first n terms.                                                      *)
Terms(terms, n) == {terms[k] : k \in 1..n}

(* A search acceptable at its end is its terms: all of them, and nothing   *)
(* but them.                                                               *)
LEMMA ReadFaithful ==
    ASSUME NEW terms, Len(terms) \in Nat, DOMAIN terms = 1..Len(terms),
           \A k \in DOMAIN terms : terms[k].value # Absent /\ terms[k] = Term(terms[k].key, terms[k].value)
    PROVE  Shaped(Read(terms)) /\ Faithful(Read(terms), Range(terms))
<1> DEFINE N == Len(terms)
<1>1. PICK f : /\ f[0] = NoQuery /\ Read(terms) = f[N]
               /\ \A n \in 1..N : f[n] = ReadTerm(f[n - 1], terms[n])
  BY ReadIs
<1> DEFINE Fine(n) == Shaped(f[n]) /\ Faithful(f[n], Terms(terms, n))
           Bad == {n \in 0..N : ~Fine(n)}
<1>2. Fine(0)
  <2>1. Terms(terms, 0) = {}
    BY DEF Terms
  <2>2. Shaped(NoQuery)
    BY DEF Shaped, NoQuery, Fields
  <2>3. Asked(NoQuery, {})
    BY DEF Asked, NoQuery
  <2> QED BY <2>1, <2>2, <2>3, <1>1 DEF Faithful
<1>3. ASSUME NEW n \in 1..N, Fine(n - 1) PROVE Fine(n)
  <2>1. Terms(terms, n) = Terms(terms, n - 1) \cup {terms[n]}
    BY DEF Terms
  <2>2. \A o \in Terms(terms, n - 1) : o.value # Absent /\ o = Term(o.key, o.value)
    BY DEF Terms
  <2>3. f[n] = ReadTerm(f[n - 1], terms[n])
    BY <1>1
  <2>4. terms[n].value # Absent /\ terms[n] = Term(terms[n].key, terms[n].value)
    OBVIOUS
  <2>5. Shaped(f[n]) /\ Faithful(f[n], Terms(terms, n - 1) \cup {terms[n]})
    BY <1>3, <2>2, <2>3, <2>4, TermHeld
  <2> QED BY <2>1, <2>5
<1> HIDE DEF Fine
<1>4. Bad = {}
  <2> SUFFICES ASSUME Bad # {} PROVE FALSE
    OBVIOUS
  <2>1. Bad \in SUBSET Nat
    OBVIOUS
  <2>2. PICK n \in Bad : \A m \in Bad : n <= m
    BY <2>1, LeastOf
  <2>3. n # 0
    BY <1>2
  <2>4. n \in 1..N /\ n - 1 \in 0..N /\ n - 1 \notin Bad
    BY <2>2, <2>3
  <2> QED BY <2>4, <1>3
<1>5. Fine(N)
  BY <1>4
<1>6. Terms(terms, N) = Range(terms)
  BY DEF Terms, Range
<1> QED BY <1>1, <1>5, <1>6 DEF Fine

(***************************************************************************)
(* What the two reads leave                                                *)
(***************************************************************************)

(* What the two reads ask of an item.                                      *)
FitsPulls(i, q) ==
    /\ i.kind = "pr" /\ InState(i, Upstream(q.state))
    /\ q.author # Absent => i.author = q.author
    /\ q.head # Absent => FromHead(i, q.head)
    /\ MatchesPull(i, q)
FitsIssues(i, q) ==
    /\ i.kind = (IF q.kind = "issue" THEN "issue" ELSE "pr") /\ InState(i, Upstream(q.state))
    /\ q.author # Absent => i.author = q.author
    /\ q.assignee # Absent => i.assignee = q.assignee
    /\ q.mention # Absent => q.mention \in i.mentions
    /\ (q.labels \intersect Known) \subseteq i.labels
    /\ q.words \subseteq i.title \union i.body
    /\ LabelsAndTitle(i, q)

(* A pull request is what both reads found, or the only one made.             *)
LeftRight ==
    \A n \in DOMAIN items :
        /\ n \in left => \E w \in were : FitsPulls(w[n], query)
        /\ (\A w \in were : FitsPulls(w[n], query)) => n \in left
FoundRight ==
    \A n \in DOMAIN items :
        /\ n \in answered => /\ query.kind # "issue" => \E w \in were : FitsPulls(w[n], query)
                             /\ NeedsIssues(query) => \E w \in were : FitsIssues(w[n], query)
        /\ (\A w \in were : /\ query.kind # "issue" => FitsPulls(w[n], query)
                            /\ NeedsIssues(query) => FitsIssues(w[n], query)) => n \in answered
ListRight ==
    \A n \in DOMAIN items :
        n \in answered <=>
            LET i == items[n]
            IN  /\ i.state \in ask.states /\ i.kind = (IF ask.op = "issues" THEN "issue" ELSE "pr")
                /\ ask.op = "issues" => /\ ask.author \in {Absent, i.author} /\ ask.labels \subseteq i.labels
                                        /\ ask.assignee \in {Absent, i.assignee}
                                        /\ ask.mention \in {Absent} \union i.mentions
                /\ ask.op = "pulls" => /\ ask.base \in {Absent, i.base}
                                       /\ ask.head # Absent => ComesFrom(i, ask.head)

(* The invariant: what is left and answered so far is what the reads made  *)
(* so far ask of the items as they were.                                   *)
ListInv ==
    /\ ask \in Asks /\ pc \in {"parse", "pulls", "issues", "list", "done", "refused"}
    /\ pc \in {"parse", "pulls", "list"} => were = {}
    /\ pc = "list" => ask.op # "search"
    /\ pc \in {"parse", "pulls", "issues"} => ask.op = "search"
    /\ ask.op = "search" /\ pc \in {"pulls", "issues", "done"} => query = Read(ask.terms) /\ Accepted(query)
    /\ pc = "pulls" => query.kind # "issue"
    /\ pc = "issues" => NeedsIssues(query) /\ (query.kind # "issue" => LeftRight) /\ (query.kind = "issue" => were = {})
    /\ pc = "done" => answered \subseteq DOMAIN items /\ (IF ask.op = "search" THEN FoundRight ELSE ListRight)

(* An ask, taken apart.                                                    *)
LEMMA AskIs ==
    ASSUME ask \in Asks, ask.op = "search"
    PROVE  /\ Len(ask.terms) \in Nat /\ DOMAIN ask.terms = 1..Len(ask.terms)
           /\ \A k \in DOMAIN ask.terms : ask.terms[k].value # Absent
                                          /\ ask.terms[k] = Term(ask.terms[k].key, ask.terms[k].value)
<1>1. /\ ask.terms \in Seq(Range(ask.terms))
      /\ \A t \in Range(ask.terms) : t = [key |-> t.key, value |-> t.value] /\ t.value # Absent
  BY ListAssumption
<1>2. Len(ask.terms) \in Nat /\ DOMAIN ask.terms = 1..Len(ask.terms)
  BY <1>1
<1> QED BY <1>1, <1>2 DEF Range, Term

(* What fits a search that is accepted meets its terms, and the converse.  *)
(* A pull request that fits meets the terms about pull requests.           *)
LEMMA PullMeans ==
    ASSUME Faithful(query, Range(ask.terms)), Accepted(query), query.kind # "issue",
           NEW i, FitsPulls(i, query), NEW t \in Range(ask.terms), t.value # Absent,
           t.key \notin {"assignee", "label", "word", "quoted"}
    PROVE  Means(t, i)
<1>1. Holds(query, t) /\ query.kind # "issue"
  BY DEF Faithful, Accepted
<1> USE <1>1 DEF Holds, FitsPulls, MatchesPull
<1>2. CASE t.key = "repo"
  BY <1>2 DEF Means
<1>3. CASE t.key = "type"
  BY <1>3 DEF Means
<1>4. CASE t.key = "state"
  <2>1. i.state = t.value \/ (t.value = "closed" /\ i.state = "merged")
    BY <1>4
  <2> QED BY ONLY <2>1, <1>4 DEF Means
<1>5. CASE t.key = "author"
  BY <1>5, LoginIs DEF Means
<1>6. CASE t.key = "review-requested"
  BY <1>6, LoginIs DEF Means
<1>7. CASE t.key = "base"
  BY <1>7 DEF Means
<1>11. CASE t.key = "head"
  BY <1>11 DEF Means, FromHead, ComesFrom
<1>8. CASE t.key = "in"
  BY <1>8 DEF Means
<1>9. CASE t.key = "sort"
  BY <1>9 DEF Means
<1>10. CASE t.key \in {"open", "close"}
  BY <1>10 DEF Means
<1> QED BY <1>2, <1>3, <1>4, <1>5, <1>6, <1>7, <1>8, <1>9, <1>10, <1>11 DEF Handled

(* An item that fits meets the terms about issues.                         *)
LEMMA IssueMeans ==
    ASSUME Faithful(query, Range(ask.terms)), Accepted(query),
           NEW i, FitsIssues(i, query), NEW t \in Range(ask.terms), t.value # Absent,
           query.kind = "issue" \/ t.key \in {"assignee", "label", "word", "quoted"}
    PROVE  Means(t, i)
<1>1. Holds(query, t)
  BY DEF Faithful, Accepted
<1>2. query.kind = "issue" => query.head = Absent /\ query.base = Absent /\ query.reviewer = Absent /\ query.state # "merged"
  BY DEF Accepted
<1> USE <1>1, <1>2 DEF Holds, FitsIssues
<1>3. CASE t.key = "repo"
  BY <1>3 DEF Means
<1>4. CASE t.key = "type"
  BY <1>4 DEF Means
<1>5. CASE t.key = "state"
  <2>1. InState(i, t.value) /\ t.value \in {"open", "closed"}
    BY <1>5 DEF Upstream
  <2>2. i.state = t.value \/ (t.value = "closed" /\ i.state = "merged")
    BY <2>1 DEF InState
  <2> QED BY ONLY <2>2, <1>5 DEF Means
<1>6. CASE t.key = "author"
  BY <1>6, LoginIs DEF Means
<1>7. CASE t.key = "assignee"
  BY <1>7, LoginIs DEF Means
<1>8. t.key # "review-requested"
  BY LoginIs
<1>9. t.key # "base" /\ t.key # "head"
  OBVIOUS
<1>10. CASE t.key = "label"
  BY <1>10 DEF Means, LabelsAndTitle
<1>11. CASE t.key = "in"
  BY <1>11 DEF Means
<1>12. CASE t.key = "sort"
  BY <1>12 DEF Means
<1>13. CASE t.key \in {"word", "quoted"}
  <2>1. t.value \in i.title \cup i.body /\ (query.title => t.value \in i.title)
    BY <1>13 DEF LabelsAndTitle
  <2>2. ASSUME NEW k \in DOMAIN ask.terms, ask.terms[k] = Term("in", "title") PROVE query.title
    <3>1. ask.terms[k] \in Range(ask.terms) /\ ask.terms[k].key = "in"
      BY <2>2 DEF Term, Range
    <3> QED BY <3>1 DEF Faithful, Accepted
  <2> QED BY ONLY <2>1, <2>2, <1>13 DEF Means
<1>14. CASE t.key \in {"open", "close"}
  BY <1>14 DEF Means
<1> QED BY <1>3, <1>4, <1>5, <1>6, <1>7, <1>8, <1>9, <1>10, <1>11, <1>12, <1>13, <1>14 DEF Handled

(* An item that meets every term fits.                                     *)
LEMMA FitsWhatIsMeant ==
    ASSUME Faithful(query, Range(ask.terms)), Accepted(query), NEW i,
           \A t \in Range(ask.terms) : t.value # Absent /\ Means(t, i)
    PROVE  /\ query.kind # "issue" => FitsPulls(i, query)
           /\ FitsIssues(i, query)
<1> DEFINE T == Range(ask.terms)
<1>1. Asked(query, T) /\ \A t \in T : Holds(query, t)
  BY DEF Faithful, Accepted
<1>2. /\ query.kind # Absent \/ query.reviewer # Absent
      /\ query.kind = "issue" => query.head = Absent /\ query.base = Absent /\ query.reviewer = Absent /\ query.state # "merged"
  BY DEF Accepted
<1> HIDE DEF T
<1>0. \A t \in T : t.value # Absent /\ Means(t, i)
  BY DEF T
<1>3. i.kind = (IF query.kind = "issue" THEN "issue" ELSE "pr")
  <2>1. CASE query.kind # Absent
    <3>1. PICK t \in T : t.key = "type" /\ t.value = query.kind
      BY <2>1, <1>1 DEF Asked
    <3>2. i.kind = t.value
      BY <3>1, <1>0 DEF Means
    <3>3. t.value \in {"pr", "issue"}
      BY <3>1, <1>1 DEF Holds
    <3> QED BY <3>1, <3>2, <3>3
  <2>2. CASE query.kind = Absent
    <3>1. PICK t \in T : t.key = "review-requested"
      BY <2>2, <1>1, <1>2 DEF Asked
    <3>2. i.kind = "pr"
      BY <3>1, <1>0 DEF Means
    <3>3. query.kind # "issue"
      BY <2>2, <1>2
    <3> QED BY <3>2, <3>3
  <2> QED BY <2>1, <2>2
<1>4. query.state = "all" \/ i.state = query.state \/ (query.state = "closed" /\ i.state = "merged")
  <2>1. CASE query.state # "all"
    <3>1. PICK t \in T : t.key = "state" /\ t.value = query.state
      BY <2>1, <1>1 DEF Asked
    <3>2. i.state = t.value \/ (t.value = "closed" /\ i.state = "merged")
      BY <3>1, <1>0 DEF Means
    <3> QED BY <3>1, <3>2
  <2> QED BY <2>1
<1>5. InState(i, Upstream(query.state))
  BY <1>4 DEF InState, Upstream
<1>6. query.author # Absent => i.author = query.author
  <2> HAVE query.author # Absent
  <2>1. PICK t \in T : t.key = "author" /\ Login(t.value) = query.author
    BY <1>1 DEF Asked
  <2> QED BY <2>1, <1>0 DEF Means
<1>7. query.assignee # Absent => i.assignee = query.assignee
  <2> HAVE query.assignee # Absent
  <2>1. PICK t \in T : t.key = "assignee" /\ Login(t.value) = query.assignee
    BY <1>1 DEF Asked
  <2> QED BY <2>1, <1>0 DEF Means
<1>8. query.base # Absent => i.base = query.base
  <2> HAVE query.base # Absent
  <2>1. PICK t \in T : t.key = "base" /\ t.value = query.base
    BY <1>1 DEF Asked
  <2> QED BY <2>1, <1>0 DEF Means
<1>14. query.head # Absent => FromHead(i, query.head)
  <2> HAVE query.head # Absent
  <2>1. PICK t \in T : t.key = "head" /\ t.value = query.head
    BY <1>1 DEF Asked
  <2> QED BY <2>1, <1>0 DEF Means, ComesFrom, FromHead
<1>9. query.reviewer # Absent => query.reviewer \in i.asked
  <2> HAVE query.reviewer # Absent
  <2>1. PICK t \in T : t.key = "review-requested" /\ Login(t.value) = query.reviewer
    BY <1>1 DEF Asked
  <2> QED BY <2>1, <1>0 DEF Means
<1>10. query.labels \subseteq i.labels
  <2> SUFFICES ASSUME NEW l \in query.labels PROVE l \in i.labels
    OBVIOUS
  <2>1. PICK t \in T : t.key = "label" /\ t.value = l
    BY <1>1 DEF Asked
  <2> QED BY <2>1, <1>0 DEF Means
<1>11. query.words \subseteq i.title \cup i.body /\ (query.title => query.words \subseteq i.title)
  <2> SUFFICES ASSUME NEW v \in query.words
               PROVE  v \in i.title \cup i.body /\ (query.title => v \in i.title)
    OBVIOUS
  <2>1. PICK t \in T : t.key \in {"word", "quoted"} /\ t.value = v
    BY <1>1 DEF Asked
  <2>2. t.value \in i.title \/ (t.value \in i.body
                                /\ \A k \in DOMAIN ask.terms : ask.terms[k] # Term("in", "title"))
    BY <2>1, <1>0 DEF Means
  <2>3. query.title => \E k \in DOMAIN ask.terms : ask.terms[k] = Term("in", "title")
    BY <1>1 DEF Asked, T, Range
  <2> QED BY <2>1, <2>2, <2>3
<1>12. FitsIssues(i, query)
  BY <1>1, <1>3, <1>5, <1>6, <1>7, <1>10, <1>11 DEF FitsIssues, LabelsAndTitle, Asked
<1>13. query.kind # "issue" => FitsPulls(i, query)
  BY <1>3, <1>4, <1>5, <1>6, <1>8, <1>9, <1>14 DEF FitsPulls, MatchesPull
<1> QED BY <1>12, <1>13

(* So what is answered is what was asked.                                  *)
LEMMA SearchProp == ListInv => SearchMeansIt
<1> SUFFICES ASSUME ListInv, pc = "done" PROVE SearchMeansIt
  BY DEF SearchMeansIt
<1>1. CASE ask.op # "search"
  BY <1>1 DEF SearchMeansIt, ListInv, ListRight
<1>2. CASE ask.op = "search"
  <2>1. query = Read(ask.terms) /\ Accepted(query) /\ answered \subseteq DOMAIN items /\ FoundRight /\ ask \in Asks
    BY <1>2 DEF ListInv
  <2>2. /\ Len(ask.terms) \in Nat /\ DOMAIN ask.terms = 1..Len(ask.terms)
        /\ \A k \in DOMAIN ask.terms : ask.terms[k].value # Absent
                                       /\ ask.terms[k] = Term(ask.terms[k].key, ask.terms[k].value)
    BY <1>2, <2>1, AskIs
  <2>3. Faithful(query, Range(ask.terms))
    BY <2>1, <2>2, ReadFaithful
  <2>4. \A t \in Range(ask.terms) : t.value # Absent
    BY <2>2 DEF Range
  <2>5. \A k \in DOMAIN ask.terms : ask.terms[k] \in Range(ask.terms)
    BY DEF Range
  <2>6. ASSUME NEW k \in DOMAIN ask.terms, NEW n \in answered PROVE n \in Meant(ask.terms[k])
    <3> DEFINE t == ask.terms[k]
    <3>1. t \in Range(ask.terms) /\ t.value # Absent /\ n \in DOMAIN items
      BY <2>1, <2>4, <2>5
    <3> HIDE DEF t
    <3>2. CASE query.kind = "issue" \/ t.key \in {"assignee", "label", "word", "quoted"}
      <4>1. NeedsIssues(query)
        <5>1. Holds(query, t)
          BY <2>1, <2>3, <3>1 DEF Faithful, Accepted
        <5>2. t.key = "assignee" => query.assignee # Absent
          BY <5>1, <3>1, LoginIs DEF Holds
        <5>3. t.key = "label" => query.labels # {}
          BY <5>1 DEF Holds
        <5>4. t.key \in {"word", "quoted"} => query.words # {}
          BY <5>1 DEF Holds
        <5> QED BY <3>2, <5>2, <5>3, <5>4 DEF NeedsIssues
      <4>2. PICK w \in were : FitsIssues(w[n], query)
        BY <2>1, <3>1, <4>1 DEF FoundRight
      <4>3. Means(t, w[n])
        BY <2>1, <2>3, <3>1, <3>2, <4>2, IssueMeans
      <4> QED BY <3>1, <4>3 DEF Meant, t
    <3>3. CASE query.kind # "issue" /\ t.key \notin {"assignee", "label", "word", "quoted"}
      <4>2. PICK w \in were : FitsPulls(w[n], query)
        BY <2>1, <3>1, <3>3 DEF FoundRight
      <4>3. Means(t, w[n])
        BY <2>1, <2>3, <3>1, <3>3, <4>2, PullMeans
      <4> QED BY <3>1, <4>3 DEF Meant, t
    <3> QED BY <3>2, <3>3
  <2>7. ASSUME NEW n \in DOMAIN items, \A w \in were, k \in DOMAIN ask.terms : Means(ask.terms[k], w[n])
        PROVE  n \in answered
    <3>1. \A w \in were : \A t \in Range(ask.terms) : t.value # Absent /\ Means(t, w[n])
      BY <2>4, <2>7 DEF Range
    <3>2. \A w \in were : (query.kind # "issue" => FitsPulls(w[n], query)) /\ FitsIssues(w[n], query)
      BY <2>1, <2>3, <3>1, FitsWhatIsMeant
    <3> QED BY <2>1, <3>2 DEF FoundRight
  <2> QED BY <1>2, <2>6, <2>7 DEF SearchMeansIt
<1> QED BY <1>1, <1>2

(* Nothing is read at first.                                               *)
LEMMA ListStart == ListInit => ListInv
<1> SUFFICES ASSUME ListInit PROVE ListInv
  OBVIOUS
<1>1. ask.op = "search" <=> pc = "parse"
  BY DEF ListInit
<1> QED BY <1>1 DEF ListInit, ListInv

(* Each step keeps the invariant.                                          *)
LEMMA ParseKept == ASSUME ListInv, Parse PROVE ListInv'
<1>1. pc = "parse" /\ UNCHANGED <<ask, items, were, left, answered>> /\ query' = Read(ask.terms)
      /\ pc' = IF ~Accepted(query') THEN "refused" ELSE IF query'.kind = "issue" THEN "issues" ELSE "pulls"
  BY DEF Parse
<1>2. were = {} /\ ask.op = "search" /\ ask \in Asks
  BY <1>1 DEF ListInv
<1>3. CASE ~Accepted(query')
  BY <1>1, <1>2, <1>3 DEF ListInv
<1>4. CASE Accepted(query') /\ query'.kind = "issue"
  BY <1>1, <1>2, <1>4 DEF ListInv, NeedsIssues, Accepted
<1>5. CASE Accepted(query') /\ query'.kind # "issue"
  BY <1>1, <1>2, <1>5 DEF ListInv, Accepted
<1> QED BY <1>3, <1>4, <1>5

LEMMA ReadPullsKept == ASSUME ListInv, ReadPulls PROVE ListInv'
<1>1. /\ pc = "pulls" /\ UNCHANGED <<ask, query, items>>
      /\ left' = {n \in PullList(query) : MatchesPull(items[n], query)}
      /\ were' = were \union {items}
      /\ IF NeedsIssues(query) THEN pc' = "issues" /\ UNCHANGED answered ELSE pc' = "done" /\ answered' = left'
  BY DEF ReadPulls
<1>2. were = {} /\ ask.op = "search" /\ ask \in Asks /\ query.kind # "issue"
      /\ query = Read(ask.terms) /\ Accepted(query)
  BY <1>1 DEF ListInv
<1>3. left' = {n \in DOMAIN items : FitsPulls(items[n], query)}
  BY <1>1 DEF PullList, FitsPulls
<1>4. LeftRight'
  BY <1>1, <1>2, <1>3 DEF LeftRight
<1>5. CASE NeedsIssues(query)
  BY <1>1, <1>2, <1>4, <1>5 DEF ListInv
<1>6. CASE ~NeedsIssues(query)
  <2>1. FoundRight' /\ answered' \subseteq DOMAIN items
    BY <1>1, <1>2, <1>3, <1>6 DEF FoundRight
  <2> QED BY <1>1, <1>2, <1>6, <2>1 DEF ListInv
<1> QED BY <1>5, <1>6

LEMMA ReadIssuesKept == ASSUME ListInv, ReadIssues PROVE ListInv'
<1> DEFINE all == {n \in IssueList(query) : LabelsAndTitle(items[n], query)}
<1>1. /\ pc = "issues" /\ UNCHANGED <<ask, query, items, left>>
      /\ answered' = IF query.kind = "issue" THEN all ELSE all \intersect left
      /\ were' = were \union {items} /\ pc' = "done"
  BY DEF ReadIssues
<1>2. ask.op = "search" /\ ask \in Asks /\ query = Read(ask.terms) /\ Accepted(query)
      /\ NeedsIssues(query) /\ (query.kind # "issue" => LeftRight) /\ (query.kind = "issue" => were = {})
  BY <1>1 DEF ListInv
<1>3. all = {n \in DOMAIN items : FitsIssues(items[n], query)}
  BY DEF IssueList, FitsIssues
<1> HIDE DEF all
<1>4. answered' \subseteq DOMAIN items
  BY <1>1, <1>3
<1>5. FoundRight'
  <2> SUFFICES ASSUME NEW n \in DOMAIN items
               PROVE  /\ n \in answered' => /\ query.kind # "issue" => \E w \in were' : FitsPulls(w[n], query)
                                            /\ NeedsIssues(query) => \E w \in were' : FitsIssues(w[n], query)
                      /\ (\A w \in were' : /\ query.kind # "issue" => FitsPulls(w[n], query)
                                           /\ NeedsIssues(query) => FitsIssues(w[n], query)) => n \in answered'
    BY <1>1 DEF FoundRight
  <2>1. items \in were' /\ were \subseteq were'
    BY <1>1
  <2>2. n \in all <=> FitsIssues(items[n], query)
    BY <1>3
  <2>3. CASE query.kind = "issue"
    BY <2>1, <2>2, <2>3, <1>1, <1>2
  <2>4. CASE query.kind # "issue"
    <3>1. /\ n \in left => \E w \in were : FitsPulls(w[n], query)
          /\ (\A w \in were : FitsPulls(w[n], query)) => n \in left
      BY <2>4, <1>2 DEF LeftRight
    <3> QED BY <2>1, <2>2, <2>4, <3>1, <1>1, <1>2
  <2> QED BY <2>3, <2>4
<1> QED BY <1>1, <1>2, <1>4, <1>5 DEF ListInv

LEMMA ListIssuesKept == ASSUME ListInv, ListIssues PROVE ListInv'
<1> DEFINE q == [NoQuery EXCEPT !.kind = "issue", !.author = ask.author, !.assignee = ask.assignee,
                                !.mention = ask.mention, !.labels = ask.labels,
                                !.state = IF Cardinality(ask.states) = 1 THEN CHOOSE s \in ask.states : TRUE ELSE "all"]
<1>1. /\ pc = "list" /\ ask.op = "issues" /\ UNCHANGED <<ask, query, items, left>> /\ pc' = "done"
      /\ answered' = {n \in IssueList(q) : items[n].state \in ask.states /\ LabelsAndTitle(items[n], q)}
  BY DEF ListIssues
<1>2. ask \in Asks /\ IsFiniteSet(ask.states)
  BY <1>1, ListAssumption DEF ListInv
<1>3. /\ q.kind = "issue" /\ q.author = ask.author /\ q.assignee = ask.assignee /\ q.mention = ask.mention
      /\ q.labels = ask.labels /\ q.words = {} /\ q.title = FALSE
      /\ q.state = IF Cardinality(ask.states) = 1 THEN CHOOSE s \in ask.states : TRUE ELSE "all"
  BY DEF NoQuery
<1> HIDE DEF q
<1>4. \A i : i.state \in ask.states => InState(i, Upstream(q.state))
  <2>1. CASE Cardinality(ask.states) = 1
    <3>1. PICK s : ask.states = {s}
      BY <1>2, <2>1, FS_Singleton
    <3>2. q.state = s
      BY <1>3, <2>1, <3>1
    <3> QED BY <3>1, <3>2 DEF InState, Upstream
  <2>2. CASE Cardinality(ask.states) # 1
    BY <1>3, <2>2 DEF InState, Upstream
  <2> QED BY <2>1, <2>2
<1>5. answered' = {n \in DOMAIN items :
                  LET i == items[n]
                  IN  /\ i.kind = "issue" /\ i.state \in ask.states
                      /\ ask.author # Absent => i.author = ask.author
                      /\ ask.assignee # Absent => i.assignee = ask.assignee
                      /\ ask.mention # Absent => ask.mention \in i.mentions
                      /\ ask.labels \subseteq i.labels}
  BY <1>1, <1>3, <1>4 DEF IssueList, LabelsAndTitle
<1>6. ListRight'
  BY <1>1, <1>5 DEF ListRight
<1>7. answered' \subseteq DOMAIN items
  BY <1>5
<1> QED BY <1>1, <1>2, <1>6, <1>7 DEF ListInv

LEMMA ListPullsKept == ASSUME ListInv, ListPulls PROVE ListInv'
<1> DEFINE q == [NoQuery EXCEPT !.head = ask.head]
<1>1. /\ pc = "list" /\ ask.op = "pulls" /\ UNCHANGED <<ask, query, items, left>> /\ pc' = "done"
      /\ answered' = {n \in PullList(q) : items[n].state \in ask.states
                                        /\ (ask.base # Absent => items[n].base = ask.base)}
  BY DEF ListPulls
<1>2. q.head = ask.head /\ q.author = Absent /\ q.state = "all"
  BY DEF NoQuery
<1> HIDE DEF q
<1>3. PullList(q) = {n \in DOMAIN items : items[n].kind = "pr" /\ (ask.head # Absent => FromHead(items[n], ask.head))}
  BY <1>2 DEF PullList, InState, Upstream
<1>4. \A i : FromHead(i, ask.head) <=> ComesFrom(i, ask.head)
  BY DEF FromHead, ComesFrom
<1>5. ListRight' /\ answered' \subseteq DOMAIN items
  BY <1>1, <1>3, <1>4 DEF ListRight
<1> QED BY <1>1, <1>5 DEF ListInv

LEMMA ChangeKept == ASSUME ListInv, Change PROVE ListInv'
<1>1. pc = "issues" /\ were = {items} /\ UNCHANGED <<ask, pc, query, were, left, answered>>
      /\ DOMAIN items' = DOMAIN items
  BY DEF Change
<1>2. query.kind # "issue" /\ LeftRight
  BY <1>1 DEF ListInv
<1>3. LeftRight'
  BY <1>1, <1>2 DEF LeftRight
<1> QED BY <1>1, <1>2, <1>3 DEF ListInv

LEMMA ListStep == ListInv /\ [ListNext]_listVars => ListInv'
<1> SUFFICES ASSUME ListInv, [ListNext]_listVars PROVE ListInv'
  OBVIOUS
<1>1. CASE UNCHANGED listVars
  <2>1. UNCHANGED <<ask, pc, query, items, were, left, answered>>
    BY <1>1 DEF listVars
  <2> QED BY <2>1 DEF ListInv, LeftRight, FoundRight, ListRight
<1> QED BY <1>1, ParseKept, ReadPullsKept, ReadIssuesKept, ListIssuesKept, ListPullsKept, ChangeKept DEF ListNext

(* A search that is answered answers all of it, whatever its terms: an     *)
(* item found met each of them while it was read, and one that met them    *)
(* all throughout is found; a list likewise its filters.  (reads/search.rs *)
(* Search::parse and search, issues.rs list, pull_requests.)               *)
THEOREM SearchesAsAsked == ListSpec => []SearchMeansIt
<1>1. ListInit => ListInv
  BY ListStart
<1>2. ListInv /\ [ListNext]_listVars => ListInv'
  BY ListStep
<1>3. ListInv => SearchMeansIt
  BY SearchProp
<1> QED BY <1>1, <1>2, <1>3, PTL DEF ListSpec
=============================================================================
