---------------------------- MODULE LaunchProofs ----------------------------
(* Proofs about one launch, for any codes, lookups, signals, foreground    *)
(* changes and failures.  IInv is inductive: one lemma per part of it, one *)
(* step per group of actions, and the theorems follow.                     *)
EXTENDS Launch, TLAPS

(* Each signal has its handler once all four are registered, and none of   *)
(* the sets below holds anything else.                                     *)
LEMMA AllHandled ==
  /\ Len(SIGNALS) = 4
  /\ \A i \in 1..4 : SIGNALS[i] \in Signal
  /\ \A s \in Signal : \E i \in 1..4 : SIGNALS[i] = s
  /\ registered = 4 => Handled = Signal
  /\ registered = 0 => Handled = {}
  /\ \A s \in Signal : s \in Nat /\ s # 0
<1>1. /\ Len(SIGNALS) = 4
      /\ SIGNALS[1] = INT /\ SIGNALS[2] = QUIT /\ SIGNALS[3] = TERM /\ SIGNALS[4] = HUP
  BY DEF SIGNALS
<1>2. \A i \in 1..4 : SIGNALS[i] \in Signal
  BY <1>1 DEF Signal
<1>3. \A s \in Signal : \E i \in 1..4 : SIGNALS[i] = s
  BY <1>1 DEF Signal
<1>4. registered = 4 => Handled = Signal
  BY <1>2, <1>3 DEF Handled
<1>5. registered = 0 => Handled = {}
  BY DEF Handled
<1>6. \A s \in Signal : s \in Nat /\ s # 0
  BY DEF Signal, HUP, INT, QUIT, TERM
<1>7. QED
  BY <1>1, <1>2, <1>3, <1>4, <1>5, <1>6

(* The ways a process can end are among those End lists.                   *)
LEMMA Ends ==
  /\ \A n \in 0..255 : Exit(n) \in End
  /\ \A s \in Signal \cup {PIPE} : Killed(s) \in End /\ Exit(128 + s) \in End
  /\ \A s \in Signal : pid1 \in BOOLEAN => DieBy(s) \in End
  /\ \A e \in End : e.by = "signal" => e.n \in Signal \cup {PIPE}
  /\ Alive \notin End
BY DEF End, Exit, Killed, Alive, DieBy, Signal, HUP, INT, QUIT, TERM, PIPE

LEMMA TypeStep ==
  ASSUME IInv, [Next]_vars
  PROVE  TypeOK'
<1> USE LaunchAssumption, AllHandled, Ends
    DEF IInv, TypeOK, HandlersFirst, PC, Starting,
        vars, launcher, signals, world, child, Goto, EndAs
<1>1. CASE Register \/ CreateRunDir \/ Proceed \/ InstallStream
  <2>1. CASE Register
    BY <2>1 DEF Register
  <2>2. CASE CreateRunDir
    BY <2>2 DEF CreateRunDir
  <2>3. CASE Proceed
    BY <2>3 DEF Proceed
  <2>4. CASE InstallStream
    BY <2>4 DEF InstallStream
  <2>5. QED
    BY <1>1, <2>1, <2>2, <2>3, <2>4
<1>2. CASE LookupEnds \/ LookupsDone \/ LookupSignalled
  BY <1>2 DEF LookupEnds, LookupsDone, LookupSignalled
<1>3. CASE Check \/ Spawn \/ Forward
  BY <1>3 DEF Check, Spawn, Forward, SendGh
<1>4. CASE Reap \/ RemoveRunDir \/ Leave
  <2>1. CASE Reap
    <3>1. outcome' \in End \cup {Alive}
      BY <2>1 DEF Reap
    <3>2. QED
      BY <2>1, <3>1 DEF Reap
  <2>2. CASE RemoveRunDir
    BY <2>2 DEF RemoveRunDir
  <2>3. CASE Leave
    BY <2>3 DEF Leave
  <2>4. QED
    BY <1>4, <2>1, <2>2, <2>3
<1>5. CASE Fails
  BY <1>5 DEF Fails
<1>6. ASSUME NEW s \in Signal, Caller(s) PROVE TypeOK'
  BY <1>6 DEF Caller, Sent, Arrives
<1>7. ASSUME NEW s \in Signal, Terminal(s) PROVE TypeOK'
  BY <1>7 DEF Terminal, Sent, Arrives, SendGh
<1>8. CASE Hangup
  <2>1. HUP \in Signal
    BY DEF Signal
  <2>2. fg' \in BOOLEAN
    BY <1>8, Zenon DEF Hangup, Move
  <2>3. moves' \in 0..MaxMoves
    BY <1>8 DEF Hangup, Move
  <2>4. QED
    BY <1>8, <2>1, <2>2, <2>3 DEF Hangup, Sent, Arrives, SendGh
<1>9. CASE JobControl
  <2>1. fg' \in BOOLEAN
    BY <1>9, Zenon DEF JobControl, Move
  <2>2. moves' \in 0..MaxMoves
    BY <1>9 DEF JobControl, Move
  <2>3. QED
    BY <1>9, <2>1, <2>2 DEF JobControl
<1>10. CASE GhEnds
  <2>1. ghEnd' \in End
    <3>1. \A n \in GhCodes : Exit(n) \in End
      OBVIOUS
    <3>2. QED
      BY <1>10, <3>1 DEF GhEnds
  <2>2. QED
    BY <1>10, <2>1 DEF GhEnds
<1>11. CASE UNCHANGED vars
  BY <1>11
<1>12. QED
  BY <1>1, <1>2, <1>3, <1>4, <1>5, <1>6, <1>7, <1>8, <1>9, <1>10, <1>11 DEF Next, Launcher, World

(* Directory after handlers, streams after directory, gh after all.        *)
LEMMA HandlersStep ==
  ASSUME IInv, [Next]_vars
  PROVE  HandlersFirst'
<1> USE LaunchAssumption, AllHandled, Ends, TypeStep
    DEF IInv, TypeOK, HandlersFirst, PC, Starting,
        vars, launcher, signals, world, child, Goto, EndAs
<1>1. CASE Register \/ CreateRunDir \/ Proceed \/ InstallStream
  BY <1>1 DEF Register, CreateRunDir, Proceed, InstallStream
<1>2. CASE LookupEnds \/ LookupsDone \/ LookupSignalled
  BY <1>2 DEF LookupEnds, LookupsDone, LookupSignalled
<1>3. CASE Check
  BY <1>3 DEF Check
<1>4. CASE Spawn \/ Forward
  BY <1>4 DEF Spawn, Forward, SendGh
<1>5. CASE Reap
  BY <1>5 DEF Reap
<1>6. CASE RemoveRunDir \/ Leave
  BY <1>6 DEF RemoveRunDir, Leave
<1>7. CASE Fails
  BY <1>7 DEF Fails
<1>8. ASSUME NEW s \in Signal, Caller(s) PROVE HandlersFirst'
  BY <1>8 DEF Caller, Sent, Arrives
<1>9. ASSUME NEW s \in Signal, Terminal(s) PROVE HandlersFirst'
  BY <1>9 DEF Terminal, Sent, Arrives, SendGh
<1>10. CASE Hangup
  BY <1>10 DEF Hangup, Move, Sent, Arrives, SendGh, Signal
<1>11. CASE JobControl \/ UNCHANGED vars
  BY <1>11 DEF JobControl, Move
<1>12. CASE GhEnds
  <2>1. \A n \in GhCodes : Exit(n) \in End
    OBVIOUS
  <2>2. ghEnd' \in End
    BY <1>12, <2>1 DEF GhEnds
  <2>3. QED
    BY <1>12, <2>2 DEF GhEnds
<1>13. QED
  BY <1>1, <1>2, <1>3, <1>4, <1>5, <1>6, <1>7, <1>8, <1>9, <1>10, <1>11, <1>12 DEF Next, Launcher, World

(* A signal in the flag is an early one until the last check, and that     *)
(* check lets none through.                                                *)
LEMMA FlaggedStep ==
  ASSUME IInv, [Next]_vars
  PROVE  Flagged'
<1> USE AllHandled, Ends, TypeStep
    DEF IInv, TypeOK, HandlersFirst, PC, Starting,
        vars, launcher, signals, world, child, Goto, EndAs,
        Flagged
<1>1. CASE Register \/ CreateRunDir \/ Proceed \/ InstallStream
  BY <1>1 DEF Register, CreateRunDir, Proceed, InstallStream
<1>2. CASE LookupEnds \/ LookupsDone \/ LookupSignalled
  BY <1>2 DEF LookupEnds, LookupsDone, LookupSignalled
<1>3. CASE Check
  BY <1>3 DEF Check
<1>4. CASE Spawn \/ Forward
  BY <1>4 DEF Spawn, Forward, SendGh
<1>5. CASE Reap
  BY <1>5 DEF Reap
<1>6. CASE RemoveRunDir \/ Leave
  BY <1>6 DEF RemoveRunDir, Leave
<1>7. CASE Fails
  BY <1>7 DEF Fails
<1>8. ASSUME NEW s \in Signal, Caller(s) PROVE Flagged'
  BY <1>8 DEF Caller, Sent, Arrives
<1>9. ASSUME NEW s \in Signal, Terminal(s) PROVE Flagged'
  BY <1>9 DEF Terminal, Sent, Arrives, SendGh
<1>10. CASE Hangup
  <2>1. HUP \in Signal
    BY DEF Signal
  <2>2. QED
    BY <1>10, <2>1 DEF Hangup, Sent, Arrives
<1>11. CASE JobControl \/ GhEnds \/ UNCHANGED vars
  BY <1>11 DEF JobControl, Move, GhEnds
<1>12. QED
  BY <1>1, <1>2, <1>3, <1>4, <1>5, <1>6, <1>7, <1>8, <1>9, <1>10, <1>11 DEF Next, Launcher, World

(* What the launch decides to end as is not decided again.                 *)
LEMMA DecidedStep ==
  ASSUME IInv, [Next]_vars
  PROVE  Decided'
<1> USE AllHandled, Ends, TypeStep
    DEF IInv, TypeOK, HandlersFirst, PC, Starting,
        vars, launcher, signals, world, child, Goto, EndAs,
        Flagged, Decided, DieBy
<1>1. CASE Register \/ CreateRunDir \/ Proceed \/ InstallStream
  BY <1>1 DEF Register, CreateRunDir, Proceed, InstallStream
<1>2. CASE LookupEnds \/ LookupsDone \/ LookupSignalled
  BY <1>2 DEF LookupEnds, LookupsDone, LookupSignalled
<1>3. CASE Check
  BY <1>3 DEF Check
<1>4. CASE Spawn \/ Forward
  BY <1>4 DEF Spawn, Forward, SendGh
<1>5. CASE Reap
  BY <1>5 DEF Reap
<1>6. CASE RemoveRunDir \/ Leave
  BY <1>6 DEF RemoveRunDir, Leave
<1>7. CASE Fails
  BY <1>7 DEF Fails
<1>8. ASSUME NEW s \in Signal, Caller(s) PROVE Decided'
  BY <1>8 DEF Caller, Sent, Arrives
<1>9. ASSUME NEW s \in Signal, Terminal(s) PROVE Decided'
  BY <1>9 DEF Terminal, Sent, Arrives, SendGh
<1>10. CASE Hangup
  BY <1>10 DEF Hangup, Move, Sent, Arrives, SendGh, Signal
<1>11. CASE JobControl \/ GhEnds \/ UNCHANGED vars
  BY <1>11 DEF JobControl, Move, GhEnds
<1>12. QED
  BY <1>1, <1>2, <1>3, <1>4, <1>5, <1>6, <1>7, <1>8, <1>9, <1>10, <1>11 DEF Next, Launcher, World

(* A signal still in its stream is one more for gh only outside the        *)
(* foreground, where the terminal sent it none.                            *)
LEMMA OnceStep ==
  ASSUME IInv, [Next]_vars
  PROVE  OncePending'
<1> USE AllHandled, Ends, TypeStep
    DEF IInv, TypeOK, HandlersFirst, PC, Starting,
        vars, launcher, signals, world, child, Goto, EndAs,
        OncePending, INT, QUIT, TERM, HUP
<1>1. CASE Register \/ CreateRunDir \/ Proceed \/ InstallStream
  BY <1>1 DEF Register, CreateRunDir, Proceed, InstallStream
<1>2. CASE LookupEnds \/ LookupsDone \/ LookupSignalled
  BY <1>2 DEF LookupEnds, LookupsDone, LookupSignalled
<1>3. CASE Check
  BY <1>3 DEF Check
<1>4. CASE Spawn \/ Forward
  <2>1. CASE Spawn
    BY <2>1 DEF Spawn
  <2>2. CASE Forward
    <3>1. PICK s \in stream :
            /\ stream' = stream \ {s}
            /\ got' = got \/ (got' = [got EXCEPT ![s] = @ + 1] /\ (s \in {INT, QUIT} => ~fg))
      BY <2>2 DEF Forward, SendGh
    <3>2. ASSUME moves = 0, NEW x \in {INT, QUIT}
          PROVE  got'[x] + (IF x \in stream' /\ ~fg' THEN 1 ELSE 0) <= sent'[x]
      BY <2>2, <3>1, <3>2 DEF Forward, Signal
    <3>3. QED
      BY <2>2, <3>2 DEF Forward
  <2>3. QED
    BY <1>4, <2>1, <2>2
<1>5. CASE Reap
  BY <1>5 DEF Reap
<1>6. CASE RemoveRunDir \/ Leave
  BY <1>6 DEF RemoveRunDir, Leave
<1>7. CASE Fails
  BY <1>7 DEF Fails
<1>8. ASSUME NEW s \in Signal, Caller(s) PROVE OncePending'
  BY <1>8 DEF Caller, Sent, Arrives
<1>9. ASSUME NEW s \in Signal, Terminal(s) PROVE OncePending'
  BY <1>9 DEF Terminal, Sent, Arrives, SendGh
<1>10. CASE Hangup
  BY <1>10 DEF Hangup, Move, Sent, Arrives, SendGh, Signal
<1>11. CASE JobControl \/ GhEnds \/ UNCHANGED vars
  BY <1>11 DEF JobControl, Move, GhEnds
<1>12. QED
  BY <1>1, <1>2, <1>3, <1>4, <1>5, <1>6, <1>7, <1>8, <1>9, <1>10, <1>11 DEF Next, Launcher, World

(* A process killed by a signal without a handler left nothing and started *)
(* nothing; one that leaves has cleaned up and decided.                    *)
LEMMA ResultStep ==
  ASSUME IInv, [Next]_vars
  PROVE  (CleansUp /\ EarlyAborts /\ EndsLikeGh)'
<1> USE AllHandled, Ends, TypeStep
    DEF IInv, TypeOK, HandlersFirst, PC, Starting,
        vars, launcher, signals, world, child, Goto, EndAs,
        Flagged, Decided, CleansUp, EarlyAborts, EndsLikeGh, DieBy, Handled
<1>1. CASE Register \/ CreateRunDir \/ Proceed \/ InstallStream
  BY <1>1 DEF Register, CreateRunDir, Proceed, InstallStream
<1>2. CASE LookupEnds \/ LookupsDone \/ LookupSignalled
  BY <1>2 DEF LookupEnds, LookupsDone, LookupSignalled
<1>3. CASE Check
  BY <1>3 DEF Check
<1>4. CASE Spawn \/ Forward
  BY <1>4 DEF Spawn, Forward, SendGh
<1>5. CASE Reap
  BY <1>5 DEF Reap
<1>6. CASE RemoveRunDir \/ Leave
  BY <1>6 DEF RemoveRunDir, Leave
<1>7. CASE Fails
  BY <1>7 DEF Fails
<1>8. ASSUME NEW s \in Signal, Caller(s) PROVE (CleansUp /\ EarlyAborts /\ EndsLikeGh)'
  BY <1>8 DEF Caller, Sent, Arrives
<1>9. ASSUME NEW s \in Signal, Terminal(s) PROVE (CleansUp /\ EarlyAborts /\ EndsLikeGh)'
  BY <1>9 DEF Terminal, Sent, Arrives, SendGh
<1>10. CASE Hangup
  BY <1>10 DEF Hangup, Move, Sent, Arrives, SendGh, Signal
<1>11. CASE JobControl \/ GhEnds \/ UNCHANGED vars
  BY <1>11 DEF JobControl, Move, GhEnds
<1>12. QED
  BY <1>1, <1>2, <1>3, <1>4, <1>5, <1>6, <1>7, <1>8, <1>9, <1>10, <1>11 DEF Next, Launcher, World

(* The invariant is inductive, so every launch keeps it.                   *)
THEOREM Invariance == Spec => []IInv
<1>1. Init => IInv
  <2> SUFFICES ASSUME Init PROVE IInv
    OBVIOUS
  <2> USE LaunchAssumption, AllHandled, Ends DEF Init, PC, Starting
  <2>1. TypeOK
    BY DEF TypeOK
  <2>2. HandlersFirst /\ Flagged /\ Decided
    BY DEF HandlersFirst, Flagged, Decided
  <2>3. OncePending
    BY DEF OncePending, Signal
  <2>4. CleansUp /\ EarlyAborts /\ EndsLikeGh
    BY DEF CleansUp, EarlyAborts, EndsLikeGh
  <2>5. QED
    BY <2>1, <2>2, <2>3, <2>4 DEF IInv
<1>2. IInv /\ [Next]_vars => IInv'
  <2> SUFFICES ASSUME IInv, [Next]_vars PROVE IInv'
    OBVIOUS
  <2>1. QED
    BY TypeStep, HandlersStep, FlaggedStep, DecidedStep, OnceStep, ResultStep DEF IInv
<1>3. QED
  BY <1>1, <1>2, PTL DEF Spec

(* Every variable keeps its type.                                          *)
THEOREM TypeCorrect == Spec => []TypeOK
<1>1. IInv => TypeOK
  BY DEF IInv
<1>2. QED
  BY <1>1, Invariance, PTL

(* No signal, failure or moment makes a launch end without having taken    *)
(* its directory apart.                                                    *)
THEOREM CleanedUp == Spec => []CleansUp
<1>1. IInv => CleansUp
  BY DEF IInv
<1>2. QED
  BY <1>1, Invariance, PTL

(* A signal before the last check keeps gh from starting and ends the      *)
(* launch.                                                                 *)
THEOREM Aborted == Spec => []EarlyAborts
<1>1. IInv => EarlyAborts
  BY DEF IInv
<1>2. QED
  BY <1>1, Invariance, PTL

(* The launcher ends as gh ended.                                          *)
THEOREM StandsIn == Spec => []EndsLikeGh
<1>1. IInv => EndsLikeGh
  BY DEF IInv
<1>2. QED
  BY <1>1, Invariance, PTL

(* A terminal and the launcher never both deliver a Ctrl-C.                *)
THEOREM OneInterrupt == Spec => []InterruptedOnce
<1>1. ASSUME IInv PROVE InterruptedOnce
  <2> SUFFICES ASSUME moves = 0, NEW s \in {INT, QUIT} PROVE got[s] <= sent[s]
    BY DEF InterruptedOnce
  <2>1. got[s] \in Nat /\ sent[s] \in Nat
    BY <1>1 DEF IInv, TypeOK, Signal
  <2>2. QED
    BY <1>1, <2>1 DEF IInv, OncePending
<1>2. QED
  BY <1>1, Invariance, PTL

(* A signal means the same whenever it arrives.                            *)
THEOREM Honoured == Spec => []SignalsHonoured
<1>1. EarlyAborts /\ EndsLikeGh /\ InterruptedOnce => SignalsHonoured
  BY DEF SignalsHonoured
<1>2. QED
  BY <1>1, Aborted, StandsIn, OneInterrupt, PTL
=============================================================================
