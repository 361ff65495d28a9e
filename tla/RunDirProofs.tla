---------------------------- MODULE RunDirProofs ----------------------------
(* Proofs about the run directories, for any number of launches,           *)
(* directories, crashes, failing calls and foreign files.  IInv is inductive: *)
(* one lemma per part of it, one step per group of actions.  The theorems  *)
(* follow from it, and from it that the run directories implement the      *)
(* token lease.                                                            *)
EXTENDS RunDirLease, TLAPS


(* A sweep is in a directory exactly while its lock file is open, and a    *)
(* launch past mkdir has a directory, so the functions are updated within  *)
(* their types.                                                            *)
LEMMA TypeStep ==
  ASSUME IInv, [Next]_vars
  PROVE  TypeOK'
<1> USE RunDirAssumption
    DEF IInv, TypeOK, LockInv, OwnInv, Files, Known, Secrets,
        vars, disk, bounds, Goto, NAMES, WRITES, Optional, Staged, Unknown,
        PC, Sweeping, Creating, Holding, Removing, Ended, Visiting, Fresh
<1>1. ASSUME NEW p \in Launchers, Sweep(p) PROVE TypeOK'
  BY <1>1 DEF Sweep, SweepSkip, SweepOpen, SweepTryLock, SweepRead, SweepRemove,
              SweepDone, RemoveKnown, RemoveName, RemoveDirectory
<1>2. ASSUME NEW p \in Launchers, Create(p) PROVE TypeOK'
  BY <1>2 DEF Create, MakeDirectory, StageLock, TakeLock, WriteMarker, NameLock
<1>3. ASSUME NEW p \in Launchers, Use(p) PROVE TypeOK'
  BY <1>3 DEF Use, WriteFile, EndsBeforeGh, StartGh, GhExits, Panic, PanicsRedirected
<1>4. ASSUME NEW p \in Launchers, Leave(p) PROVE TypeOK'
  BY <1>4 DEF Leave, RemoveOwn, DropOwn, Return, RemoveKnown, RemoveName, RemoveDirectory
<1>5. ASSUME NEW p \in Launchers, Failure(p) PROVE TypeOK'
  BY <1>5 DEF Failure, SweepReadFails, SweepRemoveFails, MakeDirectoryFails,
              CreateFails, WriteFails, RemoveOwnFails, DropOwnFails, RemoveFails, Fault
<1>6. ASSUME NEW p \in Launchers, Crash(p) PROVE TypeOK'
  BY <1>6 DEF Crash
<1>7. CASE LeaveForeignFile
  BY <1>7 DEF LeaveForeignFile
<1>8. CASE UNCHANGED vars
  BY <1>8
<1>9. QED
  BY <1>1, <1>2, <1>3, <1>4, <1>5, <1>6, <1>7, <1>8 DEF Next

(* Only the holder of a lock, or its death, gives it back; nobody has the  *)
(* lock of a directory whose owner is about to take it.                    *)
LEMMA LockStep ==
  ASSUME IInv, [Next]_vars
  PROVE  LockInv'
<1> USE RunDirAssumption
    DEF IInv, TypeOK, LockInv, OwnInv, FreshInv,
        vars, disk, bounds, Goto, NAMES, WRITES, Optional, Staged, Unknown,
        PC, Sweeping, Creating, Holding, Removing, Ended, Visiting, Fresh
<1>1. ASSUME NEW p \in Launchers, Sweep(p) PROVE LockInv'
  BY <1>1 DEF Sweep, SweepSkip, SweepOpen, SweepTryLock, SweepRead, SweepRemove,
              SweepDone, RemoveKnown, RemoveName, RemoveDirectory
<1>2. ASSUME NEW p \in Launchers, Create(p) PROVE LockInv'
  BY <1>2 DEF Create, MakeDirectory, StageLock, TakeLock, WriteMarker, NameLock
<1>3. ASSUME NEW p \in Launchers, Use(p) PROVE LockInv'
  BY <1>3 DEF Use, WriteFile, EndsBeforeGh, StartGh, GhExits, Panic, PanicsRedirected
<1>4. ASSUME NEW p \in Launchers, Leave(p) PROVE LockInv'
  BY <1>4 DEF Leave, RemoveOwn, DropOwn, Return, RemoveKnown, RemoveName, RemoveDirectory
<1>5. ASSUME NEW p \in Launchers, Failure(p) PROVE LockInv'
  BY <1>5 DEF Failure, SweepReadFails, SweepRemoveFails, MakeDirectoryFails,
              CreateFails, WriteFails, RemoveOwnFails, DropOwnFails, RemoveFails, Fault
<1>6. ASSUME NEW p \in Launchers, Crash(p) PROVE LockInv'
  BY <1>6 DEF Crash
<1>7. CASE LeaveForeignFile
  BY <1>7 DEF LeaveForeignFile
<1>8. CASE UNCHANGED vars
  BY <1>8
<1>9. QED
  BY <1>1, <1>2, <1>3, <1>4, <1>5, <1>6, <1>7, <1>8 DEF Next

(* mkdir succeeds only under a name nobody has, so owners stay distinct.   *)
LEMMA OwnStep ==
  ASSUME IInv, [Next]_vars
  PROVE  OwnInv'
<1> USE RunDirAssumption
    DEF IInv, TypeOK, LockInv, OwnInv,
        vars, disk, bounds, Goto, NAMES, WRITES, Optional, Staged, Unknown,
        PC, Sweeping, Creating, Holding, Removing, Ended, Visiting, Fresh
<1>1. ASSUME NEW p \in Launchers, Sweep(p) PROVE OwnInv'
  BY <1>1 DEF Sweep, SweepSkip, SweepOpen, SweepTryLock, SweepRead, SweepRemove,
              SweepDone, RemoveKnown, RemoveName, RemoveDirectory
<1>2. ASSUME NEW p \in Launchers, Create(p) PROVE OwnInv'
  BY <1>2 DEF Create, MakeDirectory, StageLock, TakeLock, WriteMarker, NameLock
<1>3. ASSUME NEW p \in Launchers, Use(p) PROVE OwnInv'
  BY <1>3 DEF Use, WriteFile, EndsBeforeGh, StartGh, GhExits, Panic, PanicsRedirected
<1>4. ASSUME NEW p \in Launchers, Leave(p) PROVE OwnInv'
  BY <1>4 DEF Leave, RemoveOwn, DropOwn, Return, RemoveKnown, RemoveName, RemoveDirectory
<1>5. ASSUME NEW p \in Launchers, Failure(p) PROVE OwnInv'
  BY <1>5 DEF Failure, SweepReadFails, SweepRemoveFails, MakeDirectoryFails,
              CreateFails, WriteFails, RemoveOwnFails, DropOwnFails, RemoveFails, Fault
<1>6. ASSUME NEW p \in Launchers, Crash(p) PROVE OwnInv'
  BY <1>6 DEF Crash
<1>7. CASE LeaveForeignFile
  BY <1>7 DEF LeaveForeignFile
<1>8. CASE UNCHANGED vars
  BY <1>8
<1>9. QED
  BY <1>1, <1>2, <1>3, <1>4, <1>5, <1>6, <1>7, <1>8 DEF Next

(* Until the rename only the owner changes a new directory: a sweep can    *)
(* open nothing in it.                                                     *)
LEMMA FreshStep ==
  ASSUME IInv, [Next]_vars
  PROVE  FreshInv'
<1> USE RunDirAssumption
    DEF IInv, TypeOK, LockInv, OwnInv, FreshInv, HoldsSecret, Secrets,
        vars, disk, bounds, Goto, NAMES, WRITES, Optional, Staged, Unknown,
        PC, Sweeping, Creating, Holding, Removing, Ended, Visiting, Fresh
<1>1. ASSUME NEW p \in Launchers, Sweep(p) PROVE FreshInv'
  BY <1>1 DEF Sweep, SweepSkip, SweepOpen, SweepTryLock, SweepRead, SweepRemove,
              SweepDone, RemoveKnown, RemoveName, RemoveDirectory
<1>2. ASSUME NEW p \in Launchers, Create(p) PROVE FreshInv'
  BY <1>2 DEF Create, MakeDirectory, StageLock, TakeLock, WriteMarker, NameLock
<1>3. ASSUME NEW p \in Launchers, Use(p) PROVE FreshInv'
  BY <1>3 DEF Use, WriteFile, EndsBeforeGh, StartGh, GhExits, Panic, PanicsRedirected
<1>4. ASSUME NEW p \in Launchers, Leave(p) PROVE FreshInv'
  BY <1>4 DEF Leave, RemoveOwn, DropOwn, Return, RemoveKnown, RemoveName, RemoveDirectory
<1>5. ASSUME NEW p \in Launchers, Failure(p) PROVE FreshInv'
  BY <1>5 DEF Failure, SweepReadFails, SweepRemoveFails, MakeDirectoryFails,
              CreateFails, WriteFails, RemoveOwnFails, DropOwnFails, RemoveFails, Fault
<1>6. ASSUME NEW p \in Launchers, Crash(p) PROVE FreshInv'
  BY <1>6 DEF Crash
<1>7. CASE LeaveForeignFile
  BY <1>7 DEF LeaveForeignFile
<1>8. CASE UNCHANGED vars
  BY <1>8
<1>9. QED
  BY <1>1, <1>2, <1>3, <1>4, <1>5, <1>6, <1>7, <1>8 DEF Next

(* What a removal has passed does not come back: the only process that     *)
(* writes token files into a directory holds its lock, so it is not the one *)
(* being removed under another process.                                    *)
LEMMA RemovalStep ==
  ASSUME IInv, [Next]_vars
  PROVE  RemovalInv'
<1> USE RunDirAssumption
    DEF IInv, TypeOK, LockInv, OwnInv, RemovalInv, Cleared, Secrets,
        vars, disk, bounds, Goto, NAMES, WRITES, Optional, Staged, Unknown,
        PC, Sweeping, Creating, Holding, Removing, Ended, Visiting, Fresh
<1>1. ASSUME NEW p \in Launchers, Sweep(p) PROVE RemovalInv'
  BY <1>1 DEF Sweep, SweepSkip, SweepOpen, SweepTryLock, SweepRead, SweepRemove,
              SweepDone, RemoveKnown, RemoveName, RemoveDirectory
<1>2. ASSUME NEW p \in Launchers, Create(p) PROVE RemovalInv'
  BY <1>2 DEF Create, MakeDirectory, StageLock, TakeLock, WriteMarker, NameLock
<1>3. ASSUME NEW p \in Launchers, Use(p) PROVE RemovalInv'
  BY <1>3 DEF Use, WriteFile, EndsBeforeGh, StartGh, GhExits, Panic, PanicsRedirected
<1>4. ASSUME NEW p \in Launchers, Leave(p) PROVE RemovalInv'
  BY <1>4 DEF Leave, RemoveOwn, DropOwn, Return, RemoveKnown, RemoveName, RemoveDirectory
<1>5. ASSUME NEW p \in Launchers, Failure(p) PROVE RemovalInv'
  BY <1>5 DEF Failure, SweepReadFails, SweepRemoveFails, MakeDirectoryFails,
              CreateFails, WriteFails, RemoveOwnFails, DropOwnFails, RemoveFails, Fault
<1>6. ASSUME NEW p \in Launchers, Crash(p) PROVE RemovalInv'
  BY <1>6 DEF Crash
<1>7. CASE LeaveForeignFile
  BY <1>7 DEF LeaveForeignFile
<1>8. CASE UNCHANGED vars
  BY <1>8
<1>9. QED
  BY <1>1, <1>2, <1>3, <1>4, <1>5, <1>6, <1>7, <1>8 DEF Next

(* `lock` is taken away only by a removal that has passed both token files, *)
(* and tokens are written only where `lock` is.                            *)
LEMMA SecretStep ==
  ASSUME IInv, [Next]_vars
  PROVE  SecretsHaveLock'
<1> USE RunDirAssumption
    DEF IInv, TypeOK, OwnInv, FreshInv, RemovalInv, LiveNotSwept, SecretsHaveLock,
        HoldsSecret, Cleared, Secrets,
        vars, disk, bounds, Goto, NAMES, WRITES, Optional, Staged, Unknown,
        PC, Sweeping, Creating, Holding, Removing, Ended, Visiting, Fresh
<1>1. ASSUME NEW p \in Launchers, Sweep(p) PROVE SecretsHaveLock'
  BY <1>1 DEF Sweep, SweepSkip, SweepOpen, SweepTryLock, SweepRead, SweepRemove,
              SweepDone, RemoveKnown, RemoveName, RemoveDirectory
<1>2. ASSUME NEW p \in Launchers, Create(p) PROVE SecretsHaveLock'
  BY <1>2 DEF Create, MakeDirectory, StageLock, TakeLock, WriteMarker, NameLock
<1>3. ASSUME NEW p \in Launchers, Use(p) PROVE SecretsHaveLock'
  BY <1>3 DEF Use, WriteFile, EndsBeforeGh, StartGh, GhExits, Panic, PanicsRedirected
<1>4. ASSUME NEW p \in Launchers, Leave(p) PROVE SecretsHaveLock'
  BY <1>4 DEF Leave, RemoveOwn, DropOwn, Return, RemoveKnown, RemoveName, RemoveDirectory
<1>5. ASSUME NEW p \in Launchers, Failure(p) PROVE SecretsHaveLock'
  BY <1>5 DEF Failure, SweepReadFails, SweepRemoveFails, MakeDirectoryFails,
              CreateFails, WriteFails, RemoveOwnFails, DropOwnFails, RemoveFails, Fault
<1>6. ASSUME NEW p \in Launchers, Crash(p) PROVE SecretsHaveLock'
  BY <1>6 DEF Crash
<1>7. CASE LeaveForeignFile
  BY <1>7 DEF LeaveForeignFile
<1>8. CASE UNCHANGED vars
  BY <1>8
<1>9. QED
  BY <1>1, <1>2, <1>3, <1>4, <1>5, <1>6, <1>7, <1>8 DEF Next

(* A process that takes names out of a directory holds its lock, and a     *)
(* launch using its directory holds it too; so they are the same process,  *)
(* and a launch does not do both at once.                                  *)
LEMMA LiveStep ==
  ASSUME IInv, [Next]_vars
  PROVE  LiveNotSwept'
<1> USE RunDirAssumption
    DEF IInv, TypeOK, LockInv, OwnInv, FreshInv, LiveNotSwept,
        vars, disk, bounds, Goto, NAMES, WRITES, Optional, Staged, Unknown,
        PC, Sweeping, Creating, Holding, Removing, Ended, Visiting, Fresh
<1>1. ASSUME NEW p \in Launchers, Sweep(p) PROVE LiveNotSwept'
  BY <1>1 DEF Sweep, SweepSkip, SweepOpen, SweepTryLock, SweepRead, SweepRemove,
              SweepDone, RemoveKnown, RemoveName, RemoveDirectory
<1>2. ASSUME NEW p \in Launchers, Create(p) PROVE LiveNotSwept'
  BY <1>2 DEF Create, MakeDirectory, StageLock, TakeLock, WriteMarker, NameLock
<1>3. ASSUME NEW p \in Launchers, Use(p) PROVE LiveNotSwept'
  BY <1>3 DEF Use, WriteFile, EndsBeforeGh, StartGh, GhExits, Panic, PanicsRedirected
<1>4. ASSUME NEW p \in Launchers, Leave(p) PROVE LiveNotSwept'
  BY <1>4 DEF Leave, RemoveOwn, DropOwn, Return, RemoveKnown, RemoveName, RemoveDirectory
<1>5. ASSUME NEW p \in Launchers, Failure(p) PROVE LiveNotSwept'
  BY <1>5 DEF Failure, SweepReadFails, SweepRemoveFails, MakeDirectoryFails,
              CreateFails, WriteFails, RemoveOwnFails, DropOwnFails, RemoveFails, Fault
<1>6. ASSUME NEW p \in Launchers, Crash(p) PROVE LiveNotSwept'
  BY <1>6 DEF Crash
<1>7. CASE LeaveForeignFile
  BY <1>7 DEF LeaveForeignFile
<1>8. CASE UNCHANGED vars
  BY <1>8
<1>9. QED
  BY <1>1, <1>2, <1>3, <1>4, <1>5, <1>6, <1>7, <1>8 DEF Next

-----------------------------------------------------------------------------
(* The launches start in the invariant.                                    *)
LEMMA InitInv == Init => IInv
<1> SUFFICES ASSUME Init PROVE IInv
  OBVIOUS
<1> USE RunDirAssumption DEF Init
<1>1. TypeOK
  BY DEF TypeOK, PC, Sweeping, Files, Known
<1>2. LockInv /\ OwnInv
  BY DEF LockInv, OwnInv, Sweeping, Creating, Holding, Removing, Visiting, Fresh
<1>3. FreshInv /\ RemovalInv
  BY DEF FreshInv, RemovalInv, Fresh, Removing
<1>4. SecretsHaveLock /\ LiveNotSwept
  BY DEF SecretsHaveLock, LiveNotSwept, Holding
<1>5. QED
  BY <1>1, <1>2, <1>3, <1>4 DEF IInv

(* Every step keeps it.                                                    *)
LEMMA StepInv == IInv /\ [Next]_vars => IInv'
  BY TypeStep, LockStep, OwnStep, FreshStep, RemovalStep, SecretStep, LiveStep DEF IInv

(* So it holds throughout.                                                 *)
THEOREM Invariance == Spec => []IInv
<1>1. Init => IInv
  BY InitInv
<1>2. IInv /\ [Next]_vars => IInv'
  BY StepInv
<1>3. QED
  BY <1>1, <1>2, PTL DEF Spec

(* The variables keep their types.                                         *)
THEOREM TypeCorrect == Spec => []TypeOK
<1>1. IInv => TypeOK
  BY DEF IInv
<1>2. QED
  BY <1>1, Invariance, PTL

(* No crash and no failing call leaves a token where no sweep can find it. *)
THEOREM TokensFindable == Spec => []SecretsHaveLock
<1>1. IInv => SecretsHaveLock
  BY DEF IInv
<1>2. QED
  BY <1>1, Invariance, PTL

(* No sweep touches the directory of a launch that is using it.            *)
THEOREM LiveKept == Spec => []LiveNotSwept
<1>1. IInv => LiveNotSwept
  BY DEF IInv
<1>2. QED
  BY <1>1, Invariance, PTL

(* Two processes never take the same directory apart at the same time:     *)
(* each of them holds its lock.                                            *)
THEOREM Exclusive == Spec => []OneRemover
<1>1. ASSUME IInv PROVE OneRemover
  BY <1>1 DEF IInv, TypeOK, LockInv, OneRemover, RemoverOf, Removing, Holding
<1>2. QED
  BY <1>1, Invariance, PTL

(* create never meets its own fresh lock file already locked.              *)
THEOREM FreshLock == Spec => []FreshLockFree
<1>1. ASSUME IInv PROVE FreshLockFree
  BY <1>1 DEF IInv, FreshInv, FreshLockFree
<1>2. QED
  BY <1>1, Invariance, PTL

(* A sweep clears only a directory with the marker, and only a launch's    *)
(* directory has it: the user's own are left as they are.                  *)
THEOREM PlantedSafe == Spec => PlantedUntouched
<1> DEFINE Kept == \A d \in Planted : d \in dirs' /\ entries[d] \subseteq entries'[d]
<1>1. ASSUME IInv, [Next]_vars PROVE Kept
  <2> USE RunDirAssumption
      DEF IInv, TypeOK, LockInv, OwnInv, vars, disk, bounds, Goto, WRITES,
          PC, Sweeping, Creating, Holding, Removing, Ended, Visiting, Fresh
  <2>1. ASSUME NEW p \in Launchers, Sweep(p) PROVE Kept
    BY <1>1, <2>1 DEF Sweep, SweepSkip, SweepOpen, SweepTryLock, SweepRead, SweepRemove,
                SweepDone, RemoveKnown, RemoveName, RemoveDirectory
  <2>2. ASSUME NEW p \in Launchers, Create(p) PROVE Kept
    BY <1>1, <2>2 DEF Create, MakeDirectory, StageLock, TakeLock, WriteMarker, NameLock
  <2>3. ASSUME NEW p \in Launchers, Use(p) PROVE Kept
    BY <1>1, <2>3 DEF Use, WriteFile, EndsBeforeGh, StartGh, GhExits, Panic, PanicsRedirected
  <2>4. ASSUME NEW p \in Launchers, Leave(p) PROVE Kept
    BY <1>1, <2>4 DEF Leave, RemoveOwn, DropOwn, Return, RemoveKnown, RemoveName, RemoveDirectory
  <2>5. ASSUME NEW p \in Launchers, Failure(p) PROVE Kept
    BY <1>1, <2>5 DEF Failure, SweepReadFails, SweepRemoveFails, MakeDirectoryFails,
                CreateFails, WriteFails, RemoveOwnFails, DropOwnFails, RemoveFails, Fault
  <2>6. CASE (\E p \in Launchers : Crash(p)) \/ LeaveForeignFile \/ UNCHANGED vars
    BY <1>1, <2>6 DEF Crash, LeaveForeignFile
  <2>7. QED
    BY <1>1, <2>1, <2>2, <2>3, <2>4, <2>5, <2>6 DEF Next
<1>2. QED
  BY <1>1, Invariance, PTL DEF Spec, PlantedUntouched

(* Everything a run directory promises, in every interleaving.             *)
THEOREM Safe == Spec => []DirectoriesSafe
<1>1. SecretsHaveLock /\ LiveNotSwept /\ OneRemover /\ FreshLockFree => DirectoriesSafe
  BY DEF DirectoriesSafe
<1>2. QED
  BY <1>1, TokensFindable, LiveKept, Exclusive, FreshLock, PTL

-----------------------------------------------------------------------------
(* The run directories implement the token lease.                          *)

(* What the token lease sees of a state.                                   *)
LeaseMap == [d \in Dirs |-> LeaseOf(d)]
SecretPlaces == {d \in used : HoldsSecret(d)}
FindablePlaces == {d \in used : "lock" \in entries[d]}

(* What it sees of a launch that has a directory.                          *)
Stage(label) ==
    CASE label \in Creating \cup Holding -> "granted"
      [] label \in Removing -> "closing"
      [] OTHER -> "ended"

(* Only p moves, and takes no directory: at most p's own lease turns.      *)
OnlyMoves(p) ==
    /\ own' = own /\ used' = used
    /\ \A q \in Launchers \ {p} : pc'[q] = pc[q]

LEMMA OwnerMoves ==
  ASSUME IInv, IInv', NEW p \in Launchers, OnlyMoves(p), own[p] # None
  PROVE  /\ LeaseMap[own[p]] = Stage(pc[p])
         /\ LeaseMap' = [LeaseMap EXCEPT ![own[p]] = Stage(pc'[p])]
<1> USE RunDirAssumption DEF IInv, TypeOK, OwnInv, OnlyMoves, LeaseMap
<1>1. own[p] \in used /\ own[p] \in Dirs /\ \A q \in Launchers : own[q] = own[p] => q = p
  OBVIOUS
<1>2. LeaseOf(own[p]) = Stage(pc[p])
  BY <1>1 DEF LeaseOf, Stage, Creating, Holding, Removing
<1>3. LeaseOf(own[p])' = Stage(pc'[p])
  BY <1>1 DEF LeaseOf, Stage, Creating, Holding, Removing
<1>4. ASSUME NEW d \in Dirs, d # own[p] PROVE LeaseOf(d)' = LeaseOf(d)
  BY <1>4 DEF LeaseOf
<1>5. QED
  BY <1>1, <1>2, <1>3, <1>4

LEMMA OwnerStays ==
  ASSUME IInv, IInv', NEW p \in Launchers, OnlyMoves(p),
         own[p] = None \/ Stage(pc'[p]) = Stage(pc[p])
  PROVE  LeaseMap' = LeaseMap
<1>1. CASE own[p] = None
  <2>1. ASSUME NEW d \in Dirs PROVE LeaseOf(d)' = LeaseOf(d)
    BY <1>1, <2>1, RunDirAssumption DEF IInv, TypeOK, OnlyMoves, LeaseOf
  <2>2. QED
    BY <2>1 DEF LeaseMap
<1>2. CASE own[p] # None
  <2>1. LeaseMap' = [LeaseMap EXCEPT ![own[p]] = LeaseMap[own[p]]]
    BY <1>2, OwnerMoves
  <2>2. LeaseMap = [d \in Dirs |-> LeaseMap[d]]
    BY DEF LeaseMap
  <2>3. QED
    BY <2>1, <2>2
<1>3. QED
  BY <1>1, <1>2

(* One directory's names change.                                           *)
LEMMA OneDirectory ==
  ASSUME IInv, NEW d \in used, NEW names, used' = used,
         entries' = [entries EXCEPT ![d] = names]
  PROVE  /\ SecretPlaces' = IF names \cap Secrets = {} THEN SecretPlaces \ {d}
                                                       ELSE SecretPlaces \cup {d}
         /\ FindablePlaces' = IF "lock" \in names THEN FindablePlaces \cup {d}
                                                  ELSE FindablePlaces \ {d}
  BY DEF IInv, TypeOK, SecretPlaces, FindablePlaces, HoldsSecret

LEMMA NoDirectory ==
  ASSUME used' = used, entries' = entries
  PROVE  SecretPlaces' = SecretPlaces /\ FindablePlaces' = FindablePlaces
  BY DEF SecretPlaces, FindablePlaces, HoldsSecret

(* Taking a name out of a directory whose lease is closing or over.        *)
LEMMA NameRemoved ==
  ASSUME IInv, NEW d \in used, NEW i \in 1..7, Cleared(d, i), used' = used,
         entries' = [entries EXCEPT ![d] = @ \ {NAMES[i]}],
         LeaseMap' = LeaseMap, LeaseMap[d] \in {"closing", "ended"}
  PROVE  [Lease!Next]_(Lease!leaseVars)
<1> USE DEF Lease!Next, Lease!leaseVars, LeaseMap, SecretPlaces, FindablePlaces
<1>0. d \in Dirs
  BY DEF IInv, TypeOK
<1>1. CASE i \in {3, 4}
  <2>1. /\ SecretPlaces' = SecretPlaces \/ SecretPlaces' = SecretPlaces \ {d}
        /\ FindablePlaces' = FindablePlaces
    BY <1>1 DEF IInv, TypeOK, NAMES, HoldsSecret, Secrets
  <2>2. QED
    BY <1>0, <2>1 DEF Lease!Withdraw
<1>2. CASE i = 7
  <2>1. d \notin SecretPlaces /\ SecretPlaces' = SecretPlaces /\ FindablePlaces' = FindablePlaces \ {d}
    BY <1>2 DEF IInv, TypeOK, NAMES, HoldsSecret, Secrets, Cleared
  <2>2. QED
    BY <1>0, <2>1 DEF Lease!Hide
<1>3. CASE i \in {1, 2, 5, 6}
  <2>1. SecretPlaces' = SecretPlaces /\ FindablePlaces' = FindablePlaces
    BY <1>3 DEF IInv, TypeOK, NAMES, HoldsSecret, Secrets
  <2>2. QED
    BY <2>1
<1>4. QED
  BY <1>1, <1>2, <1>3

(* A lease closes or ends while the names stay.                            *)
LEMMA LeaseTurns ==
  ASSUME IInv, IInv', NEW p \in Launchers, OnlyMoves(p),
         SecretPlaces' = SecretPlaces, FindablePlaces' = FindablePlaces,
         \/ own[p] = None
         \/ Stage(pc'[p]) = Stage(pc[p])
         \/ Stage(pc[p]) = "granted" /\ Stage(pc'[p]) \in {"closing", "ended"}
         \/ Stage(pc[p]) = "closing" /\ Stage(pc'[p]) = "ended"
  PROVE  [Lease!Next]_(Lease!leaseVars)
<1> USE DEF Lease!leaseVars, LeaseMap, SecretPlaces, FindablePlaces
<1>1. CASE own[p] = None \/ Stage(pc'[p]) = Stage(pc[p])
  BY <1>1, OwnerStays
<1>2. CASE own[p] # None /\ Stage(pc'[p]) # Stage(pc[p])
  <2>1. own[p] \in Dirs
    BY <1>2 DEF IInv, TypeOK
  <2>2. LeaseMap[own[p]] = Stage(pc[p]) /\ LeaseMap' = [LeaseMap EXCEPT ![own[p]] = Stage(pc'[p])]
    BY <1>2, OwnerMoves
  <2>3. QED
    BY <1>2, <2>1, <2>2 DEF Lease!Next, Lease!Close, Lease!End, Lease!Turn
<1>3. QED
  BY <1>1, <1>2

(* Every step of the run directories is one of the token lease, or changes *)
(* nothing it sees.                                                        *)
LEMMA LeaseStep ==
  ASSUME IInv, IInv', [Next]_vars
  PROVE  [Lease!Next]_(Lease!leaseVars)
<1> USE RunDirAssumption DEF vars, disk, bounds, Goto
<1>a. ASSUME LeaseMap' = LeaseMap, SecretPlaces' = SecretPlaces, FindablePlaces' = FindablePlaces
      PROVE  [Lease!Next]_(Lease!leaseVars)
  BY <1>a DEF Lease!leaseVars, LeaseMap, SecretPlaces, FindablePlaces
<1>b. \A d \in used : d \in Dirs
  BY DEF IInv, TypeOK
<1>1. ASSUME NEW p \in Launchers, Sweep(p) PROVE [Lease!Next]_(Lease!leaseVars)
  <2>1. OnlyMoves(p)
    BY <1>1 DEF IInv, TypeOK, OnlyMoves, Sweep, SweepSkip, SweepOpen, SweepTryLock, SweepRead,
                SweepRemove, SweepDone, RemoveKnown, RemoveName, RemoveDirectory
  <2>2. own[p] = None
    BY <1>1 DEF IInv, OwnInv, Sweep, SweepSkip, SweepOpen, SweepTryLock, SweepRead,
                SweepRemove, SweepDone, Sweeping
  <2>3. LeaseMap' = LeaseMap
    BY <2>1, <2>2, OwnerStays
  <2>4. CASE pc[p] = "clearing" /\ RemoveName(p, at[p])
    <3> DEFINE d == at[p]
    <3>1. d \in used /\ flock[d] = p /\ idx[p] \in 1..7 /\ Cleared(d, idx[p])
      BY <2>4 DEF IInv, TypeOK, OwnInv, LockInv, RemovalInv, RemoveName, NAMES
    <3>2. \A q \in Launchers : own[q] = d => pc[q] \notin Creating \cup Holding
      BY <2>4, <3>1, <1>b DEF IInv, TypeOK, OwnInv, LockInv, FreshInv, Creating, Fresh, Holding
    <3>3. LeaseMap[d] \in {"closing", "ended"}
      BY <3>1, <3>2, <1>b DEF LeaseMap, LeaseOf
    <3>4. entries' = [entries EXCEPT ![d] = @ \ {NAMES[idx[p]]}] /\ used' = used
      BY <2>4 DEF RemoveName
    <3>5. QED
      BY <2>3, <3>1, <3>3, <3>4, NameRemoved
  <2>5. CASE ~(pc[p] = "clearing" /\ RemoveName(p, at[p]))
    <3>1. entries' = entries /\ used' = used
      BY <1>1, <2>5 DEF Sweep, SweepSkip, SweepOpen, SweepTryLock, SweepRead,
                SweepRemove, SweepDone, RemoveKnown, RemoveDirectory
    <3>2. QED
      BY <3>1, <2>3, <1>a, NoDirectory
  <2>6. QED
    BY <2>4, <2>5
<1>2. ASSUME NEW p \in Launchers, Create(p) PROVE [Lease!Next]_(Lease!leaseVars)
  <2>1. CASE MakeDirectory(p)
    <3>1. PICK d \in Dirs \ (dirs \cup used \cup Planted) :
             used' = used \cup {d} /\ own' = [own EXCEPT ![p] = d]
      BY <2>1 DEF MakeDirectory
    <3>2. LeaseMap[d] = "free"
      BY <3>1 DEF IInv, TypeOK, OwnInv, LeaseMap, LeaseOf
    <3>3. LeaseOf(d)' = "granted"
      BY <2>1, <3>1 DEF IInv, TypeOK, OwnInv, LeaseOf, MakeDirectory, Creating, Removing, Holding
    <3>4. ASSUME NEW e \in Dirs, e # d PROVE LeaseOf(e)' = LeaseOf(e)
      BY <2>1, <3>1, <3>4 DEF IInv, TypeOK, OwnInv, LeaseOf, MakeDirectory, Creating, Holding, Removing
    <3>5. LeaseMap' = [LeaseMap EXCEPT ![d] = "granted"]
      BY <3>3, <3>4 DEF LeaseMap
    <3>6. SecretPlaces' = SecretPlaces /\ FindablePlaces' = FindablePlaces
      BY <2>1, <3>1 DEF IInv, FreshInv, MakeDirectory, SecretPlaces, FindablePlaces, HoldsSecret
    <3>7. QED
      BY <3>1, <3>2, <3>5, <3>6 DEF Lease!Next, Lease!Grant, Lease!Turn, Lease!leaseVars,
                                    LeaseMap, SecretPlaces, FindablePlaces
  <2>2. ASSUME StageLock(p) \/ TakeLock(p) \/ WriteMarker(p) \/ NameLock(p)
        PROVE  /\ own[p] \in used /\ own[p] # None
               /\ LeaseMap' = LeaseMap /\ LeaseMap[own[p]] = "granted"
    <3>1. OnlyMoves(p) /\ pc[p] \in Fresh /\ pc'[p] \in Fresh \cup Holding
      BY <2>2 DEF IInv, TypeOK, OnlyMoves, StageLock, TakeLock, WriteMarker, NameLock, Fresh, Holding
    <3>2. own[p] \in used /\ own[p] # None
      BY <3>1 DEF IInv, TypeOK, OwnInv
    <3>3. Stage(pc[p]) = "granted" /\ Stage(pc'[p]) = "granted"
      BY <3>1 DEF Stage, Fresh, Creating, Holding, Removing
    <3>4. QED
      BY <3>1, <3>2, <3>3, OwnerMoves, OwnerStays
  <2>3. CASE StageLock(p)
    <3>1. SecretPlaces' = SecretPlaces /\ FindablePlaces' = FindablePlaces
      BY <2>2, <2>3 DEF IInv, TypeOK, StageLock, SecretPlaces, FindablePlaces, HoldsSecret, Secrets, Staged
    <3>2. QED
      BY <2>2, <2>3, <3>1, <1>a
  <2>4. CASE TakeLock(p) \/ WriteMarker(p)
    <3>1. entries' = entries /\ used' = used
      BY <2>4 DEF TakeLock, WriteMarker
    <3>2. QED
      BY <2>2, <2>4, <3>1, <1>a, NoDirectory
  <2>5. CASE NameLock(p)
    <3>1. SecretPlaces' = SecretPlaces /\ FindablePlaces' = FindablePlaces \cup {own[p]}
      BY <2>2, <2>5 DEF IInv, TypeOK, NameLock, SecretPlaces, FindablePlaces, HoldsSecret, Secrets, Staged
    <3>2. QED
      BY <2>2, <2>5, <3>1, <1>b DEF Lease!Next, Lease!Announce, Lease!leaseVars,
                                    LeaseMap, SecretPlaces, FindablePlaces
  <2>6. QED
    BY <1>2, <2>1, <2>3, <2>4, <2>5 DEF Create
<1>3. ASSUME NEW p \in Launchers, Use(p) PROVE [Lease!Next]_(Lease!leaseVars)
  <2>1. OnlyMoves(p) /\ own[p] # None /\ own[p] \in used
    BY <1>3 DEF IInv, TypeOK, OwnInv, OnlyMoves, Use, WriteFile, StartGh, EndsBeforeGh, GhExits,
                Panic, PanicsRedirected, Holding, Removing
  <2>2. CASE StartGh(p) \/ EndsBeforeGh(p) \/ GhExits(p)
    <3>1. entries' = entries /\ used' = used
      BY <2>2 DEF StartGh, EndsBeforeGh, GhExits
    <3>2. Stage(pc[p]) = "granted" /\ Stage(pc'[p]) \in {"granted", "closing"}
      BY <2>2 DEF IInv, TypeOK, StartGh, EndsBeforeGh, GhExits, Stage, Creating, Holding, Removing
    <3>3. QED
      BY <2>1, <3>1, <3>2, NoDirectory, LeaseTurns
  <2>3. CASE Panic(p)
    <3>1. SecretPlaces' = SecretPlaces /\ FindablePlaces' = FindablePlaces
      BY <2>3 DEF IInv, TypeOK, Panic, SecretPlaces, FindablePlaces, HoldsSecret, Secrets
    <3>2. pc' = pc
      BY <2>3 DEF Panic
    <3>3. QED
      BY <2>1, <3>1, <3>2, LeaseTurns
  <2>4. CASE WriteFile(p)
    <3>1. LeaseMap[own[p]] = "granted" /\ LeaseMap' = LeaseMap
      BY <2>1, <2>4, OwnerMoves, OwnerStays DEF WriteFile, Stage, Creating, Holding, Removing
    <3>2. own[p] \in FindablePlaces /\ FindablePlaces' = FindablePlaces
      BY <2>1, <2>4 DEF IInv, TypeOK, LiveNotSwept, WriteFile, Holding, FindablePlaces,
                        WRITES, Optional
    <3>3. SecretPlaces' = SecretPlaces \/ SecretPlaces' = SecretPlaces \cup {own[p]}
      BY <2>1, <2>4 DEF IInv, TypeOK, WriteFile, SecretPlaces, HoldsSecret
    <3>4. QED
      BY <2>1, <3>1, <3>2, <3>3, <1>b DEF Lease!Next, Lease!Deposit, Lease!leaseVars,
                                    LeaseMap, SecretPlaces, FindablePlaces
  <2>5. QED
    BY <1>3, <2>2, <2>3, <2>4 DEF Use
<1>4. ASSUME NEW p \in Launchers, Leave(p) PROVE [Lease!Next]_(Lease!leaseVars)
  <2>1. OnlyMoves(p) /\ own[p] # None /\ own[p] \in used
    BY <1>4 DEF IInv, TypeOK, OwnInv, OnlyMoves, Leave, RemoveOwn, DropOwn, Return,
                RemoveKnown, RemoveName, RemoveDirectory, Removing
  <2>2. CASE pc[p] \in Removing /\ RemoveName(p, own[p])
    <3>1. idx[p] \in 1..7 /\ Cleared(own[p], idx[p])
      BY <2>2 DEF IInv, TypeOK, RemovalInv, RemoveName, NAMES
    <3>2. LeaseMap' = LeaseMap /\ LeaseMap[own[p]] = "closing"
      BY <2>1, <2>2, OwnerMoves, OwnerStays DEF RemoveName, Stage, Creating, Holding, Removing
    <3>3. entries' = [entries EXCEPT ![own[p]] = @ \ {NAMES[idx[p]]}] /\ used' = used
      BY <2>2 DEF RemoveName
    <3>4. QED
      BY <2>1, <3>1, <3>2, <3>3, NameRemoved
  <2>3. CASE ~(pc[p] \in Removing /\ RemoveName(p, own[p]))
    <3>1. entries' = entries /\ used' = used
      BY <1>4, <2>3 DEF Leave, RemoveOwn, DropOwn, Return, RemoveKnown, RemoveDirectory, Removing
    <3>2. \/ Stage(pc[p]) = "closing" /\ Stage(pc'[p]) = "ended"
          \/ Stage(pc[p]) = Stage(pc'[p])
      BY <1>4, <2>3 DEF IInv, TypeOK, Leave, RemoveOwn, DropOwn, Return, RemoveKnown, RemoveDirectory,
                  Stage, Creating, Holding, Removing
    <3>3. QED
      BY <2>1, <3>1, <3>2, NoDirectory, LeaseTurns
  <2>4. QED
    BY <2>2, <2>3
<1>5. ASSUME NEW p \in Launchers, Failure(p) PROVE [Lease!Next]_(Lease!leaseVars)
  <2>1. OnlyMoves(p)
    BY <1>5 DEF IInv, TypeOK, OnlyMoves, Failure, SweepReadFails, SweepRemoveFails, MakeDirectoryFails,
                CreateFails, WriteFails, RemoveOwnFails, DropOwnFails, RemoveFails
  <2>2. CASE SweepReadFails(p) \/ SweepRemoveFails(p) \/ MakeDirectoryFails(p)
    <3>1. entries' = entries /\ used' = used /\ own[p] = None
      BY <2>2 DEF IInv, OwnInv, SweepReadFails, SweepRemoveFails, MakeDirectoryFails, RemoveFails, Sweeping
    <3>2. QED
      BY <2>1, <3>1, NoDirectory, LeaseTurns
  <2>3. CASE RemoveOwnFails(p) \/ DropOwnFails(p)
    <3>1. entries' = entries /\ used' = used
      BY <2>3 DEF RemoveOwnFails, DropOwnFails, RemoveFails
    <3>2. Stage(pc[p]) = "closing" /\ Stage(pc'[p]) = "ended"
      BY <2>3 DEF IInv, TypeOK, RemoveOwnFails, DropOwnFails, RemoveFails, Stage, Creating, Holding, Removing
    <3>3. QED
      BY <2>1, <3>1, <3>2, NoDirectory, LeaseTurns
  <2>4. CASE CreateFails(p)
    <3>1. SecretPlaces' = SecretPlaces /\ FindablePlaces' = FindablePlaces
      BY <2>4 DEF IInv, TypeOK, OwnInv, Fresh, CreateFails, SecretPlaces, FindablePlaces, HoldsSecret,
                  Secrets, Staged
    <3>2. Stage(pc[p]) = "granted" /\ Stage(pc'[p]) = "ended"
      BY <2>4 DEF IInv, TypeOK, CreateFails, Stage, Creating, Holding, Removing
    <3>3. QED
      BY <2>1, <3>1, <3>2, LeaseTurns
  <2>5. CASE WriteFails(p)
    <3>1. own[p] \in used /\ own[p] # None
      BY <2>5 DEF IInv, TypeOK, OwnInv, WriteFails, Holding
    <3>2. LeaseMap[own[p]] = "granted" /\ LeaseMap' = [LeaseMap EXCEPT ![own[p]] = "closing"]
      BY <2>1, <2>5, <3>1, OwnerMoves DEF IInv, TypeOK, WriteFails, Stage, Creating, Holding, Removing
    <3>3. own[p] \in FindablePlaces /\ FindablePlaces' = FindablePlaces
      BY <3>1, <2>5 DEF IInv, TypeOK, LiveNotSwept, WriteFails, Holding, FindablePlaces, WRITES
    <3>4. SecretPlaces' = SecretPlaces \/ SecretPlaces' = SecretPlaces \cup {own[p]}
      BY <3>1, <2>5 DEF IInv, TypeOK, WriteFails, SecretPlaces, HoldsSecret
    <3>5. QED
      BY <3>1, <3>2, <3>3, <3>4, <1>b DEF Lease!Next, Lease!Deposit, Lease!Close, Lease!Turn,
                        Lease!leaseVars, LeaseMap, SecretPlaces, FindablePlaces
  <2>6. QED
    BY <1>5, <2>2, <2>3, <2>4, <2>5 DEF Failure
<1>6. ASSUME NEW p \in Launchers, Crash(p) PROVE [Lease!Next]_(Lease!leaseVars)
  <2>1. OnlyMoves(p) /\ entries' = entries /\ used' = used
    BY <1>6 DEF IInv, TypeOK, OnlyMoves, Crash
  <2>2. Stage(pc[p]) \in {"granted", "closing", "ended"} /\ Stage(pc'[p]) = "ended"
    BY <1>6 DEF IInv, TypeOK, Crash, Stage, Creating, Holding, Removing
  <2>3. QED
    BY <2>1, <2>2, NoDirectory, LeaseTurns
<1>7. CASE LeaveForeignFile
  <2>1. SecretPlaces' = SecretPlaces /\ FindablePlaces' = FindablePlaces
    BY <1>7 DEF IInv, TypeOK, LeaveForeignFile, SecretPlaces, FindablePlaces, HoldsSecret, Secrets, Unknown
  <2>2. LeaseMap' = LeaseMap
    BY <1>7 DEF LeaveForeignFile, LeaseMap, LeaseOf
  <2>3. QED
    BY <2>1, <2>2, <1>a
<1>8. CASE UNCHANGED vars
  BY <1>8, <1>a DEF LeaseMap, SecretPlaces, FindablePlaces, LeaseOf, HoldsSecret
<1>9. QED
  BY <1>1, <1>2, <1>3, <1>4, <1>5, <1>6, <1>7, <1>8 DEF Next

LEMMA LeaseInit == Init => Lease!Init
<1> SUFFICES ASSUME Init PROVE Lease!Init
  OBVIOUS
<1>1. \A d \in Dirs : LeaseOf(d) = "free"
  BY RunDirAssumption DEF Init, LeaseOf
<1>2. used = {}
  BY DEF Init
<1>3. QED
  BY <1>1, <1>2 DEF Lease!Init

(* The run directories implement the token lease.                          *)
THEOREM Implements == Spec => ImplementsLease
<1>1. Init => Lease!Init
  BY LeaseInit
<1>2. IInv /\ IInv' /\ [Next]_vars => [Lease!Next]_(Lease!leaseVars)
  BY LeaseStep
<1>3. QED
  BY <1>1, <1>2, Invariance, PTL DEF Spec, ImplementsLease, Lease!Spec
=============================================================================
