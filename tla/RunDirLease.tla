---------------------------- MODULE RunDirLease ----------------------------
(* The run directories implement the token lease: who leases a directory is*)
(* read off the program counters of the launches.                          *)
EXTENDS RunDir

LeaseOf(d) ==
    LET owners(stage) == \E p \in Launchers : own[p] = d /\ pc[p] \in stage IN
    CASE d \notin used -> "free"
      [] owners(Creating \cup Holding) -> "granted"
      [] owners(Removing) -> "closing"
      [] OTHER -> "ended"

Lease == INSTANCE TokenLease WITH
    Places <- Dirs,
    lease <- [d \in Dirs |-> LeaseOf(d)],
    secret <- {d \in used : HoldsSecret(d)},
    findable <- {d \in used : "lock" \in entries[d]}

(* Every step any launch, crash or failing call takes is a step of the     *)
(* token lease or changes nothing it can see: rundir.rs keeps its tokens   *)
(* to one live owner and leaves only findable ones behind.                 *)
ImplementsLease == Lease!Spec
=============================================================================
