----------------------------- MODULE TokenLease -----------------------------
(***************************************************************************)
(* What the run directories promise about tokens on disk, with no          *)
(* processes, locks or system calls: a place is leased at most once, gets  *)
(* tokens only under a running lease and only once it can be found by a    *)
(* later sweep, loses them only when the lease is closing or over, and     *)
(* cannot be hidden from a sweep while a token is in it.                   *)
(***************************************************************************)
CONSTANT Places

VARIABLES
    lease,    \* "free", "granted", "closing" or "ended", per place
    secret,   \* the places that hold a token
    findable  \* the places a sweep can find

leaseVars == <<lease, secret, findable>>

Init ==
    /\ lease = [d \in Places |-> "free"]
    /\ secret = {}
    /\ findable = {}

Turn(d, state) == lease' = [lease EXCEPT ![d] = state]

Grant(d) ==
    /\ lease[d] = "free" /\ Turn(d, "granted")
    /\ UNCHANGED <<secret, findable>>

Announce(d) ==
    /\ lease[d] = "granted"
    /\ findable' = findable \cup {d}
    /\ UNCHANGED <<lease, secret>>

(* A failing deposit may leave its token behind and close the lease.       *)
Deposit(d) ==
    /\ lease[d] = "granted" /\ d \in findable
    /\ secret' = secret \cup {d}
    /\ UNCHANGED lease \/ Turn(d, "closing")
    /\ UNCHANGED findable

Close(d) ==
    /\ lease[d] = "granted" /\ Turn(d, "closing")
    /\ UNCHANGED <<secret, findable>>

(* However a lease ends, tokens may be left: a sweep finds them.           *)
End(d) ==
    /\ lease[d] \in {"granted", "closing"} /\ Turn(d, "ended")
    /\ UNCHANGED <<secret, findable>>

Withdraw(d) ==
    /\ lease[d] \in {"closing", "ended"}
    /\ secret' = secret \ {d}
    /\ UNCHANGED <<lease, findable>>

Hide(d) ==
    /\ lease[d] \in {"closing", "ended"} /\ d \notin secret
    /\ findable' = findable \ {d}
    /\ UNCHANGED <<lease, secret>>

Next ==
    \E d \in Places :
        Grant(d) \/ Announce(d) \/ Deposit(d) \/ Close(d) \/ End(d) \/ Withdraw(d) \/ Hide(d)

Spec == Init /\ [][Next]_leaseVars
=============================================================================
