------------------------------ MODULE MCRunDir ------------------------------
(* A small machine: launches, the directory names they may use, and        *)
(* what may befall them.                                                   *)
EXTENDS RunDirLease, TLC

CONSTANTS a, b, c, d1

MCLaunchers == {a, b, c}
MCDirs == {d1}

(* Bound: kills and calls that fail, two in all, or a foreign file.        *)
Trouble == crashes + faults + 2 * foreign
MCFairSpec ==
    /\ Init /\ [][Next /\ Trouble' <= 2]_vars
    /\ \A p \in Launchers : WF_vars(Step(p))
=============================================================================
