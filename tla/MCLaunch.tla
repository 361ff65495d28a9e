------------------------------ MODULE MCLaunch ------------------------------
(* Launch with gh's success, its failure, and a code of its own.           *)
EXTENDS Launch

MCGhCodes == {0, 1}
=============================================================================
