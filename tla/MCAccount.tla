----------------------------- MODULE MCAccount ------------------------------
(* TLC instance of Account; the bounds are set in the .cfg files.  Neither *)
(* accounts nor names are told apart, and no property is about liveness.   *)
EXTENDS Account, TLC

Symmetry == Permutations(Accounts) \cup Permutations(Names)
=============================================================================
