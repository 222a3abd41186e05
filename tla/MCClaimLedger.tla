---------------------------- MODULE MCClaimLedger ----------------------------
(* Model-checking instances of ClaimLedger. *)
EXTENDS ClaimLedger, TLC

Symmetry == Permutations(Slot) \cup Permutations(Value) \cup Permutations(Writer)
=============================================================================
