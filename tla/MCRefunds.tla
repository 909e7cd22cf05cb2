------------------------------ MODULE MCRefunds -----------------------------
(***************************************************************************)
(* Refunds with model values; refund rows and calls are interchangeable.   *)
(***************************************************************************)
EXTENDS Refunds, TLC

Symmetry == Permutations(RefundIds) \cup Permutations(Calls)
=============================================================================
