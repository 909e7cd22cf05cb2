-------------------------- MODULE MCOrderCheckout ---------------------------
(***************************************************************************)
(* OrderCheckout with model values; rows, sessions and requests are        *)
(* interchangeable.                                                        *)
(***************************************************************************)
EXTENDS OrderCheckout, TLC

Symmetry == Permutations(Payments) \cup Permutations(Sessions)
            \cup Permutations(Requests)
=============================================================================
