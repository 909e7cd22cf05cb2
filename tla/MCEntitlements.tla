--------------------------- MODULE MCEntitlements ---------------------------
(***************************************************************************)
(* Entitlements with model values; grants, payments, sessions and requests *)
(* are interchangeable.                                                    *)
(***************************************************************************)
EXTENDS Entitlements, TLC

Symmetry == Permutations(Grants) \cup Permutations(Payments)
            \cup Permutations(Sessions) \cup Permutations(Requests)
=============================================================================
