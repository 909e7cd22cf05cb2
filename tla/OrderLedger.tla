---------------------------- MODULE OrderLedger -----------------------------
(***************************************************************************)
(* What paying for an order promises, without the handlers: an order is    *)
(* confirmed as paid at most once, only after the gateway captured its     *)
(* exact price, and the invoice is issued in that same step.               *)
(***************************************************************************)
EXTENDS Naturals

CONSTANTS Orders

VARIABLES
    funded,         \* orders whose exact price some checkout session captured
    confirmations,  \* confirmations[o]: "Payment confirmed" rows of o's history
    invoiced        \* orders with an invoice

vars == <<funded, confirmations, invoiced>>

Init ==
    /\ funded = {}
    /\ confirmations = [o \in Orders |-> 0]
    /\ invoiced = {}

Fund(o) ==
    /\ funded' = funded \cup {o}
    /\ UNCHANGED <<confirmations, invoiced>>

Settle(o) ==
    /\ o \in funded
    /\ confirmations[o] = 0
    /\ confirmations' = [confirmations EXCEPT ![o] = 1]
    /\ invoiced' = invoiced \cup {o}
    /\ UNCHANGED funded

Next == \E o \in Orders : Fund(o) \/ Settle(o)

Spec == Init /\ [][Next]_vars
=============================================================================
