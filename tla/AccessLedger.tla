---------------------------- MODULE AccessLedger ----------------------------
(***************************************************************************)
(* What paying for access promises, without the handlers and the jobs:     *)
(* access starts in the step that settles a payment, for whose exact price *)
(* the gateway captured money; no payment is settled twice, so access that *)
(* ended starts again only with another payment and its own money; what    *)
(* was sold for good does not end.                                         *)
(***************************************************************************)
CONSTANTS Grants, Payments

VARIABLES
    forGood,  \* grants that were sold without an end
    funded,   \* payments whose exact price the gateway captured
    paid,     \* payments that are settled
    active    \* grants that give access

vars == <<forGood, funded, paid, active>>

Init == forGood = {} /\ funded = {} /\ paid = {} /\ active = {}

SellForGood(g) ==
    /\ g \notin active
    /\ forGood' = forGood \cup {g}
    /\ UNCHANGED <<funded, paid, active>>

Fund(p) ==
    /\ funded' = funded \cup {p}
    /\ UNCHANGED <<forGood, paid, active>>

Start(g, p) ==
    /\ p \in funded \ paid
    /\ paid' = paid \cup {p}
    /\ active' = active \cup {g}
    /\ UNCHANGED <<forGood, funded>>

\* A payment that belongs to nothing any more settles and gives nothing.
Settle(p) ==
    /\ paid' = paid \cup {p}
    /\ UNCHANGED <<forGood, funded, active>>

End(g) ==
    /\ g \notin forGood
    /\ active' = active \ {g}
    /\ UNCHANGED <<forGood, funded, paid>>

Next ==
    \/ \E g \in Grants : SellForGood(g) \/ End(g)
    \/ \E p \in Payments : Fund(p) \/ Settle(p)
    \/ \E g \in Grants, p \in Payments : Start(g, p)

Spec == Init /\ [][Next]_vars
=============================================================================
