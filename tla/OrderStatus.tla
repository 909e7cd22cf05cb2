---------------------------- MODULE OrderStatus ----------------------------
(***************************************************************************)
(* The order status machine (modules/orders/order-status.state-machine.ts).*)
(* Only orders.updateStatus and payment verification consult it: cancel,   *)
(* assignStaff and uploadReport write a status after a check of their own. *)
(***************************************************************************)

OrderStatuses ==
    {"DRAFT", "PENDING_PAYMENT", "PAID", "ASSIGNED", "IN_PROGRESS",
     "UNDER_REVIEW", "DELIVERED", "REVISION_REQUESTED", "COMPLETED",
     "CANCELLED", "REFUNDED"}

validTransitions ==
    [DRAFT              |-> {"PENDING_PAYMENT", "CANCELLED"},
     PENDING_PAYMENT    |-> {"PAID", "CANCELLED"},
     PAID               |-> {"ASSIGNED", "CANCELLED", "REFUNDED"},
     ASSIGNED           |-> {"IN_PROGRESS", "CANCELLED"},
     IN_PROGRESS        |-> {"UNDER_REVIEW", "DELIVERED"},
     UNDER_REVIEW       |-> {"REVISION_REQUESTED", "DELIVERED", "COMPLETED"},
     DELIVERED          |-> {"REVISION_REQUESTED", "COMPLETED"},
     REVISION_REQUESTED |-> {"IN_PROGRESS"},
     COMPLETED          |-> {},
     CANCELLED          |-> {},
     REFUNDED           |-> {}]

CanTransition(from, to) == to \in validTransitions[from]
=============================================================================
