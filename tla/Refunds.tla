------------------------------ MODULE Refunds -------------------------------
(***************************************************************************)
(* Refunding a paid order (modules/payments/refund.service.ts), beside the *)
(* checkout that paid it: clients request refunds, administrators approve  *)
(* them through the gateway or write a status by hand, and late verify     *)
(* calls still reach the same payment row.                                 *)
(*                                                                         *)
(* Amounts are in hundredths of the currency, so that the code's tolerance *)
(* of 0.01 is Epsilon = 1.                                                 *)
(***************************************************************************)
EXTENDS OrderCheckout, Integers, FiniteSets, FiniteSetsExt

CONSTANTS
    RefundIds,    \* refund rows that may be created (a bound)
    Calls,        \* refund calls in progress at once (a bound)
    Price,        \* amount of every payment
    Amounts,      \* amounts that clients ask to be refunded (a bound)
    ReturnedBound, \* a gateway that gave back this much is asked no more (a bound)
    HandStatuses  \* statuses other than APPROVED that administrators write

ASSUME RefundIdsAssumption == IsFiniteSet(RefundIds) /\ None \notin RefundIds
\* A price within the tolerance would count as refunded before anything is.
ASSUME PriceAssumption == Price \in Nat /\ Price > 1
ASSUME AmountsAssumption == Amounts \subseteq Nat \ {0} /\ ReturnedBound \in Nat
ASSUME HandStatusesAssumption ==
    HandStatuses \subseteq {"PENDING", "REJECTED", "PROCESSED"}

VARIABLES
    refund,      \* refund[f]: the row's payment, amount and status
    returned,    \* returned[p]: what the gateway gave back to the customer of p
    refundLock,  \* the Redis keys payment:refund:<id>
    call,        \* call[c]: the refund call c runs and its local variables
    mishaps      \* mishaps[p]: what has gone wrong with refunds of p, so far

refundVars == <<refund, returned, refundLock, call, mishaps>>

-----------------------------------------------------------------------------
Epsilon == 1

\* by_hand: a status that an administrator wrote without the gateway moved a
\* refund into or out of PROCESSED; reapproved: a PROCESSED refund was sent to
\* the gateway again; interrupted: after the gateway paid, a call ended or lost
\* the answer, or a call outlived its lock.
Mishaps == {"by_hand", "reapproved", "interrupted"}

RefundStatuses == {"ABSENT", "PENDING", "REJECTED", "PROCESSED"}

\* The awaits after the gateway paid and before the call has recorded it all.
PaidPCs == {"approve_record", "approve_close"}

ApprovingPCs == PaidPCs \cup {"approve_sum", "approve_gateway", "approve_reject",
                              "approve_order", "approve_order_write",
                              "approve_release"}

CallPCs == ApprovingPCs \cup {"idle", "request_sum", "request_create", "approve_lock"}

NoCall == [pc |-> "idle", refund |-> None, payment |-> None, ref |-> None,
           amount |-> 0, already |-> 0]

NoRefund == [payment |-> None, amount |-> 0, status |-> "ABSENT"]

\* The calls inside the body that runs under p's refund lock.
Approving == [p \in Payments |->
                 {c \in Calls : call[c].pc \in ApprovingPCs /\ call[c].payment = p}]

RefundLocks == INSTANCE LeaseLock
    WITH Keys <- Payments, Holders <- Calls, lock <- refundLock,
         working <- Approving

RefundTypeOK ==
    /\ TypeOK
    /\ refund \in [RefundIds -> [payment: Payments \cup {None},
                                 amount: Amounts \cup {0},
                                 status: RefundStatuses]]
    /\ returned \in [Payments -> Nat]
    /\ refundLock \in [Payments -> SUBSET Calls]
    /\ call \in [Calls -> [pc: CallPCs,
                           refund: RefundIds \cup {None},
                           payment: Payments \cup {None},
                           ref: Sessions \cup {None},
                           amount: Amounts \cup {0},
                           already: Nat]]
    /\ mishaps \in [Payments -> SUBSET Mishaps]

RefundInit ==
    /\ Init
    /\ refund = [f \in RefundIds |-> NoRefund]
    /\ returned = [p \in Payments |-> 0]
    /\ refundLock = [p \in Payments |-> {}]
    /\ call = [c \in Calls |-> NoCall]
    /\ mishaps = [p \in Payments |-> {}]

Proceed(c, pc) == call' = [call EXCEPT ![c].pc = pc]

Finish(c) == call' = [call EXCEPT ![c] = NoCall]

Note(p, what) == mishaps' = [mishaps EXCEPT ![p] = @ \cup what]

Processed(p) ==
    {f \in RefundIds : refund[f].payment = p /\ refund[f].status = "PROCESSED"}

\* The status APPROVED is never stored: approval goes on to PROCESSED.
cumulativeRefunded(p, except) ==
    MapThenSumSet(LAMBDA f : refund[f].amount, Processed(p) \ {except})

-----------------------------------------------------------------------------
(* refunds.request *)

RequestRead(c, p, amount) ==
    /\ call[c] = NoCall
    /\ payment[p].status = "SUCCESS"
    /\ call' = [call EXCEPT ![c] = [NoCall EXCEPT !.pc = "request_sum",
                                                  !.payment = p,
                                                  !.amount = amount]]
    /\ UNCHANGED <<vars, refund, returned, refundLock, mishaps>>

\* Refunds that wait for approval do not count against the balance.
RequestSum(c) ==
    /\ call[c].pc = "request_sum"
    /\ IF call[c].amount > Price - cumulativeRefunded(call[c].payment, None) + Epsilon
       THEN Finish(c) ELSE Proceed(c, "request_create")
    /\ UNCHANGED <<vars, refund, returned, refundLock, mishaps>>

RequestCreate(c) ==
    /\ call[c].pc = "request_create"
    /\ \E f \in RefundIds :
          /\ refund[f].status = "ABSENT"
          /\ refund' = [refund EXCEPT ![f] =
                [payment |-> call[c].payment, amount |-> call[c].amount,
                 status |-> "PENDING"]]
    /\ Finish(c)
    /\ UNCHANGED <<vars, returned, refundLock, mishaps>>

-----------------------------------------------------------------------------
(* refunds.updateStatus *)

\* Any status but APPROVED is written as it is, whatever it overwrites.
WriteByHand(f, status) ==
    /\ refund[f].status # "ABSENT"
    /\ refund' = [refund EXCEPT ![f].status = status]
    /\ Note(refund[f].payment,
            IF (status = "PROCESSED") # (refund[f].status = "PROCESSED")
            THEN {"by_hand"} ELSE {})
    /\ UNCHANGED <<vars, returned, refundLock, call>>

\* The refund, in any status, and its payment are read before the lock.
ApproveRead(c, f) ==
    /\ call[c] = NoCall
    /\ refund[f].status # "ABSENT"
    /\ LET p == refund[f].payment
       IN  call' = [call EXCEPT ![c] =
              [pc |-> "approve_lock", refund |-> f, payment |-> p,
               ref |-> payment[p].ref, amount |-> refund[f].amount,
               already |-> 0]]
    /\ UNCHANGED <<vars, refund, returned, refundLock, mishaps>>

\* Faulty variant: no lock around the balance check and the gateway call.
ApproveUnlocked(c) ==
    /\ call[c].pc = "approve_lock"
    /\ Proceed(c, "approve_sum")
    /\ UNCHANGED <<vars, refund, returned, refundLock, mishaps>>

ApproveLock(c) ==
    /\ call[c].pc = "approve_lock"
    /\ RefundLocks!SetNX(call[c].payment, c)
    /\ Proceed(c, "approve_sum")
    /\ UNCHANGED <<vars, refund, returned, mishaps>>

ApproveConflict(c) ==
    /\ call[c].pc = "approve_lock"
    /\ refundLock[call[c].payment] # {}
    /\ Finish(c)
    /\ UNCHANGED <<vars, refund, returned, refundLock, mishaps>>

ApproveSum(c) ==
    /\ call[c].pc = "approve_sum"
    /\ LET already == cumulativeRefunded(call[c].payment, call[c].refund)
       IN  call' = [call EXCEPT ![c].already = already,
                                ![c].pc = IF call[c].amount > Price - already + Epsilon
                                          THEN "approve_release"
                                          ELSE "approve_gateway"]
    /\ UNCHANGED <<vars, refund, returned, refundLock, mishaps>>

\* The gateway gives money of a captured session back. It is not assumed to
\* compare the refund with what it gave back before.
Pays(c) ==
    LET p == call[c].payment
    IN  /\ Captured(call[c].ref)
        /\ returned[p] < ReturnedBound
        /\ returned' = [returned EXCEPT ![p] = @ + call[c].amount]

\* Faulty variant: the refund is recorded whatever the gateway answered.
ApproveGatewayUnread(c) ==
    /\ call[c].pc = "approve_gateway"
    /\ Pays(c) \/ UNCHANGED returned
    /\ Proceed(c, "approve_record")
    /\ UNCHANGED <<vars, refund, refundLock, mishaps>>

\* gateway.refundPayment, which also may refuse.
ApproveGateway(c) ==
    /\ call[c].pc = "approve_gateway"
    /\ LET p == call[c].payment
       IN  \/ /\ Pays(c)
              /\ Note(p, IF refund[call[c].refund].status = "PROCESSED"
                         THEN {"reapproved"} ELSE {})
              /\ Proceed(c, "approve_record")
           \/ /\ Proceed(c, "approve_reject")
              /\ UNCHANGED <<returned, mishaps>>
    /\ UNCHANGED <<vars, refund, refundLock>>

\* The gateway paid, and the call timed out before its answer came.
ApproveAnswerLost(c) ==
    /\ call[c].pc = "approve_gateway"
    /\ Pays(c)
    /\ Note(call[c].payment, {"interrupted"})
    /\ Proceed(c, "approve_release")
    /\ UNCHANGED <<vars, refund, refundLock>>

ApproveReject(c) ==
    /\ call[c].pc = "approve_reject"
    /\ refund' = [refund EXCEPT ![call[c].refund].status = "REJECTED"]
    /\ Note(call[c].payment,
            IF refund[call[c].refund].status = "PROCESSED" THEN {"reapproved"} ELSE {})
    /\ Proceed(c, "approve_release")
    /\ UNCHANGED <<vars, returned, refundLock>>

\* Faulty variants: the refund counted twice; earlier refunds not counted.
FullyRefundedTwice(c) == call[c].already + 2 * call[c].amount >= Price - Epsilon

FullyRefundedAlone(c) == call[c].amount >= Price - Epsilon

FullyRefunded(c) == call[c].already + call[c].amount >= Price - Epsilon

ApproveRecord(c) ==
    /\ call[c].pc = "approve_record"
    /\ refund' = [refund EXCEPT ![call[c].refund].status = "PROCESSED"]
    /\ Proceed(c, IF FullyRefunded(c) THEN "approve_close" ELSE "approve_release")
    /\ UNCHANGED <<vars, returned, refundLock, mishaps>>

\* Faulty variant: the payment gets the refund's status.
ApproveCloseProcessed(c) ==
    /\ call[c].pc = "approve_close"
    /\ payment' = [payment EXCEPT ![call[c].payment].status = "PROCESSED"]
    /\ Proceed(c, "approve_order")
    /\ UNCHANGED <<order, assigned, session, invoiced, confirmations,
                   verifyLock, req, refund, returned, refundLock, mishaps>>

ApproveClose(c) ==
    /\ call[c].pc = "approve_close"
    /\ payment' = [payment EXCEPT ![call[c].payment].status = "REFUNDED"]
    /\ Proceed(c, "approve_order")
    /\ UNCHANGED <<order, assigned, session, invoiced, confirmations,
                   verifyLock, req, refund, returned, refundLock, mishaps>>

\* ordersService.updateStatus throws unless the order is still PAID: the
\* payment stays REFUNDED, and the administrator sees an error.
ApproveOrder(c) ==
    /\ call[c].pc = "approve_order"
    /\ Proceed(c, IF CanTransition(order[payment[call[c].payment].order], "REFUNDED")
                  THEN "approve_order_write" ELSE "approve_release")
    /\ UNCHANGED <<vars, refund, returned, refundLock, mishaps>>

ApproveOrderWrite(c) ==
    /\ call[c].pc = "approve_order_write"
    /\ order' = [order EXCEPT ![payment[call[c].payment].order] = "REFUNDED"]
    /\ Proceed(c, "approve_release")
    /\ UNCHANGED <<assigned, payment, session, invoiced, confirmations,
                   verifyLock, req, refund, returned, refundLock, mishaps>>

ApproveRelease(c) ==
    /\ call[c].pc = "approve_release"
    /\ RefundLocks!DelIfOwner(call[c].payment, c)
    /\ Finish(c)
    /\ UNCHANGED <<vars, refund, returned, mishaps>>

\* The process dies; outside the lock, an await may also reject.
CallDies(c) ==
    /\ call[c].pc # "idle"
    /\ mishaps' = IF call[c].pc \in PaidPCs
                  THEN [mishaps EXCEPT ![call[c].payment] = @ \cup {"interrupted"}]
                  ELSE mishaps
    /\ Finish(c)
    /\ UNCHANGED <<vars, refund, returned, refundLock>>

\* An await of the body rejects: `finally` releases the lock.
CallThrows(c) ==
    /\ call[c].pc \in ApprovingPCs \ {"approve_release"}
    /\ Note(call[c].payment, IF call[c].pc \in PaidPCs THEN {"interrupted"} ELSE {})
    /\ Proceed(c, "approve_release")
    /\ UNCHANGED <<vars, refund, returned, refundLock>>

RefundLockExpires(p) ==
    /\ Note(p, IF refundLock[p] \cap Approving[p] # {} THEN {"interrupted"} ELSE {})
    /\ UNCHANGED <<vars, refund, returned, call>>
    /\ RefundLocks!Expire(p)

CallStep(c) ==
    \/ RequestSum(c) \/ RequestCreate(c)
    \/ ApproveLock(c) \/ ApproveConflict(c) \/ ApproveSum(c)
    \/ ApproveGateway(c) \/ ApproveAnswerLost(c) \/ ApproveReject(c)
    \/ ApproveRecord(c) \/ ApproveClose(c) \/ ApproveOrder(c)
    \/ ApproveOrderWrite(c) \/ ApproveRelease(c)
    \/ CallDies(c) \/ CallThrows(c)

RefundNext ==
    \/ Next /\ UNCHANGED refundVars
    \/ \E c \in Calls :
          \/ CallStep(c)
          \/ \E p \in Payments, amount \in Amounts : RequestRead(c, p, amount)
          \/ \E f \in RefundIds : ApproveRead(c, f)
    \/ \E f \in RefundIds, status \in HandStatuses : WriteByHand(f, status)
    \/ \E p \in Payments : RefundLockExpires(p)

RefundSpec == RefundInit /\ [][RefundNext]_<<vars, refundVars>>

-----------------------------------------------------------------------------
\* A payment is REFUNDED only when the gateway gave its whole price back,
\* whatever crashed, lapsed or was approved twice on the way.
RefundedIsReturned ==
    \A p \in Payments :
        /\ payment[p].status = "REFUNDED"
        /\ "by_hand" \notin mishaps[p]
        => returned[p] >= Price - Epsilon

\* The gateway never gives back more than the price while each refund is
\* approved once and no approval is cut short or outlives its lock: two
\* administrators and two refunds of one payment cannot exceed it together.
ReturnsWithinPrice ==
    \A p \in Payments : mishaps[p] = {} => returned[p] <= Price + Epsilon

\* Under the same condition, once every approval has ended, a payment whose
\* price was given back is not SUCCESS: no further refund of it can be asked,
\* and no late verify brings SUCCESS back.
ReturnedIsNotSuccess ==
    \A p \in Payments :
        /\ mishaps[p] = {}
        /\ Approving[p] = {}
        /\ returned[p] >= Price - Epsilon
        => payment[p].status # "SUCCESS"

\* The PROCESSED refunds of a payment are money that the gateway gave back.
ProcessedIsReturned ==
    \A p \in Payments :
        "by_hand" \notin mishaps[p] => cumulativeRefunded(p, None) <= returned[p]

\* Without a mishap the books balance: between approvals, the PROCESSED refunds
\* of a payment are all that the gateway gave back.
BooksBalance ==
    \A p \in Payments :
        mishaps[p] = {} /\ Approving[p] = {} => cumulativeRefunded(p, None) = returned[p]

\* Approvals use their Redis key as withLock does: no call takes a held key or
\* frees a key that another call acquired after a lapse.
ImplementsRefundLock == RefundLocks!Spec

\* At most one call at a time is past the lock of a payment.
ApprovalsExclude == RefundLocks!MutualExclusion

-----------------------------------------------------------------------------
(* What comments of the code say, and the code does not do. *)

\* "two admins concurrently approving [...] can both pass their own 'remaining
\* balance' check [...], summing past the original payment amount": the lock
\* is to exclude it. Approving one refund twice is not excluded.
ApprovalsWithinPrice ==
    \A p \in Payments :
        mishaps[p] \subseteq {"reapproved"} => returned[p] <= Price + Epsilon

\* "already-processed payments short-circuit before we re-hit the gateway": a
\* payment whose price was given back, with no mishap, is and stays REFUNDED.
ReturnedStaysRefunded ==
    \A p \in Payments :
        /\ mishaps[p] = {}
        /\ Approving[p] = {}
        /\ returned[p] >= Price - Epsilon
        => payment[p].status = "REFUNDED"
=============================================================================
