--------------------------- MODULE OrderCheckout ----------------------------
(***************************************************************************)
(* Paying for an order, as served by concurrent requests: initiatePayment, *)
(* verifyPayment (from the client or from a gateway's webhook), and every  *)
(* other handler that writes orders.status: cancel, updateStatus,          *)
(* assignStaff and the SIWES report upload.                                *)
(*                                                                         *)
(* Each request is a record in req; its pc names the next await of the     *)
(* handler, so that any other request may run between two awaits.          *)
(***************************************************************************)
EXTENDS Naturals, OrderStatus

CONSTANTS
    Orders,
    Payments,    \* payment rows that may be created (a bound)
    Sessions,    \* gateway checkout sessions that may be opened (a bound)
    Gateways,
    Requests,    \* handler invocations in progress at once (a bound)
    StaffTargets, \* statuses that staff ask orders.updateStatus for (a bound)
    LeasesLapse, \* TRUE: a verify may run past the 15 s of its Redis lock
    None

ASSUME NoneAssumption ==
    /\ None \notin Orders \cup Payments \cup Sessions \cup Gateways
    /\ None \notin OrderStatuses
ASSUME StaffTargetsAssumption == StaffTargets \subseteq OrderStatuses
ASSUME LeasesLapseAssumption == LeasesLapse \in BOOLEAN

VARIABLES
    order,         \* order[o]: orders.status
    assigned,      \* orders that have an order_assignments row
    payment,       \* payment[p]: the row's order, status and gatewayRef
    session,       \* session[s]: a checkout session at the gateway
    invoiced,      \* orders that have an invoices row (order_id is unique)
    confirmations, \* confirmations[o]: "Payment confirmed" rows of the history
    verifyLock,    \* the Redis keys payment:verify:<id>
    req            \* req[r]: the handler r runs and its local variables

vars == <<order, assigned, payment, session, invoiced, confirmations,
          verifyLock, req>>

-----------------------------------------------------------------------------
Payable == {"DRAFT", "PENDING_PAYMENT"}

PaymentStatuses ==
    {"ABSENT", "PENDING", "SUCCESS", "FAILED", "FLAGGED", "REFUNDED"}

\* opened: created at the gateway, its URL not yet given to the customer.
\* paid: captured, right amount and currency; mispaid: captured, wrong ones.
SessionStates == {"unused", "opened", "offered", "paid", "mispaid"}

Captured(s) == session[s].state \in {"paid", "mispaid"}

\* The awaits at which a verify has found the session captured.
ConfirmedPCs == {"verify_order", "verify_flag", "verify_commit"}

\* The awaits inside the body that withLock runs, its release included.
LockedPCs == ConfirmedPCs
             \cup {"verify_reread", "verify_ask", "verify_fail", "verify_release"}

PCs == LockedPCs
       \cup {"idle", "initiate_list", "initiate_open", "initiate_write",
             "verify_lock", "cancel_write", "cancel_again", "status_write",
             "assign_create"}

Idle == [pc |-> "idle", order |-> None, payment |-> None, session |-> None,
         gateway |-> None, target |-> None]

NoRow == [order |-> None, status |-> "ABSENT", ref |-> None]

NoSession == [order |-> None, gateway |-> None, state |-> "unused"]

\* The requests inside the body that runs under p's lock.
Verifying == [p \in Payments |->
                 {r \in Requests : req[r].pc \in LockedPCs /\ req[r].payment = p}]

Locks == INSTANCE LeaseLock
    WITH Keys <- Payments, Holders <- Requests, lock <- verifyLock,
         working <- Verifying

-----------------------------------------------------------------------------
Row == [order: Orders \cup {None}, status: PaymentStatuses,
        ref: Sessions \cup {None}]

CheckoutSession == [order: Orders \cup {None}, gateway: Gateways \cup {None},
                    state: SessionStates]

Job == [pc: PCs, order: Orders \cup {None}, payment: Payments \cup {None},
        session: Sessions \cup {None}, gateway: Gateways \cup {None},
        target: OrderStatuses \cup {None}]

TypeOK ==
    /\ order \in [Orders -> OrderStatuses]
    /\ assigned \subseteq Orders
    /\ payment \in [Payments -> Row]
    /\ session \in [Sessions -> CheckoutSession]
    /\ invoiced \subseteq Orders
    /\ confirmations \in [Orders -> Nat]
    /\ verifyLock \in [Payments -> SUBSET Requests]
    /\ req \in [Requests -> Job]

\* Orders exist from the start, in the status orders.create gives them.
Init ==
    /\ order = [o \in Orders |-> "DRAFT"]
    /\ assigned = {}
    /\ payment = [p \in Payments |-> NoRow]
    /\ session = [s \in Sessions |-> NoSession]
    /\ invoiced = {}
    /\ confirmations = [o \in Orders |-> 0]
    /\ verifyLock = [p \in Payments |-> {}]
    /\ req = [r \in Requests |-> Idle]

Begin(r, job) == req[r] = Idle /\ req' = [req EXCEPT ![r] = job]

Goto(r, pc) == req' = [req EXCEPT ![r].pc = pc]

Return(r) == req' = [req EXCEPT ![r] = Idle]

-----------------------------------------------------------------------------
(* payments.initiate *)

\* The order must be payable when it is read; its price is the charge.
InitiateRead(r, o, g) ==
    /\ order[o] \in Payable
    /\ Begin(r, [Idle EXCEPT !.pc = "initiate_list", !.order = o, !.gateway = g])
    /\ UNCHANGED <<order, assigned, payment, session, invoiced, confirmations,
                   verifyLock>>

PaymentsOf(o, status) ==
    {p \in Payments : payment[p].order = o /\ payment[p].status = status}

\* Refuse a paid order; otherwise remember a PENDING attempt to reuse, if any.
InitiateList(r) ==
    /\ req[r].pc = "initiate_list"
    /\ LET pending == PaymentsOf(req[r].order, "PENDING")
       IN  \/ PaymentsOf(req[r].order, "SUCCESS") # {} /\ Return(r)
           \/ /\ PaymentsOf(req[r].order, "SUCCESS") = {}
              /\ \E p \in IF pending = {} THEN {None} ELSE pending :
                    req' = [req EXCEPT ![r].pc = "initiate_open",
                                       ![r].payment = p]
    /\ UNCHANGED <<order, assigned, payment, session, invoiced, confirmations,
                   verifyLock>>

\* gateway.initiatePayment opens a session with a fresh reference, or throws.
InitiateOpen(r) ==
    /\ req[r].pc = "initiate_open"
    /\ \/ \E s \in Sessions :
             /\ session[s].state = "unused"
             /\ session' = [session EXCEPT ![s] =
                   [order |-> req[r].order, gateway |-> req[r].gateway,
                    state |-> "opened"]]
             /\ req' = [req EXCEPT ![r].pc = "initiate_write", ![r].session = s]
       \/ Return(r) /\ UNCHANGED session
    /\ UNCHANGED <<order, assigned, payment, invoiced, confirmations, verifyLock>>

\* Point the reused row at the new session, or create a row for it; the
\* answer gives the customer the session's checkout URL. A write that the
\* database rejects leaves the session open at the gateway, its URL unknown.
InitiateWrite(r) ==
    /\ req[r].pc = "initiate_write"
    /\ LET s == req[r].session
       IN  \/ /\ \/ /\ req[r].payment # None
                    /\ payment' = [payment EXCEPT ![req[r].payment].ref = s]
                 \/ /\ req[r].payment = None
                    /\ \E p \in Payments :
                          /\ payment[p].status = "ABSENT"
                          /\ payment' = [payment EXCEPT ![p] =
                                [order |-> req[r].order, status |-> "PENDING",
                                 ref |-> s]]
              /\ session' = [session EXCEPT ![s].state = "offered"]
           \/ UNCHANGED <<payment, session>>
    /\ Return(r)
    /\ UNCHANGED <<order, assigned, invoiced, confirmations, verifyLock>>

-----------------------------------------------------------------------------
(* The gateway *)

\* The customer pays an offered session, with the right amount or not.
Capture(s, state) ==
    /\ session[s].state = "offered"
    /\ state \in {"paid", "mispaid"}
    /\ session' = [session EXCEPT ![s].state = state]
    /\ UNCHANGED <<order, assigned, payment, invoiced, confirmations,
                   verifyLock, req>>

\* Faulty variant: an open session that nobody has paid counts as confirmed.
ConfirmsUnpaid(g, s) ==
    session[s].gateway = g /\ session[s].state \in {"offered", "paid", "mispaid"}

\* gateway.verifyPayment: a gateway knows only its own sessions.
Confirms(g, s) == session[s].gateway = g /\ Captured(s)

-----------------------------------------------------------------------------
(* payments.verify and the gateways' webhooks *)

\* Any reference and gateway may be asked about; an unknown reference and a
\* SUCCESS payment are answered at once and change nothing.
VerifyFind(r, s, g) ==
    /\ \E p \in Payments :
          /\ payment[p].ref = s
          /\ payment[p].status # "SUCCESS"
          /\ Begin(r, [Idle EXCEPT !.pc = "verify_lock", !.payment = p,
                                   !.session = s, !.gateway = g])
    /\ UNCHANGED <<order, assigned, payment, session, invoiced, confirmations,
                   verifyLock>>

VerifyLock(r) ==
    /\ req[r].pc = "verify_lock"
    /\ Locks!SetNX(req[r].payment, r)
    /\ Goto(r, "verify_reread")
    /\ UNCHANGED <<order, assigned, payment, session, invoiced, confirmations>>

\* Faulty variant: wait for the key instead of refusing.
VerifyWaits(r) ==
    /\ req[r].pc = "verify_lock"
    /\ verifyLock[req[r].payment] # {}
    /\ UNCHANGED vars

\* The key is held: ConflictError to a client, a 200 to a webhook.
VerifyConflict(r) ==
    /\ req[r].pc = "verify_lock"
    /\ verifyLock[req[r].payment] # {}
    /\ Return(r)
    /\ UNCHANGED <<order, assigned, payment, session, invoiced, confirmations,
                   verifyLock>>

\* Faulty variant: trust the status read before the lock.
VerifyTrusts(r) ==
    /\ req[r].pc = "verify_reread"
    /\ Goto(r, "verify_ask")
    /\ UNCHANGED <<order, assigned, payment, session, invoiced, confirmations,
                   verifyLock>>

VerifyReread(r) ==
    /\ req[r].pc = "verify_reread"
    /\ Goto(r, IF payment[req[r].payment].status = "SUCCESS"
               THEN "verify_release" ELSE "verify_ask")
    /\ UNCHANGED <<order, assigned, payment, session, invoiced, confirmations,
                   verifyLock>>

VerifyAsk(r) ==
    /\ req[r].pc = "verify_ask"
    /\ Goto(r, IF Confirms(req[r].gateway, req[r].session)
               THEN "verify_order" ELSE "verify_fail")
    /\ UNCHANGED <<order, assigned, payment, session, invoiced, confirmations,
                   verifyLock>>

\* Faulty variant: the order's status name is written to the payment.
SetOrderStatusName(r, status) ==
    payment' = [payment EXCEPT ![req[r].payment].status =
                   IF status = "SUCCESS" THEN "PAID" ELSE status]

SetPaymentStatus(r, status) ==
    payment' = [payment EXCEPT ![req[r].payment].status = status]

\* Anything but a success answer, an unfinished checkout included.
VerifyFail(r) ==
    /\ req[r].pc = "verify_fail"
    /\ SetPaymentStatus(r, "FAILED")
    /\ Goto(r, "verify_release")
    /\ UNCHANGED <<order, assigned, session, invoiced, confirmations, verifyLock>>

\* Faulty variant: amount and currency are not compared.
VerifyOrderAnyAmount(r) ==
    /\ req[r].pc = "verify_order"
    /\ Goto(r, IF CanTransition(order[payment[req[r].payment].order], "PAID")
               THEN "verify_commit" ELSE "verify_flag")
    /\ UNCHANGED <<order, assigned, payment, session, invoiced, confirmations,
                   verifyLock>>

\* The order is read outside the transaction that will write it.
VerifyOrder(r) ==
    /\ req[r].pc = "verify_order"
    /\ Goto(r, IF /\ session[req[r].session].state = "paid"
                  /\ CanTransition(order[payment[req[r].payment].order], "PAID")
               THEN "verify_commit" ELSE "verify_flag")
    /\ UNCHANGED <<order, assigned, payment, session, invoiced, confirmations,
                   verifyLock>>

VerifyFlag(r) ==
    /\ req[r].pc = "verify_flag"
    /\ SetPaymentStatus(r, "FLAGGED")
    /\ Goto(r, "verify_release")
    /\ UNCHANGED <<order, assigned, session, invoiced, confirmations, verifyLock>>

\* Faulty variants: no unique indexes; only the one on SUCCESS payments.
NoIndexes(p) == payment[p].status # "ABSENT"

SuccessIndexOnly(p) == PaymentsOf(payment[p].order, "SUCCESS") \subseteq {p}

\* The unique index on invoices.order_id and the partial unique index on the
\* SUCCESS payments of an order. PostgreSQL aborts the transaction at the
\* first violation, so catching the duplicate invoice does not save the rest.
ConstraintsAllow(p) ==
    LET o == payment[p].order
    IN  /\ o \notin invoiced
        /\ PaymentsOf(o, "SUCCESS") \subseteq {p}

\* The Serializable transaction, all of it or nothing.
VerifyCommit(r) ==
    /\ req[r].pc = "verify_commit"
    /\ ConstraintsAllow(req[r].payment)
    /\ LET o == payment[req[r].payment].order
       IN  /\ order' = [order EXCEPT ![o] = "PAID"]
           /\ invoiced' = invoiced \cup {o}
           /\ confirmations' = [confirmations EXCEPT ![o] = @ + 1]
    /\ SetPaymentStatus(r, "SUCCESS")
    /\ Goto(r, "verify_release")
    /\ UNCHANGED <<assigned, session, verifyLock>>

VerifyRollback(r) ==
    /\ req[r].pc = "verify_commit"
    /\ ~ConstraintsAllow(req[r].payment)
    /\ Goto(r, "verify_release")
    /\ UNCHANGED <<order, assigned, payment, session, invoiced, confirmations,
                   verifyLock>>

\* Faulty variant: a plain DEL, whoever owns the key by now.
VerifyReleaseAny(r) ==
    /\ req[r].pc = "verify_release"
    /\ verifyLock' = [verifyLock EXCEPT ![req[r].payment] = {}]
    /\ Return(r)
    /\ UNCHANGED <<order, assigned, payment, session, invoiced, confirmations>>

VerifyRelease(r) ==
    /\ req[r].pc = "verify_release"
    /\ Locks!DelIfOwner(req[r].payment, r)
    /\ Return(r)
    /\ UNCHANGED <<order, assigned, payment, session, invoiced, confirmations>>

\* Redis drops the lock at the end of its 15 s.
LockExpires(p) ==
    /\ UNCHANGED <<order, assigned, payment, session, invoiced, confirmations,
                   req>>
    /\ Locks!Expire(p)

-----------------------------------------------------------------------------
(* orders.cancel, orders.updateStatus, orders.assignStaff, siwes.uploadReport *)

CancelRead(r, o) ==
    /\ order[o] \in Payable
    /\ Begin(r, [Idle EXCEPT !.pc = "cancel_write", !.order = o])
    /\ UNCHANGED <<order, assigned, payment, session, invoiced, confirmations,
                   verifyLock>>

\* cancel writes CANCELLED twice: repo.update, then repo.updateStatus.
CancelWrite(r) ==
    /\ req[r].pc \in {"cancel_write", "cancel_again"}
    /\ order' = [order EXCEPT ![req[r].order] = "CANCELLED"]
    /\ IF req[r].pc = "cancel_write" THEN Goto(r, "cancel_again") ELSE Return(r)
    /\ UNCHANGED <<assigned, payment, session, invoiced, confirmations, verifyLock>>

StatusRead(r, o, to) ==
    /\ CanTransition(order[o], to)
    /\ Begin(r, [Idle EXCEPT !.pc = "status_write", !.order = o, !.target = to])
    /\ UNCHANGED <<order, assigned, payment, session, invoiced, confirmations,
                   verifyLock>>

\* ordersRepository.updateStatus, with no check of what it overwrites.
StatusWrite(r) ==
    /\ req[r].pc = "status_write"
    /\ order' = [order EXCEPT ![req[r].order] = req[r].target]
    /\ Return(r)
    /\ UNCHANGED <<assigned, payment, session, invoiced, confirmations, verifyLock>>

AssignRead(r, o) ==
    /\ order[o] \in {"PAID", "DRAFT"}
    /\ o \notin assigned
    /\ Begin(r, [Idle EXCEPT !.pc = "assign_create", !.order = o,
                             !.target = "ASSIGNED"])
    /\ UNCHANGED <<order, assigned, payment, session, invoiced, confirmations,
                   verifyLock>>

\* order_assignments.order_id is unique: the second of two assigns throws.
AssignCreate(r) ==
    /\ req[r].pc = "assign_create"
    /\ IF req[r].order \in assigned THEN Return(r) ELSE Goto(r, "status_write")
    /\ assigned' = assigned \cup {req[r].order}
    /\ UNCHANGED <<order, payment, session, invoiced, confirmations, verifyLock>>

ReportRead(r, o) ==
    /\ order[o] \in {"IN_PROGRESS", "ASSIGNED"}
    /\ o \in assigned
    /\ Begin(r, [Idle EXCEPT !.pc = "status_write", !.order = o,
                             !.target = "DELIVERED"])
    /\ UNCHANGED <<order, assigned, payment, session, invoiced, confirmations,
                   verifyLock>>

-----------------------------------------------------------------------------
\* An await inside withLock's body rejects: `finally` still releases.
Throw(r) ==
    /\ req[r].pc \in LockedPCs \ {"verify_release"}
    /\ Goto(r, "verify_release")
    /\ UNCHANGED <<order, assigned, payment, session, invoiced, confirmations,
                   verifyLock>>

\* The process dies (or, outside the lock, an await rejects): the request
\* ends where it stands, and a lock it holds stays until it expires.
Die(r) ==
    /\ req[r].pc # "idle"
    /\ Return(r)
    /\ UNCHANGED <<order, assigned, payment, session, invoiced, confirmations,
                   verifyLock>>

\* A request goes on to its next await.
Step(r) ==
    \/ InitiateList(r) \/ InitiateOpen(r) \/ InitiateWrite(r)
    \/ VerifyLock(r) \/ VerifyConflict(r) \/ VerifyReread(r) \/ VerifyAsk(r)
    \/ VerifyFail(r) \/ VerifyOrder(r) \/ VerifyFlag(r) \/ VerifyCommit(r)
    \/ VerifyRollback(r) \/ VerifyRelease(r)
    \/ CancelWrite(r) \/ StatusWrite(r) \/ AssignCreate(r)

Call(r) ==
    \/ \E o \in Orders :
          \/ \E g \in Gateways : InitiateRead(r, o, g)
          \/ CancelRead(r, o)
          \/ \E to \in StaffTargets : StatusRead(r, o, to)
          \/ AssignRead(r, o)
          \/ ReportRead(r, o)
    \/ \E s \in Sessions, g \in Gateways : VerifyFind(r, s, g)

Next ==
    \/ \E r \in Requests : Call(r) \/ Step(r) \/ Throw(r) \/ Die(r)
    \/ \E s \in Sessions, state \in SessionStates : Capture(s, state)
    \/ \E p \in Payments : LockExpires(p)

Spec == Init /\ [][Next]_vars

\* Only progress is fair: customers, staff and gateways owe no call. A served
\* request reaches its next await, and Redis drops a lock at its time to live.
Fairness ==
    /\ \A r \in Requests : WF_vars(Step(r))
    /\ \A p \in Payments : WF_vars(LockExpires(p))

FairSpec == Spec /\ Fairness

-----------------------------------------------------------------------------
\* An order never has two SUCCESS payments, however many attempts ran at once
\* and whatever happened to the Redis lock (payments.service.ts:80-88).
OneSuccessPerOrder ==
    \A p, q \in Payments :
        /\ payment[p].status = "SUCCESS"
        /\ payment[q].status = "SUCCESS"
        /\ payment[p].order = payment[q].order
        => p = q

Funded(o, states) ==
    \E s \in Sessions : session[s].order = o /\ session[s].state \in states

\* A SUCCESS payment means that a gateway captured the exact price of that
\* very order, even if the row has been pointed at another session since.
SuccessIsFunded ==
    \A p \in Payments :
        payment[p].status = "SUCCESS" => Funded(payment[p].order, {"paid"})

\* A FLAGGED payment is one to reconcile by hand: a gateway holds money that
\* a customer paid for its order.
FlaggedHoldsMoney ==
    \A p \in Payments :
        payment[p].status = "FLAGGED" => Funded(payment[p].order, {"paid", "mispaid"})

Ledger == INSTANCE OrderLedger
    WITH funded <- {o \in Orders : Funded(o, {"paid"})}

\* Checkout implements the ledger: whatever interleaving, crash or lapsed
\* lease, an order is confirmed once, funded, and invoiced in the same step.
ImplementsLedger == Ledger!Spec

\* Verification uses its Redis key as withLock does: no request takes a held
\* key or frees a key that another request acquired after a lapse.
ImplementsLock == Locks!Spec

\* A SUCCESS payment keeps its status: a verify that started before it, or
\* that asked the gateway before the capture, cannot take it back.
SuccessIsFinal ==
    [][\A p \in Payments :
          payment[p].status = "SUCCESS" => payment'[p].status = "SUCCESS"]_vars

\* An order has an invoice exactly when one of its payments is SUCCESS.
InvoicedIffSuccess ==
    \A o \in Orders : o \in invoiced <=> PaymentsOf(o, "SUCCESS") # {}

\* The books of an order agree: it has an invoice exactly when its history
\* confirms a payment, once, and then a gateway captured its exact price.
BooksAgree ==
    \A o \in Orders :
        /\ o \in invoiced <=> confirmations[o] # 0
        /\ confirmations[o] <= 1
        /\ o \in invoiced => Funded(o, {"paid"})

\* At most one request at a time is past the lock of a payment.
VerifiesExclude == Locks!MutualExclusion

\* No payment stays locked for ever, not even by a process that died.
LocksAreFreed == \A p \in Payments : []<>(verifyLock[p] = {})

\* Every request is answered: no handler waits for another one for ever.
RequestsReturn == \A r \in Requests : req[r].pc # "idle" ~> req[r].pc = "idle"

\* The requests that have read the status of an order to write it and have not
\* written it yet.
Writers(o) ==
    {r \in Requests :
        \/ /\ req[r].pc \in {"cancel_write", "cancel_again", "status_write", "assign_create"}
           /\ req[r].order = o
        \/ req[r].pc = "verify_commit" /\ payment[req[r].payment].order = o}

NoRaces == \A o \in Orders : \A q, r \in Writers(o) : q = r

\* The moves that the handlers mean to make: those of the table, and what
\* assignStaff and uploadReport check for themselves.
LegalMove(from, to) ==
    \/ CanTransition(from, to)
    \/ from \in {"DRAFT", "PAID"} /\ to = "ASSIGNED"
    \/ from \in {"IN_PROGRESS", "ASSIGNED"} /\ to = "DELIVERED"

\* No handler moves an order in a way that it was not meant to move.
OnlyLegalMoves ==
    [][\A o \in Orders : order'[o] # order[o] => LegalMove(order[o], order'[o])]_vars

-----------------------------------------------------------------------------
(* What comments of the code say, and the code does not do. *)

\* "Order moved out of a payable state between initiation and verification
\* (e.g. cancelled concurrently) - don't force it to PAID."
CancelledIsNotForcedToPaid ==
    [][\A o \in Orders : order[o] = "CANCELLED" => order'[o] # "PAID"]_vars
=============================================================================
