---------------------- MODULE OrderCheckoutLeaseProofs ----------------------
(***************************************************************************)
(* What the Redis lock of a verification adds: how it is used in every     *)
(* behavior, and what holds when no verification outlives its lease.       *)
(***************************************************************************)
EXTENDS OrderCheckoutProofs

(* Within its lease, the request past the lock owns it, the payment it     *)
(* works on is not SUCCESS before its own commit, and invoices match.      *)
OwnsInv ==
    \A r \in Requests :
        req[r].pc \in LockedPCs => verifyLock[req[r].payment] = {r}

UnsettledInv ==
    \A r \in Requests :
        req[r].pc \in LockedPCs \ {"verify_reread", "verify_release"}
        => payment[req[r].payment].status # "SUCCESS"

LeaseInv == OwnsInv /\ UnsettledInv /\ InvoicedIffSuccess

\* What one handler step does to the locks and to the set of successful
\* payments, with its own new place; enough to keep LeaseInv.
LEMMA LeaseMove ==
    ASSUME IInv, LeaseInv, NEW r \in Requests,
           \A q \in Requests : q # r => req'[q] = req[q],
           UNCHANGED <<verifyLock, invoiced>>,
           \A p \in Payments :
              payment'[p].status = "SUCCESS" <=> payment[p].status = "SUCCESS",
           \A p \in Payments :
              payment[p].status = "SUCCESS" => payment'[p].order = payment[p].order,
           req'[r].pc \in LockedPCs
           => req[r].pc \in LockedPCs /\ req'[r].payment = req[r].payment,
           req'[r].pc \in LockedPCs \ {"verify_reread", "verify_release"}
           => payment[req[r].payment].status # "SUCCESS"
    PROVE  LeaseInv'
<1>1. OwnsInv'
  BY DEF LeaseInv, OwnsInv
<1>2. \A q \in Requests : req[q].pc \in LockedPCs => req[q].payment \in Payments
  BY DEF IInv, JobInv
<1>3. UnsettledInv'
  BY <1>2 DEF LeaseInv, UnsettledInv
<1>4. InvoicedIffSuccess'
  BY DEF LeaseInv, InvoicedIffSuccess, PaymentsOf
<1>5. QED
  BY <1>1, <1>3, <1>4 DEF LeaseInv

\* The lock is free, so no request is inside; then this one alone is.
LEMMA LeaseLocked ==
    ASSUME IInv, LeaseInv, NEW r \in Requests, VerifyLock(r)
    PROVE  LeaseInv'
<1> TypeOK /\ JobInv(r)
  BY DEF IInv
<1>1. /\ req[r].payment \in Payments
      /\ verifyLock[req[r].payment] = {}
      /\ verifyLock' = [verifyLock EXCEPT ![req[r].payment] = {r}]
      /\ UNCHANGED <<payment, invoiced>>
  BY DEF VerifyLock, Locks!SetNX, JobInv
<1>2. /\ \A q \in Requests : q # r => req'[q] = req[q]
      /\ req'[r].pc = "verify_reread"
      /\ req'[r].payment = req[r].payment
  BY GotoJob DEF VerifyLock, PCs, LockedPCs
<1>3. \A q \in Requests :
         req[q].pc \in LockedPCs
         => req[q].payment \in Payments \ {req[r].payment}
  <2>1. \A q \in Requests : req[q].pc \in LockedPCs => req[q].payment \in Payments
    BY DEF IInv, JobInv
  <2>2. QED
    BY <1>1, <2>1 DEF LeaseInv, OwnsInv
<1>4. OwnsInv'
  <2> SUFFICES ASSUME NEW q \in Requests, req'[q].pc \in LockedPCs
               PROVE  verifyLock'[req'[q].payment] = {q}
    BY DEF OwnsInv
  <2>1. CASE q = r
    BY <1>1, <1>2, <2>1 DEF TypeOK
  <2>2. CASE q # r
    BY <1>1, <1>2, <1>3, <2>2 DEF TypeOK, LeaseInv, OwnsInv
  <2>3. QED
    BY <2>1, <2>2
<1>5. UnsettledInv'
  BY <1>1, <1>2 DEF LeaseInv, UnsettledInv
<1>6. InvoicedIffSuccess'
  BY <1>1 DEF LeaseInv, InvoicedIffSuccess, PaymentsOf
<1>7. QED
  BY <1>4, <1>5, <1>6 DEF LeaseInv

\* Leaving the body frees a lock that no other request works under.
LEMMA LeaseReleased ==
    ASSUME IInv, LeaseInv, NEW r \in Requests, VerifyRelease(r)
    PROVE  LeaseInv'
<1> TypeOK
  BY DEF IInv
<1>1. /\ req[r].pc \in LockedPCs
      /\ verifyLock' = [verifyLock EXCEPT ![req[r].payment] = @ \ {r}]
      /\ UNCHANGED <<payment, invoiced>>
  BY DEF VerifyRelease, Locks!DelIfOwner, LockedPCs
<1>2. /\ \A q \in Requests : q # r => req'[q] = req[q]
      /\ req'[r].pc = "idle"
  BY ReturnJob DEF VerifyRelease
<1>3. \A q \in Requests : req[q].pc \in LockedPCs => req[q].payment \in Payments
  BY DEF IInv, JobInv
<1>4. OwnsInv'
  <2> SUFFICES ASSUME NEW q \in Requests, req'[q].pc \in LockedPCs
               PROVE  verifyLock'[req'[q].payment] = {q}
    BY DEF OwnsInv
  <2>1. q # r /\ req'[q] = req[q]
    BY <1>2 DEF LockedPCs, ConfirmedPCs
  <2>2. verifyLock[req[q].payment] = {q} /\ verifyLock[req[r].payment] = {r}
    BY <1>1, <2>1 DEF LeaseInv, OwnsInv
  <2>3. req[q].payment # req[r].payment
    BY <2>1, <2>2
  <2>4. QED
    BY <1>1, <1>3, <2>1, <2>2, <2>3 DEF TypeOK
<1>5. UnsettledInv'
  BY <1>1, <1>2 DEF LeaseInv, UnsettledInv, LockedPCs, ConfirmedPCs
<1>6. InvoicedIffSuccess'
  BY <1>1 DEF LeaseInv, InvoicedIffSuccess, PaymentsOf
<1>7. QED
  BY <1>4, <1>5, <1>6 DEF LeaseInv

\* Redis drops only a lock that no request works under.
LEMMA LeaseExpired ==
    ASSUME LeasesLapse = FALSE, IInv, LeaseInv, NEW p \in Payments, LockExpires(p)
    PROVE  LeaseInv'
<1> TypeOK
  BY DEF IInv
<1>1. /\ verifyLock' = [verifyLock EXCEPT ![p] = {}]
      /\ verifyLock[p] \cap Verifying[p] = {}
      /\ UNCHANGED <<req, payment, invoiced>>
  BY DEF LockExpires, Locks!Expire
<1>2. \A q \in Requests :
         req[q].pc \in LockedPCs => req[q].payment \in Payments \ {p}
  <2> SUFFICES ASSUME NEW q \in Requests, req[q].pc \in LockedPCs
               PROVE  req[q].payment \in Payments \ {p}
    OBVIOUS
  <2>1. req[q].payment \in Payments
    BY DEF IInv, JobInv
  <2>2. ASSUME req[q].payment = p
        PROVE  FALSE
    <3>1. q \in Verifying[p] /\ q \in verifyLock[p]
      BY <2>2 DEF Verifying, LeaseInv, OwnsInv
    <3>2. QED
      BY <1>1, <3>1
  <2>3. QED
    BY <2>1, <2>2
<1>3. OwnsInv'
  BY <1>1, <1>2 DEF LeaseInv, OwnsInv, TypeOK
<1>4. UnsettledInv' /\ InvoicedIffSuccess'
  BY <1>1 DEF LeaseInv, UnsettledInv, InvoicedIffSuccess, PaymentsOf
<1>5. QED
  BY <1>3, <1>4 DEF LeaseInv

\* A request that holds the lock alone writes a payment that is not SUCCESS:
\* the write takes no settled payment back, and a commit adds its invoice.
LEMMA LeaseStatus ==
    ASSUME IInv, LeaseInv, NEW r \in Requests,
           VerifyFail(r) \/ VerifyFlag(r) \/ VerifyCommit(r)
    PROVE  /\ LeaseInv'
           /\ \A q \in Payments : payment[q].status = "SUCCESS" => payment'[q] = payment[q]
<1> DEFINE p == req[r].payment
<1> TypeOK /\ JobInv(r)
  BY DEF IInv
<1>1. /\ req[r].pc \in LockedPCs \ {"verify_reread", "verify_release"}
      /\ p \in Payments
      /\ payment[p].status # "ABSENT"
      /\ payment[p].status # "SUCCESS"
      /\ UNCHANGED verifyLock
      /\ Goto(r, "verify_release")
  BY DEF VerifyFail, VerifyFlag, VerifyCommit, JobInv, LockedPCs, ConfirmedPCs,
         LeaseInv, UnsettledInv
<1>2. PICK status \in {"SUCCESS", "FAILED", "FLAGGED"} :
         /\ SetPaymentStatus(r, status)
         /\ invoiced' = IF status = "SUCCESS" THEN invoiced \cup {payment[p].order}
                                             ELSE invoiced
  BY DEF VerifyFail, VerifyFlag, VerifyCommit
<1>3. /\ \A q \in Payments : q # p => payment'[q] = payment[q]
      /\ payment'[p].status = status
      /\ payment'[p].order = payment[p].order
  BY <1>1, <1>2, StatusSet DEF PaymentStatuses
<1>4. /\ \A q \in Requests : q # r => req'[q] = req[q]
      /\ req'[r].pc = "verify_release"
      /\ req'[r].payment = p
  BY <1>1, GotoJob DEF PCs, LockedPCs
<1>5. payment[p].order \in Orders
  BY <1>1 DEF IInv, RowsInv
<1> HIDE DEF p
<1>6. OwnsInv'
  BY <1>1, <1>4 DEF LeaseInv, OwnsInv, p
<1>7. UnsettledInv'
  <2> SUFFICES ASSUME NEW q \in Requests,
                      req'[q].pc \in LockedPCs \ {"verify_reread", "verify_release"}
               PROVE  payment'[req'[q].payment].status # "SUCCESS"
    BY DEF UnsettledInv
  <2>1. q # r /\ req'[q] = req[q]
    BY <1>4
  <2>2. req[q].payment \in Payments
    BY <2>1 DEF IInv, JobInv
  <2>3. verifyLock[req[q].payment] = {q} /\ verifyLock[p] = {r}
    BY <1>1, <2>1 DEF LeaseInv, OwnsInv, p
  <2>4. req[q].payment # p
    BY <2>1, <2>3
  <2>5. QED
    BY <1>3, <2>1, <2>2, <2>4 DEF LeaseInv, UnsettledInv
<1>8. InvoicedIffSuccess'
  <2> SUFFICES ASSUME NEW o \in Orders
               PROVE  o \in invoiced' <=>
                      \E q \in Payments :
                         payment'[q].order = o /\ payment'[q].status = "SUCCESS"
    BY DEF InvoicedIffSuccess, PaymentsOf
  <2>1. o \in invoiced <=>
        \E q \in Payments : payment[q].order = o /\ payment[q].status = "SUCCESS"
    BY DEF LeaseInv, InvoicedIffSuccess, PaymentsOf
  <2>2. QED
    BY <1>1, <1>2, <1>3, <2>1
<1>9. QED
  BY <1>1, <1>3, <1>6, <1>7, <1>8 DEF LeaseInv

\* A write of initiate creates a PENDING row or moves a row's reference.
LEMMA LeaseWritten ==
    ASSUME IInv, LeaseInv, NEW r \in Requests, InitiateWrite(r)
    PROVE  /\ LeaseInv'
           /\ \A p \in Payments :
                 payment[p].status = "SUCCESS" => payment'[p].status = "SUCCESS"
<1> TypeOK
  BY DEF IInv
<1>1. \A p \in Payments :
         /\ payment'[p].status = "SUCCESS" <=> payment[p].status = "SUCCESS"
         /\ payment[p].status = "SUCCESS" => payment'[p].order = payment[p].order
  BY DEF InitiateWrite, TypeOK, Row
<1>2. /\ \A q \in Requests : q # r => req'[q] = req[q]
      /\ req'[r].pc = "idle"
  BY ReturnJob DEF InitiateWrite
<1>3. UNCHANGED <<verifyLock, invoiced>>
  BY DEF InitiateWrite
<1>4. LeaseInv'
  BY <1>1, <1>2, <1>3, LeaseMove DEF LockedPCs, ConfirmedPCs
<1>5. QED
  BY <1>1, <1>4

\* Every other handler step leaves rows, invoices and locks alone.
LEMMA LeaseRead ==
    ASSUME IInv, LeaseInv, NEW r \in Requests,
           UNCHANGED <<payment, invoiced, verifyLock>>,
           \/ Return(r)
           \/ \E pc \in PCs :
                 /\ Goto(r, pc)
                 /\ pc \in LockedPCs => req[r].pc \in LockedPCs
                 /\ pc \in LockedPCs \ {"verify_reread", "verify_release"}
                    => payment[req[r].payment].status # "SUCCESS"
           \/ /\ \A q \in Requests : q # r => req'[q] = req[q]
              /\ req'[r].pc \notin LockedPCs
    PROVE  LeaseInv'
<1> TypeOK
  BY DEF IInv
<1>1. CASE Return(r)
  BY <1>1, ReturnJob, LeaseMove DEF LockedPCs, ConfirmedPCs
<1>2. ASSUME NEW pc \in PCs, Goto(r, pc),
             pc \in LockedPCs => req[r].pc \in LockedPCs,
             pc \in LockedPCs \ {"verify_reread", "verify_release"}
             => payment[req[r].payment].status # "SUCCESS"
      PROVE  LeaseInv'
  BY <1>2, GotoJob, LeaseMove
<1>3. CASE /\ \A q \in Requests : q # r => req'[q] = req[q]
           /\ req'[r].pc \notin LockedPCs
  BY <1>3, LeaseMove
<1>4. QED
  BY <1>1, <1>2, <1>3

\* A call starts before the lock, and touches no row.
LEMMA CallStarts ==
    ASSUME TypeOK, NEW r \in Requests, Call(r)
    PROVE  /\ \A q \in Requests : q # r => req'[q] = req[q]
           /\ req'[r].pc \notin LockedPCs
           /\ req[r] = Idle
           /\ UNCHANGED <<payment, invoiced, verifyLock>>
<1>1. ASSUME NEW o \in Orders, NEW g \in Gateways, InitiateRead(r, o, g)
      PROVE  req'[r].pc = "initiate_list"
  BY <1>1 DEF InitiateRead, Begin, Idle, TypeOK
<1>2. ASSUME NEW o \in Orders, CancelRead(r, o)
      PROVE  req'[r].pc = "cancel_write"
  BY <1>2 DEF CancelRead, Begin, Idle, TypeOK
<1>3. ASSUME NEW o \in Orders, NEW to \in StaffTargets, StatusRead(r, o, to)
      PROVE  req'[r].pc = "status_write"
  BY <1>3 DEF StatusRead, Begin, Idle, TypeOK
<1>4. ASSUME NEW o \in Orders, AssignRead(r, o)
      PROVE  req'[r].pc = "assign_create"
  BY <1>4 DEF AssignRead, Begin, Idle, TypeOK
<1>5. ASSUME NEW o \in Orders, ReportRead(r, o)
      PROVE  req'[r].pc = "status_write"
  BY <1>5 DEF ReportRead, Begin, Idle, TypeOK
<1>6. ASSUME NEW s \in Sessions, NEW g \in Gateways, VerifyFind(r, s, g)
      PROVE  req'[r].pc = "verify_lock"
  BY <1>6 DEF VerifyFind, Begin, Idle, TypeOK
<1>7. req'[r].pc \notin LockedPCs
  BY <1>1, <1>2, <1>3, <1>4, <1>5, <1>6 DEF Call, LockedPCs, ConfirmedPCs
<1>8. /\ req[r] = Idle
      /\ \A q \in Requests : q # r => req'[q] = req[q]
      /\ UNCHANGED <<payment, invoiced, verifyLock>>
  BY DEF Call, InitiateRead, CancelRead, StatusRead, AssignRead, ReportRead,
         VerifyFind, Begin, TypeOK
<1>9. QED
  BY <1>7, <1>8

\* A step of a handler outside the lock stays outside, and takes no lock.
LEMMA OutsideMoves ==
    ASSUME IInv, NEW r \in Requests,
           \/ InitiateList(r) \/ InitiateOpen(r) \/ VerifyConflict(r)
           \/ CancelWrite(r) \/ StatusWrite(r) \/ AssignCreate(r)
    PROVE  /\ \A q \in Requests : q # r => req'[q] = req[q]
           /\ req[r].pc \notin LockedPCs
           /\ req'[r].pc \notin LockedPCs
           /\ UNCHANGED <<payment, invoiced, verifyLock>>
<1> TypeOK
  BY DEF IInv
<1>1. CASE InitiateList(r) \/ InitiateOpen(r)
  BY <1>1 DEF InitiateList, InitiateOpen, Return, Idle, TypeOK, LockedPCs,
              ConfirmedPCs, Job
<1>2. CASE VerifyConflict(r) \/ StatusWrite(r)
  BY <1>2, ReturnJob DEF VerifyConflict, StatusWrite, LockedPCs, ConfirmedPCs
<1>3. CASE CancelWrite(r) \/ AssignCreate(r)
  BY <1>3, ReturnJob, GotoJob DEF CancelWrite, AssignCreate, LockedPCs,
     ConfirmedPCs, PCs
<1>4. QED
  BY <1>1, <1>2, <1>3

\* Without lapses, every step keeps the lease invariant, and no step changes
\* the status of a SUCCESS payment.
LEMMA LeaseStep ==
    ASSUME LeasesLapse = FALSE, IInv, LeaseInv, [Next]_vars
    PROVE  /\ LeaseInv'
           /\ \A p \in Payments :
                 payment[p].status = "SUCCESS" => payment'[p].status = "SUCCESS"
<1> TypeOK
  BY DEF IInv
<1>1. ASSUME NEW r \in Requests, VerifyFail(r) \/ VerifyFlag(r) \/ VerifyCommit(r)
      PROVE  /\ LeaseInv'
             /\ \A p \in Payments :
                   payment[p].status = "SUCCESS" => payment'[p].status = "SUCCESS"
  BY <1>1, LeaseStatus
<1>2. ASSUME NEW r \in Requests, InitiateWrite(r)
      PROVE  /\ LeaseInv'
             /\ \A p \in Payments :
                   payment[p].status = "SUCCESS" => payment'[p].status = "SUCCESS"
  BY <1>2, LeaseWritten
<1>3. ASSUME NEW r \in Requests, VerifyLock(r) \/ VerifyRelease(r)
      PROVE  LeaseInv' /\ UNCHANGED payment
  BY <1>3, LeaseLocked, LeaseReleased DEF VerifyLock, VerifyRelease
<1>4. ASSUME NEW r \in Requests,
             \/ Call(r) \/ InitiateList(r) \/ InitiateOpen(r) \/ VerifyConflict(r)
             \/ CancelWrite(r) \/ StatusWrite(r) \/ AssignCreate(r)
      PROVE  LeaseInv' /\ UNCHANGED payment
  BY <1>4, CallStarts, OutsideMoves, LeaseRead
<1>5. ASSUME NEW r \in Requests,
             \/ VerifyReread(r) \/ VerifyAsk(r) \/ VerifyOrder(r)
             \/ VerifyRollback(r) \/ Throw(r)
      PROVE  LeaseInv' /\ UNCHANGED payment
  <2>1. /\ UNCHANGED <<payment, invoiced, verifyLock>>
        /\ req[r].pc \in LockedPCs
    BY <1>5 DEF VerifyReread, VerifyAsk, VerifyOrder, VerifyRollback, Throw,
                LockedPCs, ConfirmedPCs
  <2>2. \E pc \in PCs :
           /\ Goto(r, pc)
           /\ pc \in LockedPCs \ {"verify_reread", "verify_release"}
              => payment[req[r].payment].status # "SUCCESS"
    BY <1>5 DEF VerifyReread, VerifyAsk, VerifyOrder, VerifyRollback, Throw,
                PCs, LockedPCs, ConfirmedPCs, LeaseInv, UnsettledInv
  <2>3. QED
    BY <2>1, <2>2, LeaseRead
<1>6. ASSUME NEW r \in Requests, Die(r)
      PROVE  LeaseInv' /\ UNCHANGED payment
  BY <1>6, LeaseRead DEF Die
<1>7. ASSUME NEW p \in Payments, LockExpires(p)
      PROVE  LeaseInv' /\ UNCHANGED payment
  BY <1>7, LeaseExpired DEF LockExpires
<1>8. CASE \/ \E s \in Sessions, state \in SessionStates : Capture(s, state)
           \/ UNCHANGED vars
  BY <1>8 DEF Capture, vars, LeaseInv, OwnsInv, UnsettledInv,
              InvoicedIffSuccess, PaymentsOf
<1>9. QED
  BY <1>1, <1>2, <1>3, <1>4, <1>5, <1>6, <1>7, <1>8 DEF Next, Step

LEMMA LeaseInductive ==
    ASSUME LeasesLapse = FALSE
    PROVE  Spec => [](IInv /\ LeaseInv)
<1>1. Init => LeaseInv
  BY DEF Init, Idle, NoRow, LeaseInv, OwnsInv, UnsettledInv, LockedPCs,
         ConfirmedPCs, InvoicedIffSuccess, PaymentsOf
<1>2. IInv /\ LeaseInv /\ [Next]_vars => LeaseInv'
  BY LeaseStep
<1>3. QED
  BY InitIInv, NextIInv, <1>1, <1>2, PTL DEF Spec

\* When no verification outlives its lease, a payment that is SUCCESS stays
\* SUCCESS whatever any request does.
THEOREM SuccessFinal ==
    ASSUME LeasesLapse = FALSE
    PROVE  Spec => SuccessIsFinal
<1>1. IInv /\ LeaseInv /\ [Next]_vars
      => [\A p \in Payments :
             payment[p].status = "SUCCESS" => payment'[p].status = "SUCCESS"]_vars
  BY LeaseStep
<1>2. QED
  BY <1>1, LeaseInductive, PTL DEF Spec, SuccessIsFinal

\* Under the same condition, the orders with an invoice are exactly those with
\* a SUCCESS payment, whatever a crash cuts short.
THEOREM InvoicedExactly ==
    ASSUME LeasesLapse = FALSE
    PROVE  Spec => []InvoicedIffSuccess
<1>1. LeaseInv => InvoicedIffSuccess
  BY DEF LeaseInv
<1>2. QED
  BY <1>1, LeaseInductive, PTL

\* And one request at a time verifies a payment.
THEOREM VerifiesAlone ==
    ASSUME LeasesLapse = FALSE
    PROVE  Spec => []VerifiesExclude
<1>1. LeaseInv => VerifiesExclude
  BY DEF LeaseInv, OwnsInv, VerifiesExclude, Locks!MutualExclusion, Verifying
<1>2. QED
  BY <1>1, LeaseInductive, PTL

-----------------------------------------------------------------------------
(* Refinement: verification uses its Redis key as withLock does            *)

\* A step in which no request enters or leaves a body changes no one's lock.
LEMMA SameWork ==
    ASSUME IInv, UNCHANGED verifyLock,
           \A q \in Requests :
              \/ UNCHANGED req[q]
              \/ req[q].pc \notin LockedPCs /\ req'[q].pc \notin LockedPCs
              \/ /\ req[q].pc \in LockedPCs /\ req'[q].pc \in LockedPCs
                 /\ req'[q].payment = req[q].payment
    PROVE  UNCHANGED Locks!vars
<1>1. Verifying' = Verifying
  BY DEF Verifying
<1>2. QED
  BY <1>1 DEF Locks!vars

\* Entering the body is Acquire, and leaving it Release or Die.
LEMMA LockWork ==
    ASSUME IInv, NEW r \in Requests,
           VerifyLock(r) \/ VerifyRelease(r) \/ Die(r)
    PROVE  Locks!Next \/ UNCHANGED Locks!vars
<1> DEFINE p == req[r].payment
<1> TypeOK /\ JobInv(r)
  BY DEF IInv
<1>1. CASE VerifyLock(r)
  <2>1. /\ \A q \in Requests : q # r => req'[q] = req[q]
        /\ req[r].pc = "verify_lock"
        /\ req'[r].pc = "verify_reread"
        /\ req'[r].payment = p
    BY <1>1, GotoJob DEF VerifyLock, PCs, LockedPCs
  <2>2. p \in Payments
    BY <2>1 DEF JobInv
  <2>3. Verifying' = [Verifying EXCEPT ![p] = @ \cup {r}]
    BY <2>1, <2>2 DEF Verifying, LockedPCs, ConfirmedPCs
  <2>4. r \notin Verifying[p]
    BY <2>1, <2>2 DEF Verifying, LockedPCs, ConfirmedPCs
  <2>5. Locks!Acquire(p, r)
    BY <1>1, <2>3, <2>4 DEF Locks!Acquire, VerifyLock
  <2>6. QED
    BY <2>2, <2>5 DEF Locks!Next
<1>2. CASE req[r].pc \in LockedPCs /\ (VerifyRelease(r) \/ Die(r))
  <2>1. /\ \A q \in Requests : q # r => req'[q] = req[q]
        /\ req'[r].pc = "idle"
    BY <1>2, ReturnJob DEF VerifyRelease, Die
  <2>2. p \in Payments
    BY <1>2 DEF JobInv
  <2>3. Verifying' = [Verifying EXCEPT ![p] = @ \ {r}]
    BY <1>2, <2>1, <2>2 DEF Verifying, LockedPCs, ConfirmedPCs
  <2>4. r \in Verifying[p]
    BY <1>2, <2>2 DEF Verifying
  <2>5. Locks!Release(p, r) \/ Locks!Die(p, r)
    BY <1>2, <2>3, <2>4 DEF Locks!Release, Locks!Die, VerifyRelease, Die
  <2>6. QED
    BY <2>2, <2>5 DEF Locks!Next
<1>3. CASE req[r].pc \notin LockedPCs /\ Die(r)
  <2>1. \A q \in Requests : req'[q] = req[q] \/ (q = r /\ req'[q].pc \notin LockedPCs)
    BY <1>3, ReturnJob DEF Die, LockedPCs, ConfirmedPCs
  <2>2. QED
    BY <1>3, <2>1, SameWork DEF Die
<1>4. QED
  BY <1>1, <1>2, <1>3 DEF VerifyRelease, LockedPCs

LEMMA LockStart == Init => Locks!Init
  BY DEF Init, Idle, Locks!Init, Verifying, LockedPCs, ConfirmedPCs

LEMMA LockStep == IInv /\ [Next]_vars => [Locks!Next]_(Locks!vars)
<1> SUFFICES ASSUME IInv, [Next]_vars
             PROVE  Locks!Next \/ UNCHANGED Locks!vars
  OBVIOUS
<1> TypeOK
  BY DEF IInv
<1>1. ASSUME NEW r \in Requests, VerifyLock(r) \/ VerifyRelease(r) \/ Die(r)
      PROVE  Locks!Next \/ UNCHANGED Locks!vars
  BY <1>1, LockWork
<1>2. ASSUME NEW r \in Requests,
             \/ Call(r) \/ InitiateList(r) \/ InitiateOpen(r) \/ VerifyConflict(r)
             \/ CancelWrite(r) \/ StatusWrite(r) \/ AssignCreate(r)
      PROVE  UNCHANGED Locks!vars
  <2>1. \A q \in Requests : q # r => req'[q] = req[q]
    BY <1>2, CallStarts, OutsideMoves
  <2>2. req[r].pc \notin LockedPCs /\ req'[r].pc \notin LockedPCs
    BY <1>2, CallStarts, OutsideMoves DEF Idle, LockedPCs, ConfirmedPCs
  <2>3. UNCHANGED verifyLock
    BY <1>2, CallStarts, OutsideMoves
  <2>4. QED
    BY <2>1, <2>2, <2>3, SameWork
<1>3. ASSUME NEW r \in Requests, InitiateWrite(r)
      PROVE  UNCHANGED Locks!vars
  <2>1. /\ \A q \in Requests : q # r => req'[q] = req[q]
        /\ req[r].pc \notin LockedPCs
        /\ req'[r].pc \notin LockedPCs
        /\ UNCHANGED verifyLock
    BY <1>3, ReturnJob DEF InitiateWrite, LockedPCs, ConfirmedPCs
  <2>2. QED
    BY <2>1, SameWork
<1>4. ASSUME NEW r \in Requests,
             \/ VerifyReread(r) \/ VerifyAsk(r) \/ VerifyOrder(r)
             \/ VerifyFail(r) \/ VerifyFlag(r) \/ VerifyCommit(r)
             \/ VerifyRollback(r) \/ Throw(r)
      PROVE  UNCHANGED Locks!vars
  <2>1. /\ req[r].pc \in LockedPCs
        /\ UNCHANGED verifyLock
        /\ \E pc \in LockedPCs : Goto(r, pc)
    BY <1>4 DEF VerifyReread, VerifyAsk, VerifyOrder, VerifyFail, VerifyFlag,
       VerifyCommit, VerifyRollback, Throw, LockedPCs, ConfirmedPCs
  <2>2. /\ \A q \in Requests : q # r => req'[q] = req[q]
        /\ req'[r].pc \in LockedPCs
        /\ req'[r].payment = req[r].payment
    BY <2>1, GotoJob DEF PCs
  <2>3. QED
    BY <2>1, <2>2, SameWork
<1>5. ASSUME NEW p \in Payments, LockExpires(p)
      PROVE  Locks!Next
  <2>1. Locks!Expire(p)
    BY <1>5 DEF LockExpires
  <2>2. QED
    BY <2>1 DEF Locks!Next
<1>6. CASE \/ \E s \in Sessions, state \in SessionStates : Capture(s, state)
           \/ UNCHANGED vars
  BY <1>6, SameWork DEF Capture, vars
<1>7. QED
  BY <1>1, <1>2, <1>3, <1>4, <1>5, <1>6 DEF Next, Step

\* Whether or not leases lapse, no request takes a held key, or frees a key
\* that another request acquired after a lapse.
THEOREM RefinesLock == Spec => ImplementsLock
  BY LockStart, LockStep, Inductive, PTL DEF Spec, Locks!Spec, ImplementsLock
=============================================================================
