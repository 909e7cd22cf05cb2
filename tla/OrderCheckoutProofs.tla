------------------------- MODULE OrderCheckoutProofs ------------------------
(***************************************************************************)
(* Safety of checkout for any number of orders, rows, sessions, gateways   *)
(* and requests.                                                           *)
(***************************************************************************)
EXTENDS OrderCheckout, TLAPS

(* A row belongs to an order and points at a session opened for that order.*)
RowsInv ==
    \A p \in Payments :
        IF payment[p].status = "ABSENT"
        THEN payment[p] = NoRow
        ELSE /\ payment[p].order \in Orders
             /\ payment[p].ref \in Sessions
             /\ session[payment[p].ref].order = payment[p].order

SessionsInv ==
    \A s \in Sessions :
        IF session[s].state = "unused" THEN session[s] = NoSession
                                       ELSE session[s].order \in Orders

OrderPCs == {"initiate_list", "initiate_open", "initiate_write",
             "cancel_write", "cancel_again", "status_write", "assign_create"}

(* What the local variables of a request hold at each await.               *)
JobInv(r) ==
    /\ req[r].pc \in OrderPCs => req[r].order \in Orders
    /\ req[r].pc \in {"status_write", "assign_create"}
       => req[r].target \in OrderStatuses
    /\ req[r].pc \in {"initiate_open", "initiate_write"} /\ req[r].payment # None
       => /\ payment[req[r].payment].status # "ABSENT"
          /\ payment[req[r].payment].order = req[r].order
    /\ req[r].pc = "initiate_write"
       => /\ req[r].session \in Sessions
          /\ session[req[r].session].state = "opened"
          /\ session[req[r].session].order = req[r].order
    /\ req[r].pc \in LockedPCs \cup {"verify_lock"}
       => /\ req[r].payment \in Payments
          /\ payment[req[r].payment].status # "ABSENT"
          /\ req[r].session \in Sessions
          /\ session[req[r].session].order = payment[req[r].payment].order
    /\ req[r].pc \in ConfirmedPCs => Captured(req[r].session)
    /\ req[r].pc = "verify_commit" => session[req[r].session].state = "paid"

(* A session that is opened and not yet offered has one request to offer it.*)
OpenersInv ==
    \A q, r \in Requests :
        /\ req[q].pc = "initiate_write"
        /\ req[r].pc = "initiate_write"
        /\ req[q].session = req[r].session
        => q = r

(* Confirmation and invoice come together, once, on captured money.        *)
BooksInv ==
    \A o \in Orders :
        /\ confirmations[o] = IF o \in invoiced THEN 1 ELSE 0
        /\ o \in invoiced => Funded(o, {"paid"})

IInv ==
    /\ TypeOK
    /\ RowsInv
    /\ SessionsInv
    /\ \A r \in Requests : JobInv(r)
    /\ OpenersInv
    /\ BooksInv
    /\ SuccessIsFunded
    /\ FlaggedHoldsMoney
    /\ OneSuccessPerOrder

-----------------------------------------------------------------------------
(* What every step of checkout leaves in place: a row keeps its order, and  *)
(* so does a session; captured money stays captured.                        *)
Kept ==
    /\ \A p \in Payments :
          payment[p].status # "ABSENT"
          => /\ payment'[p].status # "ABSENT"
             /\ payment'[p].order = payment[p].order
    /\ \A s \in Sessions :
          /\ session[s].state # "unused" => session'[s].order = session[s].order
          /\ Captured(s) => session'[s] = session[s]

\* A request that takes no part in a step may go on from where it stands: the
\* rows and the session that its local variables name are still what it read.
LEMMA JobKept ==
    ASSUME IInv, Kept, NEW q \in Requests, req'[q] = req[q],
           req[q].pc = "initiate_write"
           => session'[req[q].session] = session[req[q].session]
    PROVE  JobInv(q)'
<1>1. JobInv(q)
  BY DEF IInv
<1>2. req[q].pc \in LockedPCs \cup {"verify_lock"} \cup {"initiate_write"}
      => session[req[q].session].state # "unused"
  <2>1. CASE req[q].pc = "initiate_write"
    BY <2>1, <1>1 DEF JobInv
  <2>2. CASE req[q].pc \in LockedPCs \cup {"verify_lock"}
    <3>1. /\ req[q].session \in Sessions
          /\ req[q].payment \in Payments
          /\ payment[req[q].payment].status # "ABSENT"
          /\ session[req[q].session].order = payment[req[q].payment].order
      BY <2>2, <1>1 DEF JobInv
    <3>2. payment[req[q].payment].order \in Orders
      BY <3>1 DEF IInv, RowsInv
    <3>3. session[req[q].session].order # None
      BY <3>1, <3>2, NoneAssumption
    <3>4. QED
      BY <3>1, <3>3 DEF IInv, SessionsInv, NoSession
  <2>3. QED
    BY <2>1, <2>2
<1>3. req[q].payment \in Payments \cup {None}
  BY DEF IInv, TypeOK, Job
<1>4. QED
  BY <1>1, <1>2, <1>3 DEF JobInv, Kept, Captured, ConfirmedPCs, LockedPCs, OrderPCs

\* A step that only moves a request from one await to the next (or begins or
\* ends it) touches none of the books.
LEMMA ReadOnly ==
    ASSUME IInv, UNCHANGED <<payment, session, invoiced, confirmations>>
    PROVE  /\ Kept
           /\ RowsInv'
           /\ SessionsInv'
           /\ BooksInv'
           /\ SuccessIsFunded'
           /\ FlaggedHoldsMoney'
           /\ OneSuccessPerOrder'
BY DEF IInv, Kept, RowsInv, SessionsInv, BooksInv, SuccessIsFunded,
       FlaggedHoldsMoney, OneSuccessPerOrder, Funded, Captured

\* Money captured for an order stays: no step can leave it unfunded.
LEMMA FundsKept ==
    ASSUME Kept, NEW o, NEW states \in SUBSET {"paid", "mispaid"},
           Funded(o, states)
    PROVE  Funded(o, states)'
BY DEF Kept, Captured, Funded

\* Hence a step that writes neither rows nor books keeps what they promise.
LEMMA BooksKept ==
    ASSUME IInv, Kept, UNCHANGED <<payment, invoiced, confirmations>>
    PROVE  BooksInv' /\ SuccessIsFunded' /\ FlaggedHoldsMoney' /\ OneSuccessPerOrder'
<1>1. BooksInv'
  BY FundsKept DEF IInv, BooksInv
<1>2. SuccessIsFunded' /\ FlaggedHoldsMoney'
  BY FundsKept DEF IInv, SuccessIsFunded, FlaggedHoldsMoney
<1>3. OneSuccessPerOrder'
  BY DEF IInv, OneSuccessPerOrder
<1>4. QED
  BY <1>1, <1>2, <1>3

\* Goto changes the pc of one request and none of its other local variables.
LEMMA GotoJob ==
    ASSUME TypeOK, NEW r \in Requests, NEW pc \in PCs, Goto(r, pc)
    PROVE  /\ req' \in [Requests -> Job]
           /\ \A q \in Requests : q # r => req'[q] = req[q]
           /\ req'[r].pc = pc
           /\ req'[r].order = req[r].order
           /\ req'[r].payment = req[r].payment
           /\ req'[r].session = req[r].session
           /\ req'[r].gateway = req[r].gateway
           /\ req'[r].target = req[r].target
BY DEF Goto, Job, TypeOK

\* Return forgets the local variables of one request.
LEMMA ReturnJob ==
    ASSUME TypeOK, NEW r \in Requests, Return(r)
    PROVE  /\ req' \in [Requests -> Job]
           /\ \A q \in Requests : q # r => req'[q] = req[q]
           /\ req'[r].pc = "idle"
BY NoneAssumption DEF Return, Job, TypeOK, Idle, PCs

\* Begin starts one request, which was idle.
LEMMA BeginJob ==
    ASSUME TypeOK, NEW r \in Requests, NEW job \in Job, Begin(r, job)
    PROVE  /\ req' \in [Requests -> Job]
           /\ \A q \in Requests : q # r => req'[q] = req[q]
           /\ req'[r] = job
BY DEF Begin, TypeOK

\* A status update changes the status of the verified payment and nothing else.
LEMMA StatusSet ==
    ASSUME TypeOK, NEW r \in Requests, NEW status \in PaymentStatuses,
           req[r].payment \in Payments, SetPaymentStatus(r, status)
    PROVE  /\ payment' \in [Payments -> Row]
           /\ \A p \in Payments : p # req[r].payment => payment'[p] = payment[p]
           /\ payment'[req[r].payment].status = status
           /\ payment'[req[r].payment].order = payment[req[r].payment].order
           /\ payment'[req[r].payment].ref = payment[req[r].payment].ref
BY DEF SetPaymentStatus, TypeOK, Row

\* A handler step that writes neither rows nor sessions keeps the invariant,
\* if the request's new local variables are right where it now stands.
LEMMA MoveKeeps ==
    ASSUME IInv, TypeOK', NEW r \in Requests,
           \A q \in Requests : q # r => req'[q] = req[q],
           req'[r].pc # "initiate_write",
           UNCHANGED <<payment, session, invoiced, confirmations>>,
           JobInv(r)'
    PROVE  IInv'
<1>1. \A q \in Requests : JobInv(q)'
  BY ReadOnly, JobKept
<1>2. OpenersInv'
  BY DEF IInv, OpenersInv
<1>3. QED
  BY <1>1, <1>2, ReadOnly DEF IInv

\* Answering a request, in whatever way, keeps the invariant.
LEMMA ReturnKeeps ==
    ASSUME IInv, NEW r \in Requests, Return(r),
           UNCHANGED <<assigned, payment, session, invoiced, confirmations>>,
           order' \in [Orders -> OrderStatuses],
           verifyLock' \in [Payments -> SUBSET Requests]
    PROVE  IInv'
<1>1. TypeOK
  BY DEF IInv
<1>2. TypeOK'
  BY <1>1, ReturnJob DEF TypeOK
<1>3. JobInv(r)'
  BY <1>1, ReturnJob DEF JobInv, OrderPCs, LockedPCs, ConfirmedPCs
<1>4. QED
  BY <1>1, <1>2, <1>3, ReturnJob, MoveKeeps

\* So does going on with the same local variables, where they are right.
LEMMA GotoKeeps ==
    ASSUME IInv, NEW r \in Requests, NEW pc \in PCs \ {"initiate_write"},
           Goto(r, pc),
           UNCHANGED <<payment, session, invoiced, confirmations>>,
           order' \in [Orders -> OrderStatuses],
           assigned' \subseteq Orders,
           verifyLock' \in [Payments -> SUBSET Requests],
           JobInv(r)'
    PROVE  IInv'
<1>1. TypeOK
  BY DEF IInv
<1>2. TypeOK'
  BY <1>1, GotoJob DEF TypeOK
<1>3. QED
  BY <1>1, <1>2, GotoJob, MoveKeeps

-----------------------------------------------------------------------------
(* The initiating requests                                                 *)

LEMMA InitiateReadKeeps ==
    ASSUME IInv, NEW r \in Requests, NEW o \in Orders, NEW g \in Gateways,
           InitiateRead(r, o, g)
    PROVE  IInv'
<1> DEFINE job == [Idle EXCEPT !.pc = "initiate_list", !.order = o, !.gateway = g]
<1>1. /\ job \in Job
      /\ job.pc = "initiate_list"
      /\ job.order = o
  BY NoneAssumption DEF Job, Idle, PCs
<1>2. TypeOK /\ Begin(r, job)
  BY DEF InitiateRead, IInv
<1> HIDE DEF job
<1>3. /\ req' \in [Requests -> Job]
      /\ \A q \in Requests : q # r => req'[q] = req[q]
      /\ req'[r] = job
  BY <1>1, <1>2, BeginJob
<1>4. TypeOK' /\ JobInv(r)'
  BY <1>1, <1>2, <1>3 DEF InitiateRead, TypeOK, JobInv, OrderPCs, LockedPCs,
                          ConfirmedPCs
<1>5. QED
  BY <1>1, <1>3, <1>4, MoveKeeps DEF InitiateRead

LEMMA InitiateListKeeps ==
    ASSUME IInv, NEW r \in Requests, InitiateList(r)
    PROVE  IInv'
<1> TypeOK /\ JobInv(r)
  BY DEF IInv
<1>1. CASE Return(r)
  BY <1>1, ReturnKeeps DEF InitiateList, TypeOK
<1>2. ASSUME NEW p \in Payments \cup {None},
             p = None \/ p \in PaymentsOf(req[r].order, "PENDING"),
             req' = [req EXCEPT ![r].pc = "initiate_open", ![r].payment = p]
      PROVE  IInv'
  <2>1. /\ req' \in [Requests -> Job]
        /\ \A q \in Requests : q # r => req'[q] = req[q]
        /\ req'[r].pc = "initiate_open"
        /\ req'[r].order = req[r].order
        /\ req'[r].payment = p
    <3> DEFINE job == [req[r] EXCEPT !.pc = "initiate_open", !.payment = p]
    <3>1. req[r] \in Job
      BY DEF TypeOK
    <3>2. /\ job \in Job
          /\ job.pc = "initiate_open"
          /\ job.order = req[r].order
          /\ job.payment = p
      BY <3>1 DEF Job, PCs
    <3>3. req' = [req EXCEPT ![r] = job]
      BY <1>2
    <3> HIDE DEF job
    <3>4. QED
      BY <3>2, <3>3 DEF TypeOK
  <2>2. TypeOK'
    BY <2>1 DEF InitiateList, TypeOK
  <2>3. JobInv(r)'
    BY <1>2, <2>1 DEF InitiateList, JobInv, OrderPCs, LockedPCs, ConfirmedPCs,
                      PaymentsOf
  <2>4. QED
    BY <2>1, <2>2, <2>3, MoveKeeps DEF InitiateList
<1>3. QED
  BY <1>1, <1>2 DEF InitiateList, PaymentsOf

\* The fresh session is the request's own: no other one will offer it.
LEMMA InitiateOpenKeeps ==
    ASSUME IInv, NEW r \in Requests, InitiateOpen(r)
    PROVE  IInv'
<1> TypeOK /\ JobInv(r)
  BY DEF IInv
<1>1. CASE Return(r) /\ UNCHANGED session
  BY <1>1, ReturnKeeps DEF InitiateOpen, TypeOK
<1>2. ASSUME NEW s \in Sessions, session[s].state = "unused",
             session' = [session EXCEPT ![s] =
                [order |-> req[r].order, gateway |-> req[r].gateway,
                 state |-> "opened"]],
             req' = [req EXCEPT ![r].pc = "initiate_write", ![r].session = s]
      PROVE  IInv'
  <2>1. /\ req' \in [Requests -> Job]
        /\ \A q \in Requests : q # r => req'[q] = req[q]
        /\ req'[r].pc = "initiate_write"
        /\ req'[r].order = req[r].order
        /\ req'[r].payment = req[r].payment
        /\ req'[r].session = s
    BY <1>2 DEF TypeOK, Job, PCs
  <2>2. req[r].order \in Orders
    BY DEF InitiateOpen, JobInv, OrderPCs
  <2>3. /\ session' \in [Sessions -> CheckoutSession]
        /\ \A t \in Sessions : t # s => session'[t] = session[t]
        /\ session'[s].order = req[r].order
        /\ session'[s].state = "opened"
    BY <1>2, <2>2 DEF TypeOK, CheckoutSession, SessionStates, Job
  <2>4. TypeOK'
    BY <2>1, <2>3 DEF InitiateOpen, TypeOK
  <2>5. session[s].order = None
    BY <1>2 DEF IInv, SessionsInv, NoSession
  <2>6. Kept
    BY <1>2, <2>3 DEF Kept, InitiateOpen, Captured
  <2>7. RowsInv'
    BY <2>3, <2>5, NoneAssumption DEF InitiateOpen, IInv, RowsInv
  <2>8. SessionsInv'
    BY <2>2, <2>3 DEF IInv, SessionsInv
  <2>9. ASSUME NEW q \in Requests
        PROVE  JobInv(q)'
    <3>1. CASE q = r
      BY <2>1, <2>2, <2>3, <3>1 DEF InitiateOpen, JobInv, OrderPCs, LockedPCs,
                                    ConfirmedPCs
    <3>2. CASE q # r
      <4>1. req[q].pc = "initiate_write" => req[q].session \in Sessions \ {s}
        BY <1>2 DEF IInv, JobInv
      <4>2. QED
        BY <2>1, <2>3, <2>6, <3>2, <4>1, JobKept
    <3>3. QED
      BY <3>1, <3>2
  <2>10. OpenersInv'
    <3>1. \A q \in Requests :
             req[q].pc = "initiate_write" => req[q].session # s
      BY <1>2 DEF IInv, JobInv
    <3>2. QED
      BY <2>1, <3>1 DEF IInv, OpenersInv
  <2>11. BooksInv' /\ SuccessIsFunded' /\ FlaggedHoldsMoney' /\ OneSuccessPerOrder'
    BY <2>6, BooksKept DEF InitiateOpen
  <2>12. QED
    BY <2>4, <2>7, <2>8, <2>9, <2>10, <2>11 DEF IInv
<1>3. QED
  BY <1>1, <1>2 DEF InitiateOpen

\* Pointing a row at a fresh session: the session was opened for that order,
\* and a row that is reused belongs to it too.
LEMMA InitiateWriteKeeps ==
    ASSUME IInv, NEW r \in Requests, InitiateWrite(r)
    PROVE  IInv'
<1> DEFINE s == req[r].session
<1> TypeOK /\ JobInv(r)
  BY DEF IInv
<1>1. CASE UNCHANGED <<payment, session>>
  BY <1>1, ReturnKeeps DEF InitiateWrite, TypeOK
<1>2. ASSUME session' = [session EXCEPT ![s].state = "offered"],
             NEW p \in Payments,
             \/ /\ req[r].payment = p
                /\ payment' = [payment EXCEPT ![p].ref = s]
             \/ /\ payment[p].status = "ABSENT"
                /\ payment' = [payment EXCEPT ![p] =
                      [order |-> req[r].order, status |-> "PENDING", ref |-> s]]
      PROVE  IInv'
  <2>1. /\ req' \in [Requests -> Job]
        /\ \A q \in Requests : q # r => req'[q] = req[q]
        /\ req'[r].pc = "idle"
    BY ReturnJob DEF InitiateWrite
  <2>2. /\ req[r].order \in Orders
        /\ s \in Sessions
        /\ session[s].order = req[r].order
        /\ session[s].state = "opened"
        /\ s # None
    BY NoneAssumption DEF InitiateWrite, JobInv, OrderPCs
  <2>3. /\ session' \in [Sessions -> CheckoutSession]
        /\ \A t \in Sessions : t # s => session'[t] = session[t]
        /\ session'[s].order = session[s].order
        /\ session'[s].state = "offered"
    BY <1>2, <2>2 DEF TypeOK, CheckoutSession, SessionStates
  <2>4. req[r].payment = p
        => payment[p].status # "ABSENT" /\ payment[p].order = req[r].order
    BY NoneAssumption DEF InitiateWrite, JobInv
  <2>5. /\ payment' \in [Payments -> Row]
        /\ \A q \in Payments : q # p => payment'[q] = payment[q]
        /\ payment'[p].order = req[r].order
        /\ payment'[p].ref = s
        /\ payment'[p].status \in {"PENDING", payment[p].status} \ {"ABSENT"}
    <3>1. CASE req[r].payment = p /\ payment' = [payment EXCEPT ![p].ref = s]
      BY <2>2, <2>4, <3>1 DEF TypeOK, Row
    <3>2. CASE payment' = [payment EXCEPT ![p] =
                  [order |-> req[r].order, status |-> "PENDING", ref |-> s]]
      BY <2>2, <3>2 DEF TypeOK, Row, PaymentStatuses
    <3>3. QED
      BY <1>2, <3>1, <3>2
  <2>6. payment[p].status # "ABSENT" => payment[p].order = req[r].order
    BY <1>2, <2>4
  <2> HIDE DEF s
  <2>7. TypeOK'
    BY <2>1, <2>3, <2>5 DEF InitiateWrite, TypeOK
  <2>8. Kept
    BY <2>2, <2>3, <2>5, <2>6 DEF Kept, Captured
  <2>9. RowsInv'
    <3>1. ASSUME NEW q \in Payments
          PROVE  IF payment'[q].status = "ABSENT"
                 THEN payment'[q] = NoRow
                 ELSE /\ payment'[q].order \in Orders
                      /\ payment'[q].ref \in Sessions
                      /\ session'[payment'[q].ref].order = payment'[q].order
      <4>1. CASE q = p
        BY <2>2, <2>3, <2>5, <4>1
      <4>2. CASE q # p
        BY <2>3, <2>5, <4>2 DEF IInv, RowsInv
      <4>3. QED
        BY <4>1, <4>2
    <3>2. QED
      BY <3>1 DEF RowsInv
  <2>10. SessionsInv'
    BY <2>2, <2>3 DEF IInv, SessionsInv
  <2>11. ASSUME NEW q \in Requests
         PROVE  JobInv(q)'
    <3>1. CASE q = r
      BY <2>1, <3>1 DEF JobInv, OrderPCs, LockedPCs, ConfirmedPCs
    <3>2. CASE q # r
      <4>1. req[q].pc = "initiate_write" => req[q].session \in Sessions \ {s}
        BY <3>2 DEF IInv, JobInv, OpenersInv, InitiateWrite, s
      <4>2. QED
        BY <2>1, <2>3, <2>8, <3>2, <4>1, JobKept
    <3>3. QED
      BY <3>1, <3>2
  <2>12. OpenersInv'
    BY <2>1 DEF IInv, OpenersInv
  <2>13. BooksInv'
    BY <2>8, FundsKept DEF IInv, BooksInv, InitiateWrite
  <2>14. \A q \in Payments :
            payment'[q].status \in {"SUCCESS", "FLAGGED"}
            => payment'[q].status = payment[q].status
               /\ payment'[q].order = payment[q].order
    BY <2>5, <2>6
  <2>15. SuccessIsFunded' /\ FlaggedHoldsMoney'
    BY <2>8, <2>14, FundsKept DEF IInv, SuccessIsFunded, FlaggedHoldsMoney
  <2>16. OneSuccessPerOrder'
    BY <2>14 DEF IInv, OneSuccessPerOrder
  <2>17. QED
    BY <2>7, <2>9, <2>10, <2>11, <2>12, <2>13, <2>15, <2>16 DEF IInv
<1>3. req[r].payment # None => req[r].payment \in Payments
  BY DEF TypeOK, Job
<1>4. QED
  BY <1>1, <1>2, <1>3 DEF InitiateWrite

\* The customer pays a session that no request is still about to offer.
LEMMA CaptureKeeps ==
    ASSUME IInv, NEW s \in Sessions, NEW state, Capture(s, state)
    PROVE  IInv'
<1> TypeOK
  BY DEF IInv
<1>1. /\ session' \in [Sessions -> CheckoutSession]
      /\ \A t \in Sessions : t # s => session'[t] = session[t]
      /\ session'[s].order = session[s].order
      /\ session'[s].state \in {"paid", "mispaid"}
  BY DEF Capture, TypeOK, CheckoutSession, SessionStates
<1>2. TypeOK'
  BY <1>1 DEF Capture, TypeOK
<1>3. Kept
  BY <1>1 DEF Kept, Capture, Captured
<1>4. RowsInv'
  BY <1>1 DEF Capture, IInv, RowsInv
<1>5. SessionsInv'
  BY <1>1 DEF Capture, IInv, SessionsInv
<1>6. ASSUME NEW q \in Requests
      PROVE  JobInv(q)'
  <2>1. req[q].pc = "initiate_write" => req[q].session \in Sessions \ {s}
    BY DEF IInv, JobInv, Capture
  <2>2. QED
    BY <1>1, <1>3, <2>1, JobKept DEF Capture
<1>7. OpenersInv'
  BY DEF Capture, IInv, OpenersInv
<1>8. BooksInv' /\ SuccessIsFunded' /\ FlaggedHoldsMoney' /\ OneSuccessPerOrder'
  BY <1>3, BooksKept DEF Capture
<1>9. QED
  BY <1>2, <1>4, <1>5, <1>6, <1>7, <1>8 DEF IInv

-----------------------------------------------------------------------------
(* The verifying requests                                                  *)

LEMMA VerifyFindKeeps ==
    ASSUME IInv, NEW r \in Requests, NEW s \in Sessions, NEW g \in Gateways,
           VerifyFind(r, s, g)
    PROVE  IInv'
<1> TypeOK
  BY DEF IInv
<1>1. PICK p \in Payments :
         /\ payment[p].ref = s
         /\ payment[p].status # "SUCCESS"
         /\ Begin(r, [Idle EXCEPT !.pc = "verify_lock", !.payment = p,
                                  !.session = s, !.gateway = g])
  BY DEF VerifyFind
<1> DEFINE job == [Idle EXCEPT !.pc = "verify_lock", !.payment = p,
                               !.session = s, !.gateway = g]
<1>2. /\ job \in Job
      /\ job.pc = "verify_lock"
      /\ job.payment = p
      /\ job.session = s
  BY NoneAssumption DEF Job, Idle, PCs
<1>3. Begin(r, job)
  BY <1>1
<1> HIDE DEF job
<1>4. /\ req' \in [Requests -> Job]
      /\ \A q \in Requests : q # r => req'[q] = req[q]
      /\ req'[r] = job
  BY <1>2, <1>3, BeginJob
<1>5. TypeOK'
  BY <1>4 DEF VerifyFind, TypeOK
<1>6. /\ payment[p].status # "ABSENT"
      /\ session[s].order = payment[p].order
  BY <1>1, NoneAssumption DEF IInv, RowsInv, NoRow
<1>7. JobInv(r)'
  BY <1>2, <1>4, <1>6 DEF VerifyFind, JobInv, OrderPCs, LockedPCs, ConfirmedPCs
<1>8. QED
  BY <1>2, <1>4, <1>5, <1>7, MoveKeeps DEF VerifyFind

\* Taking the lock, re-reading, asking the gateway, reading the order, and
\* every way to give up: what was known of the session still holds after.
LEMMA VerifyMoveKeeps ==
    ASSUME IInv, NEW r \in Requests,
           \/ VerifyLock(r) \/ VerifyReread(r) \/ VerifyAsk(r)
           \/ VerifyOrder(r) \/ VerifyRollback(r) \/ Throw(r)
    PROVE  IInv'
<1> TypeOK /\ JobInv(r)
  BY DEF IInv
<1> DEFINE Leads(pc) ==
      /\ Goto(r, pc)
      /\ pc \in LockedPCs
      /\ req[r].pc \in LockedPCs \cup {"verify_lock"}
      /\ pc \in ConfirmedPCs => Captured(req[r].session)
      /\ pc = "verify_commit" => session[req[r].session].state = "paid"
      /\ UNCHANGED <<order, assigned, payment, session, invoiced, confirmations>>
      /\ verifyLock' \in [Payments -> SUBSET Requests]
<1>1. ASSUME NEW pc, Leads(pc)
      PROVE  IInv'
  <2>1. pc \in PCs \ {"initiate_write"}
    BY <1>1 DEF PCs, LockedPCs, ConfirmedPCs
  <2>2. JobInv(r)'
    BY <1>1, <2>1, GotoJob DEF JobInv, OrderPCs, LockedPCs, ConfirmedPCs, Captured
  <2>3. QED
    BY <1>1, <2>1, <2>2, GotoKeeps DEF TypeOK
<1>2. CASE VerifyLock(r)
  BY <1>1, <1>2 DEF VerifyLock, Locks!SetNX, TypeOK, LockedPCs, ConfirmedPCs
<1>3. CASE VerifyReread(r)
  BY <1>1, <1>3 DEF VerifyReread, TypeOK, LockedPCs, ConfirmedPCs
<1>4. CASE VerifyAsk(r)
  BY <1>1, <1>4 DEF VerifyAsk, Confirms, TypeOK, LockedPCs, ConfirmedPCs
<1>5. CASE VerifyOrder(r)
  BY <1>1, <1>5 DEF VerifyOrder, JobInv, TypeOK, LockedPCs, ConfirmedPCs
<1>6. CASE VerifyRollback(r) \/ Throw(r)
  BY <1>1, <1>6 DEF VerifyRollback, Throw, TypeOK, LockedPCs, ConfirmedPCs
<1>7. QED
  BY <1>2, <1>3, <1>4, <1>5, <1>6

LEMMA VerifyEndKeeps ==
    ASSUME IInv, NEW r \in Requests,
           VerifyConflict(r) \/ VerifyRelease(r) \/ Die(r)
    PROVE  IInv'
<1> TypeOK
  BY DEF IInv
<1>1. verifyLock' \in [Payments -> SUBSET Requests]
  BY DEF VerifyConflict, VerifyRelease, Die, Locks!DelIfOwner, TypeOK
<1>2. QED
  BY <1>1, ReturnKeeps DEF VerifyConflict, VerifyRelease, Die, TypeOK

\* What a status update of a verified payment leaves to be shown: that the
\* new status is backed by money and by the constraints of the database.
LEMMA StatusKeeps ==
    ASSUME IInv, NEW r \in Requests, req[r].pc \in LockedPCs,
           NEW status \in {"SUCCESS", "FAILED", "FLAGGED"},
           SetPaymentStatus(r, status), Goto(r, "verify_release"),
           UNCHANGED <<assigned, session, verifyLock>>,
           order' \in [Orders -> OrderStatuses],
           invoiced' \subseteq Orders,
           confirmations' \in [Orders -> Nat],
           status = "SUCCESS"
           => /\ Funded(payment[req[r].payment].order, {"paid"})
              /\ PaymentsOf(payment[req[r].payment].order, "SUCCESS")
                 \subseteq {req[r].payment},
           status = "FLAGGED"
           => Funded(payment[req[r].payment].order, {"paid", "mispaid"}),
           BooksInv'
    PROVE  IInv'
<1> DEFINE p == req[r].payment
<1> TypeOK /\ JobInv(r)
  BY DEF IInv
<1>1. /\ p \in Payments
      /\ payment[p].status # "ABSENT"
      /\ status \in PaymentStatuses
  BY DEF JobInv, PaymentStatuses
<1>2. /\ payment' \in [Payments -> Row]
      /\ \A q \in Payments : q # p => payment'[q] = payment[q]
      /\ payment'[p].status = status
      /\ payment'[p].order = payment[p].order
      /\ payment'[p].ref = payment[p].ref
  BY <1>1, StatusSet
<1>3. /\ req' \in [Requests -> Job]
      /\ \A q \in Requests : q # r => req'[q] = req[q]
      /\ req'[r].pc = "verify_release"
      /\ req'[r].payment = p
      /\ req'[r].session = req[r].session
  BY GotoJob DEF PCs, LockedPCs
<1> HIDE DEF p
<1>4. TypeOK'
  BY <1>2, <1>3 DEF TypeOK
<1>5. Kept
  BY <1>1, <1>2 DEF Kept
<1>6. RowsInv' /\ SessionsInv'
  BY <1>1, <1>2 DEF IInv, RowsInv, SessionsInv
<1>7. ASSUME NEW q \in Requests
      PROVE  JobInv(q)'
  <2>1. CASE q = r
    BY <1>1, <1>2, <1>3, <2>1 DEF JobInv, OrderPCs, LockedPCs, ConfirmedPCs, p
  <2>2. CASE q # r
    BY <1>3, <1>5, <2>2, JobKept
  <2>3. QED
    BY <2>1, <2>2
<1>8. OpenersInv'
  BY <1>3 DEF IInv, OpenersInv
<1>9. SuccessIsFunded' /\ FlaggedHoldsMoney'
  <2>1. \A o : (Funded(o, {"paid"}) => Funded(o, {"paid"})')
           /\ (Funded(o, {"paid", "mispaid"}) => Funded(o, {"paid", "mispaid"})')
    BY <1>5, FundsKept
  <2>2. SuccessIsFunded'
    BY <1>2, <2>1 DEF IInv, SuccessIsFunded, p
  <2>3. FlaggedHoldsMoney'
    BY <1>2, <2>1 DEF IInv, FlaggedHoldsMoney, p
  <2>4. QED
    BY <2>2, <2>3
<1>10. OneSuccessPerOrder'
  <2>1. status = "SUCCESS"
        => \A q \in Payments :
              payment[q].status = "SUCCESS" /\ payment[q].order = payment[p].order
              => q = p
    BY DEF PaymentsOf, p
  <2>2. QED
    BY <1>1, <1>2, <2>1 DEF IInv, OneSuccessPerOrder
<1>11. QED
  BY <1>4, <1>6, <1>7, <1>8, <1>9, <1>10 DEF IInv

LEMMA VerifyFailKeeps ==
    ASSUME IInv, NEW r \in Requests, VerifyFail(r)
    PROVE  IInv'
<1> req[r].pc \in LockedPCs
  BY DEF VerifyFail, LockedPCs
<1>1. BooksInv'
  BY DEF VerifyFail, IInv, BooksInv, Funded
<1>2. QED
  BY <1>1, StatusKeeps DEF VerifyFail, IInv, TypeOK

LEMMA VerifyFlagKeeps ==
    ASSUME IInv, NEW r \in Requests, VerifyFlag(r)
    PROVE  IInv'
<1> req[r].pc \in LockedPCs /\ req[r].pc \in ConfirmedPCs
  BY DEF VerifyFlag, LockedPCs, ConfirmedPCs
<1>1. Funded(payment[req[r].payment].order, {"paid", "mispaid"})
  BY DEF IInv, JobInv, Captured, Funded
<1>2. BooksInv'
  BY DEF VerifyFlag, IInv, BooksInv, Funded
<1>3. QED
  BY <1>1, <1>2, StatusKeeps DEF VerifyFlag, IInv, TypeOK

\* The transaction: the invoice index keeps the order from being confirmed
\* twice, and the SUCCESS index from having two successful payments.
LEMMA VerifyCommitKeeps ==
    ASSUME IInv, NEW r \in Requests, VerifyCommit(r)
    PROVE  IInv'
<1> DEFINE o == payment[req[r].payment].order
<1> TypeOK /\ JobInv(r)
  BY DEF IInv
<1>1. /\ req[r].pc \in LockedPCs
      /\ req[r].payment \in Payments
      /\ payment[req[r].payment].status # "ABSENT"
      /\ req[r].session \in Sessions
      /\ session[req[r].session].order = o
      /\ session[req[r].session].state = "paid"
  BY DEF VerifyCommit, JobInv, LockedPCs, ConfirmedPCs
<1>2. o \in Orders
  BY <1>1 DEF IInv, RowsInv
<1>3. Funded(o, {"paid"})
  BY <1>1 DEF Funded
<1>4. /\ order' = [order EXCEPT ![o] = "PAID"]
      /\ invoiced' = invoiced \cup {o}
      /\ confirmations' = [confirmations EXCEPT ![o] = @ + 1]
      /\ o \notin invoiced
      /\ PaymentsOf(o, "SUCCESS") \subseteq {req[r].payment}
      /\ SetPaymentStatus(r, "SUCCESS")
      /\ Goto(r, "verify_release")
      /\ UNCHANGED <<assigned, session, verifyLock>>
  BY DEF VerifyCommit, ConstraintsAllow
<1> HIDE DEF o
<1>5. /\ order' \in [Orders -> OrderStatuses]
      /\ invoiced' \subseteq Orders
      /\ confirmations' \in [Orders -> Nat]
  BY <1>2, <1>4 DEF TypeOK, OrderStatuses
<1>6. BooksInv'
  <2> SUFFICES ASSUME NEW b \in Orders
               PROVE  /\ confirmations'[b] = IF b \in invoiced' THEN 1 ELSE 0
                      /\ b \in invoiced' => Funded(b, {"paid"})'
    BY DEF BooksInv
  <2>1. confirmations[b] = IF b \in invoiced THEN 1 ELSE 0
    BY DEF IInv, BooksInv
  <2>2. b \in invoiced' => Funded(b, {"paid"})'
    BY <1>3, <1>4 DEF IInv, BooksInv, Funded
  <2>3. confirmations'[b] = IF b \in invoiced' THEN 1 ELSE 0
    BY <1>4, <2>1 DEF TypeOK
  <2>4. QED
    BY <2>2, <2>3
<1>7. QED
  BY <1>1, <1>3, <1>4, <1>5, <1>6, StatusKeeps DEF o

-----------------------------------------------------------------------------
(* The other writers of an order's status, and Redis                       *)

LEMMA OrderReadKeeps ==
    ASSUME IInv, NEW r \in Requests, NEW o \in Orders,
           \/ CancelRead(r, o) \/ AssignRead(r, o) \/ ReportRead(r, o)
           \/ \E to \in StaffTargets : StatusRead(r, o, to)
    PROVE  IInv'
<1> TypeOK
  BY DEF IInv
<1>1. ASSUME NEW job \in Job, Begin(r, job), job.order = o,
             job.pc \in {"cancel_write", "assign_create", "status_write"},
             job.pc # "cancel_write" => job.target \in OrderStatuses,
             UNCHANGED <<order, assigned, payment, session, invoiced,
                         confirmations, verifyLock>>
      PROVE  IInv'
  <2>1. /\ req' \in [Requests -> Job]
        /\ \A q \in Requests : q # r => req'[q] = req[q]
        /\ req'[r] = job
    BY <1>1, BeginJob
  <2>2. TypeOK'
    BY <1>1, <2>1 DEF TypeOK
  <2>3. JobInv(r)'
    BY <1>1, <2>1 DEF JobInv, OrderPCs, LockedPCs, ConfirmedPCs
  <2>4. QED
    BY <1>1, <2>1, <2>2, <2>3, MoveKeeps
<1>2. CASE CancelRead(r, o)
  <2> DEFINE job == [Idle EXCEPT !.pc = "cancel_write", !.order = o]
  <2>1. job \in Job /\ job.pc = "cancel_write" /\ job.order = o
    BY NoneAssumption DEF Job, Idle, PCs
  <2>2. QED
    BY <1>1, <1>2, <2>1 DEF CancelRead
<1>3. ASSUME NEW pc \in {"status_write", "assign_create"},
             NEW to \in OrderStatuses,
             Begin(r, [Idle EXCEPT !.pc = pc, !.order = o, !.target = to]),
             UNCHANGED <<order, assigned, payment, session, invoiced,
                         confirmations, verifyLock>>
      PROVE  IInv'
  <2> DEFINE job == [Idle EXCEPT !.pc = pc, !.order = o, !.target = to]
  <2>1. job \in Job /\ job.pc = pc /\ job.order = o /\ job.target = to
    BY NoneAssumption DEF Job, Idle, PCs
  <2>2. Begin(r, job)
    BY <1>3
  <2> HIDE DEF job
  <2>3. QED
    BY <1>1, <1>3, <2>1, <2>2
<1>4. ASSUME NEW to \in StaffTargets, StatusRead(r, o, to)
      PROVE  IInv'
  BY <1>3, <1>4, StaffTargetsAssumption DEF StatusRead
<1>5. CASE AssignRead(r, o) \/ ReportRead(r, o)
  BY <1>3, <1>5 DEF AssignRead, ReportRead, OrderStatuses
<1>6. QED
  BY <1>2, <1>4, <1>5

LEMMA OrderWriteKeeps ==
    ASSUME IInv, NEW r \in Requests,
           CancelWrite(r) \/ StatusWrite(r) \/ AssignCreate(r)
    PROVE  IInv'
<1> TypeOK /\ JobInv(r)
  BY DEF IInv
<1>1. /\ order' \in [Orders -> OrderStatuses]
      /\ assigned' \subseteq Orders
      /\ UNCHANGED <<payment, session, invoiced, confirmations, verifyLock>>
  BY DEF CancelWrite, StatusWrite, AssignCreate, JobInv, OrderPCs, OrderStatuses,
         TypeOK
<1>2. ASSUME NEW pc \in {"cancel_again", "status_write"}, Goto(r, pc),
             req[r].pc \in {"cancel_write", "assign_create"},
             pc = "status_write" => req[r].pc = "assign_create"
      PROVE  IInv'
  <2>1. pc \in PCs \ {"initiate_write"}
    BY DEF PCs
  <2>2. JobInv(r)'
    BY <1>2, <2>1, GotoJob DEF JobInv, OrderPCs, LockedPCs, ConfirmedPCs
  <2>3. QED
    BY <1>1, <1>2, <2>1, <2>2, GotoKeeps DEF TypeOK
<1>3. CASE Return(r)
  <2>1. TypeOK' /\ JobInv(r)'
    BY <1>1, <1>3, ReturnJob DEF TypeOK, JobInv, OrderPCs, LockedPCs, ConfirmedPCs
  <2>2. QED
    BY <1>1, <1>3, <2>1, ReturnJob, MoveKeeps
<1>4. QED
  BY <1>2, <1>3 DEF CancelWrite, StatusWrite, AssignCreate

LEMMA LockExpiresKeeps ==
    ASSUME IInv, NEW p \in Payments, LockExpires(p)
    PROVE  IInv'
<1>1. UNCHANGED <<order, assigned, payment, session, invoiced, confirmations, req>>
  BY DEF LockExpires
<1>2. TypeOK'
  BY DEF LockExpires, Locks!Expire, IInv, TypeOK
<1>3. \A q \in Requests : JobInv(q)'
  BY <1>1, ReadOnly, JobKept
<1>4. OpenersInv'
  BY <1>1 DEF IInv, OpenersInv
<1>5. QED
  BY <1>1, <1>2, <1>3, <1>4, ReadOnly DEF IInv

-----------------------------------------------------------------------------
LEMMA InitIInv == Init => IInv
<1> SUFFICES ASSUME Init PROVE IInv
  OBVIOUS
<1>1. TypeOK
  BY NoneAssumption DEF Init, TypeOK, OrderStatuses, Row, NoRow, PaymentStatuses,
     CheckoutSession, NoSession, SessionStates, Job, Idle, PCs
<1>2. \A r \in Requests : req[r].pc = "idle"
  BY DEF Init, Idle
<1>3. (\A r \in Requests : JobInv(r)) /\ OpenersInv
  BY <1>2 DEF JobInv, OrderPCs, LockedPCs, ConfirmedPCs, OpenersInv
<1>4. RowsInv /\ SessionsInv /\ BooksInv
  BY DEF Init, RowsInv, NoRow, SessionsInv, NoSession, BooksInv
<1>5. SuccessIsFunded /\ FlaggedHoldsMoney /\ OneSuccessPerOrder
  BY DEF Init, NoRow, SuccessIsFunded, FlaggedHoldsMoney, OneSuccessPerOrder
<1>6. QED
  BY <1>1, <1>3, <1>4, <1>5 DEF IInv

LEMMA NextIInv == IInv /\ [Next]_vars => IInv'
<1> SUFFICES ASSUME IInv, [Next]_vars PROVE IInv'
  OBVIOUS
<1>1. ASSUME NEW r \in Requests, Call(r)
      PROVE  IInv'
  BY <1>1, InitiateReadKeeps, OrderReadKeeps, VerifyFindKeeps DEF Call
<1>2. ASSUME NEW r \in Requests, Step(r) \/ Throw(r) \/ Die(r)
      PROVE  IInv'
  BY <1>2, InitiateListKeeps, InitiateOpenKeeps, InitiateWriteKeeps,
     VerifyMoveKeeps, VerifyEndKeeps, VerifyFailKeeps, VerifyFlagKeeps,
     VerifyCommitKeeps, OrderWriteKeeps DEF Step
<1>3. ASSUME NEW s \in Sessions, NEW state \in SessionStates, Capture(s, state)
      PROVE  IInv'
  BY <1>3, CaptureKeeps
<1>4. ASSUME NEW p \in Payments, LockExpires(p)
      PROVE  IInv'
  BY <1>4, LockExpiresKeeps
<1>5. CASE UNCHANGED vars
  <2>1. UNCHANGED <<order, assigned, payment, session, invoiced, confirmations,
                    verifyLock, req>>
    BY <1>5 DEF vars
  <2>2. TypeOK' /\ OpenersInv'
    BY <2>1 DEF IInv, TypeOK, OpenersInv
  <2>3. \A q \in Requests : JobInv(q)'
    BY <2>1, ReadOnly, JobKept
  <2>4. QED
    BY <2>1, <2>2, <2>3, ReadOnly DEF IInv
<1>6. QED
  BY <1>1, <1>2, <1>3, <1>4, <1>5 DEF Next

LEMMA Inductive == Spec => []IInv
  BY InitIInv, NextIInv, PTL DEF Spec

\* Every variable keeps its shape in every behavior of checkout.
THEOREM CheckoutTyped == Spec => []TypeOK
<1>1. IInv => TypeOK
  BY DEF IInv
<1>2. QED
  BY <1>1, Inductive, PTL

\* For any number of concurrent requests and lapsed locks, no order ever has
\* two SUCCESS payments.
THEOREM OneSuccess == Spec => []OneSuccessPerOrder
<1>1. IInv => OneSuccessPerOrder
  BY DEF IInv
<1>2. QED
  BY <1>1, Inductive, PTL

\* A SUCCESS payment stands for the order's price, captured for that order.
THEOREM MoneyIsHeld == Spec => []SuccessIsFunded
<1>1. IInv => SuccessIsFunded
  BY DEF IInv
<1>2. QED
  BY <1>1, Inductive, PTL

\* A FLAGGED payment, which an administrator will look at, stands for money
\* that a gateway holds.
THEOREM FlaggedIsHeld == Spec => []FlaggedHoldsMoney
<1>1. IInv => FlaggedHoldsMoney
  BY DEF IInv
<1>2. QED
  BY <1>1, Inductive, PTL

-----------------------------------------------------------------------------
(* Refinement: what the ledger sees of a checkout step                     *)

FundedOrders == {o \in Orders : Funded(o, {"paid"})}

\* A capture funds the order of its session, or, with a wrong amount, none.
LEMMA CaptureFunds ==
    ASSUME IInv, NEW s \in Sessions, NEW state, Capture(s, state)
    PROVE  Ledger!Next \/ UNCHANGED Ledger!vars
<1> DEFINE o == session[s].order
<1> TypeOK
  BY DEF IInv
<1>1. o \in Orders
  BY DEF IInv, SessionsInv, Capture
<1>2. /\ session' \in [Sessions -> CheckoutSession]
      /\ \A t \in Sessions : t # s => session'[t] = session[t]
      /\ session'[s].order = o
      /\ session'[s].state = state
      /\ session[s].state = "offered"
  BY DEF Capture, TypeOK, CheckoutSession, SessionStates
<1>3. UNCHANGED <<confirmations, invoiced>>
  BY DEF Capture
<1> HIDE DEF o
<1>4. CASE state = "paid"
  <2>1. \A b \in Orders : Funded(b, {"paid"})' <=> Funded(b, {"paid"}) \/ b = o
    BY <1>2, <1>4 DEF Funded
  <2>2. FundedOrders' = FundedOrders \cup {o}
    BY <1>1, <2>1 DEF FundedOrders
  <2>3. Ledger!Fund(o)
    BY <1>3, <2>2 DEF Ledger!Fund, FundedOrders
  <2>4. QED
    BY <1>1, <2>3 DEF Ledger!Next
<1>5. CASE state # "paid"
  <2>1. \A b \in Orders : Funded(b, {"paid"})' <=> Funded(b, {"paid"})
    BY <1>2, <1>5 DEF Funded
  <2>2. FundedOrders' = FundedOrders
    BY <2>1 DEF FundedOrders
  <2>3. QED
    BY <1>3, <2>2 DEF Ledger!vars, FundedOrders
<1>6. QED
  BY <1>4, <1>5

\* The commit of a verification settles its order.
LEMMA CommitSettles ==
    ASSUME IInv, NEW r \in Requests, VerifyCommit(r)
    PROVE  Ledger!Next
<1> DEFINE o == payment[req[r].payment].order
<1> TypeOK /\ JobInv(r)
  BY DEF IInv
<1>1. /\ req[r].payment \in Payments
      /\ payment[req[r].payment].status # "ABSENT"
      /\ req[r].session \in Sessions
      /\ session[req[r].session].order = o
      /\ session[req[r].session].state = "paid"
  BY DEF VerifyCommit, JobInv, LockedPCs, ConfirmedPCs
<1>2. o \in Orders
  BY <1>1 DEF IInv, RowsInv
<1>3. o \in FundedOrders
  BY <1>1, <1>2 DEF Funded, FundedOrders
<1>4. /\ invoiced' = invoiced \cup {o}
      /\ confirmations' = [confirmations EXCEPT ![o] = @ + 1]
      /\ o \notin invoiced
      /\ UNCHANGED session
  BY DEF VerifyCommit, ConstraintsAllow
<1> HIDE DEF o
<1>5. confirmations[o] = 0
  BY <1>2, <1>4 DEF IInv, BooksInv
<1>6. confirmations' = [confirmations EXCEPT ![o] = 1]
  BY <1>2, <1>4, <1>5 DEF TypeOK
<1>7. FundedOrders' = FundedOrders
  BY <1>4 DEF FundedOrders, Funded
<1>8. Ledger!Settle(o)
  BY <1>3, <1>4, <1>5, <1>6, <1>7 DEF Ledger!Settle, FundedOrders
<1>9. QED
  BY <1>2, <1>8 DEF Ledger!Next

\* Opening and offering a session funds nothing yet.
LEMMA OpeningFundsNothing ==
    ASSUME IInv, NEW r \in Requests, InitiateOpen(r) \/ InitiateWrite(r)
    PROVE  UNCHANGED Ledger!vars
<1> TypeOK /\ JobInv(r)
  BY DEF IInv
<1>1. \A s \in Sessions : session'[s].state = "paid" <=> session[s].state = "paid"
  <2>1. CASE InitiateOpen(r)
    BY <2>1 DEF InitiateOpen, TypeOK
  <2>2. CASE InitiateWrite(r)
    BY <2>2 DEF InitiateWrite, JobInv, TypeOK, CheckoutSession
  <2>3. QED
    BY <2>1, <2>2
<1>2. \A s \in Sessions : session[s].state = "paid" => session'[s].order = session[s].order
  <2>1. CASE InitiateOpen(r)
    BY <2>1 DEF InitiateOpen, TypeOK
  <2>2. CASE InitiateWrite(r)
    BY <2>2 DEF InitiateWrite, JobInv, TypeOK, CheckoutSession
  <2>3. QED
    BY <2>1, <2>2
<1>3. \A o \in Orders : Funded(o, {"paid"})' <=> Funded(o, {"paid"})
  BY <1>1, <1>2 DEF Funded
<1>4. FundedOrders' = FundedOrders
  BY <1>3 DEF FundedOrders
<1>5. UNCHANGED <<confirmations, invoiced>>
  BY DEF InitiateOpen, InitiateWrite
<1>6. QED
  BY <1>4, <1>5 DEF Ledger!vars, FundedOrders

\* Any step that leaves sessions, confirmations and invoices alone stutters.
LEMMA RestStutters ==
    ASSUME UNCHANGED <<session, confirmations, invoiced>>
    PROVE  UNCHANGED Ledger!vars
BY DEF Ledger!vars, Funded

LEMMA LedgerStart == Init => Ledger!Init
<1> SUFFICES ASSUME Init PROVE Ledger!Init
  OBVIOUS
<1>1. FundedOrders = {}
  BY DEF Init, FundedOrders, Funded, NoSession
<1>2. QED
  BY <1>1 DEF Init, Ledger!Init, FundedOrders

LEMMA LedgerStep == IInv /\ [Next]_vars => [Ledger!Next]_(Ledger!vars)
<1> SUFFICES ASSUME IInv, [Next]_vars
             PROVE  Ledger!Next \/ UNCHANGED Ledger!vars
  OBVIOUS
<1>1. ASSUME NEW r \in Requests, Call(r) \/ Throw(r) \/ Die(r)
      PROVE  UNCHANGED Ledger!vars
  BY <1>1, RestStutters DEF Call, InitiateRead, CancelRead, StatusRead,
     AssignRead, ReportRead, VerifyFind, Throw, Die
<1>2. ASSUME NEW r \in Requests, Step(r)
      PROVE  Ledger!Next \/ UNCHANGED Ledger!vars
  <2>1. CASE VerifyCommit(r)
    BY <2>1, CommitSettles
  <2>2. CASE InitiateOpen(r) \/ InitiateWrite(r)
    BY <2>2, OpeningFundsNothing
  <2>3. CASE UNCHANGED <<session, confirmations, invoiced>>
    BY <2>3, RestStutters
  <2>4. QED
    BY <1>2, <2>1, <2>2, <2>3 DEF Step, InitiateList, VerifyLock,
       VerifyConflict, VerifyReread, VerifyAsk, VerifyFail, VerifyOrder,
       VerifyFlag, VerifyRollback, VerifyRelease, CancelWrite, StatusWrite,
       AssignCreate
<1>3. ASSUME NEW s \in Sessions, NEW state \in SessionStates, Capture(s, state)
      PROVE  Ledger!Next \/ UNCHANGED Ledger!vars
  BY <1>3, CaptureFunds
<1>4. CASE (\E p \in Payments : LockExpires(p)) \/ UNCHANGED vars
  BY <1>4, RestStutters DEF LockExpires, vars
<1>5. QED
  BY <1>1, <1>2, <1>3, <1>4 DEF Next

\* Checkout implements the ledger for any number of orders and requests: an
\* order is confirmed at most once, funded, and invoiced in the same step.
THEOREM RefinesLedger == Spec => ImplementsLedger
  BY LedgerStart, LedgerStep, Inductive, PTL DEF Spec, Ledger!Spec, ImplementsLedger

\* The three books of an order agree at any moment: it has an invoice exactly
\* when its history confirms the payment, and then a gateway holds its price.
THEOREM BooksAlwaysAgree == Spec => []BooksAgree
<1>1. IInv => BooksAgree
  BY DEF IInv, BooksInv, BooksAgree
<1>2. QED
  BY <1>1, Inductive, PTL

-----------------------------------------------------------------------------
(* The status of an order, as long as no two requests race for it. What a   *)
(* request has read of the order is then still so when it writes.           *)
Reading(r) ==
    LET o == req[r].order IN
    /\ req[r].pc = "cancel_write" => order[o] \in Payable
    /\ req[r].pc = "cancel_again" => order[o] = "CANCELLED"
    /\ req[r].pc = "assign_create"
       => order[o] \in {"DRAFT", "PAID"} /\ req[r].target = "ASSIGNED"
    /\ req[r].pc = "status_write" => LegalMove(order[o], req[r].target)
    /\ req[r].pc = "verify_commit"
       => CanTransition(order[payment[req[r].payment].order], "PAID")

ReadingInv == \A r \in Requests : Reading(r)

OrderWrites(r) == CancelWrite(r) \/ StatusWrite(r) \/ VerifyCommit(r)

\* A row that exists stays with its order.
LEMMA RowsStay ==
    ASSUME IInv, [Next]_vars, NEW p \in Payments, payment[p].status # "ABSENT"
    PROVE  payment'[p].order = payment[p].order
<1> TypeOK
  BY DEF IInv
<1>1. CASE UNCHANGED payment
  BY <1>1
<1>2. ASSUME NEW r \in Requests, InitiateWrite(r)
      PROVE  payment'[p].order = payment[p].order
  BY <1>2 DEF InitiateWrite, TypeOK, Row
<1>3. ASSUME NEW r \in Requests, VerifyFail(r) \/ VerifyFlag(r) \/ VerifyCommit(r)
      PROVE  payment'[p].order = payment[p].order
  <2>1. PICK status \in PaymentStatuses : SetPaymentStatus(r, status)
    BY <1>3 DEF VerifyFail, VerifyFlag, VerifyCommit, PaymentStatuses
  <2>2. req[r].payment \in Payments
    BY <1>3 DEF IInv, JobInv, VerifyFail, VerifyFlag, VerifyCommit, LockedPCs, ConfirmedPCs
  <2>3. QED
    BY <2>1, <2>2, StatusSet
<1>4. QED
  BY <1>1, <1>2, <1>3 DEF Next, Call, Step, Throw, Die, InitiateRead, CancelRead, StatusRead,
     AssignRead, ReportRead, VerifyFind, InitiateList, InitiateOpen, VerifyLock,
     VerifyConflict, VerifyReread, VerifyAsk, VerifyOrder, VerifyRollback, VerifyRelease,
     CancelWrite, StatusWrite, AssignCreate, Capture, LockExpires, vars

\* Who writes the status of an order has read it, and the move is legal.
LEMMA WritesLegally ==
    ASSUME IInv, NEW r \in Requests, Reading(r), OrderWrites(r)
    PROVE  \E o \in Orders :
              /\ r \in Writers(o)
              /\ \A b \in Orders : b # o => order'[b] = order[b]
              /\ order'[o] = order[o] \/ LegalMove(order[o], order'[o])
              /\ CancelWrite(r) => order'[o] = "CANCELLED" /\ req[r].order = o
              /\ \A q \in Requests : q # r => req'[q] = req[q]
              /\ req'[r].pc \in {"idle", "cancel_again", "verify_release"}
              /\ req'[r].pc = "cancel_again" => CancelWrite(r) /\ req'[r].order = req[r].order
<1> TypeOK /\ JobInv(r)
  BY DEF IInv
<1>1. CASE CancelWrite(r)
  <2>1. /\ req[r].order \in Orders /\ r \in Writers(req[r].order)
        /\ req[r].pc \in {"cancel_write", "cancel_again"}
        /\ order' = [order EXCEPT ![req[r].order] = "CANCELLED"]
    BY <1>1 DEF CancelWrite, JobInv, OrderPCs, Writers
  <2>2. order[req[r].order] = "CANCELLED" \/ LegalMove(order[req[r].order], "CANCELLED")
    BY <2>1 DEF Reading, Payable, LegalMove, CanTransition, validTransitions
  <2>3. /\ \A q \in Requests : q # r => req'[q] = req[q]
        /\ req'[r].pc = "idle"
           \/ (req'[r].pc = "cancel_again" /\ req'[r].order = req[r].order)
    <3>1. CASE Return(r)
      BY <3>1, ReturnJob
    <3>2. CASE Goto(r, "cancel_again")
      BY <3>2, GotoJob DEF PCs
    <3>3. QED
      BY <1>1, <3>1, <3>2 DEF CancelWrite
  <2>4. order' \in [Orders -> OrderStatuses] /\ order'[req[r].order] = "CANCELLED"
    BY <2>1 DEF TypeOK, OrderStatuses
  <2>5. \A b \in Orders : b # req[r].order => order'[b] = order[b]
    BY <2>1 DEF TypeOK
  <2>6. QED
    BY <2>1, <2>2, <2>3, <2>4, <2>5, <1>1
<1>2. CASE StatusWrite(r)
  <2>1. /\ req[r].order \in Orders /\ r \in Writers(req[r].order)
        /\ order' = [order EXCEPT ![req[r].order] = req[r].target]
        /\ LegalMove(order[req[r].order], req[r].target)
        /\ ~CancelWrite(r)
    BY <1>2 DEF StatusWrite, CancelWrite, JobInv, OrderPCs, Writers, Reading
  <2>2. /\ \A q \in Requests : q # r => req'[q] = req[q]
        /\ req'[r].pc = "idle"
    BY <1>2, ReturnJob DEF StatusWrite
  <2>3. QED
    BY <2>1, <2>2 DEF TypeOK
<1>3. CASE VerifyCommit(r)
  <2> DEFINE o == payment[req[r].payment].order
  <2>1. req[r].pc = "verify_commit" /\ req[r].payment \in Payments
        /\ payment[req[r].payment].status # "ABSENT" /\ ~CancelWrite(r)
    BY <1>3 DEF VerifyCommit, CancelWrite, JobInv, LockedPCs, ConfirmedPCs
  <2>2. o \in Orders
    BY <2>1 DEF IInv, RowsInv
  <2>3. /\ r \in Writers(o) /\ order' = [order EXCEPT ![o] = "PAID"]
        /\ LegalMove(order[o], "PAID")
    BY <1>3, <2>1 DEF VerifyCommit, Writers, Reading, LegalMove
  <2>4. /\ \A q \in Requests : q # r => req'[q] = req[q]
        /\ req'[r].pc = "verify_release"
    BY <1>3, GotoJob DEF VerifyCommit, PCs, LockedPCs
  <2> HIDE DEF o
  <2>5. QED
    BY <2>1, <2>2, <2>3, <2>4 DEF TypeOK
<1>4. QED
  BY <1>1, <1>2, <1>3 DEF OrderWrites

\* Only these steps change the status of an order.
LEMMA OthersLeaveOrders ==
    ASSUME [Next]_vars
    PROVE  order' = order \/ \E r \in Requests : OrderWrites(r)
BY DEF Next, Call, Step, Throw, Die, InitiateRead, CancelRead, StatusRead,
   AssignRead, ReportRead, VerifyFind, InitiateList, InitiateOpen, InitiateWrite, VerifyLock,
   VerifyConflict, VerifyReread, VerifyAsk, VerifyFail, VerifyOrder, VerifyFlag,
   VerifyRollback, VerifyRelease, AssignCreate, Capture, LockExpires, OrderWrites, vars

\* A request that takes no part in a step that leaves its order alone.
LEMMA ReadingKept ==
    ASSUME IInv, [Next]_vars, NEW r \in Requests, Reading(r), req'[r] = req[r],
           \A o \in Orders : r \in Writers(o) => order'[o] = order[o]
    PROVE  Reading(r)'
<1> JobInv(r)
  BY DEF IInv
<1>1. req[r].pc \in {"cancel_write", "cancel_again", "assign_create", "status_write"}
      => order'[req[r].order] = order[req[r].order]
  BY DEF JobInv, OrderPCs, Writers
<1>2. CASE req[r].pc = "verify_commit"
  <2> DEFINE p == req[r].payment
  <2>1. p \in Payments /\ payment[p].status # "ABSENT"
    BY <1>2 DEF JobInv, LockedPCs, ConfirmedPCs
  <2>2. payment[p].order \in Orders
    BY <2>1 DEF IInv, RowsInv
  <2>3. payment'[p].order = payment[p].order
    BY <2>1, RowsStay
  <2>4. order'[payment[p].order] = order[payment[p].order]
    BY <1>2, <2>2 DEF Writers
  <2>5. QED
    BY <1>2, <2>3, <2>4 DEF Reading
<1>3. CASE req[r].pc # "verify_commit"
  BY <1>1, <1>3 DEF Reading
<1>4. QED
  BY <1>2, <1>3

\* A request that comes to write has just read, or still knows what it read.
LEMMA ReadsRightly ==
    ASSUME IInv, NEW r \in Requests, Reading(r), order' = order,
           Call(r) \/ Step(r) \/ Throw(r) \/ Die(r)
    PROVE  Reading(r)' /\ \A q \in Requests : q # r => req'[q] = req[q]
<1> TypeOK /\ JobInv(r)
  BY DEF IInv
<1> DEFINE Good == Reading(r)' /\ \A q \in Requests : q # r => req'[q] = req[q]
           Quiet == PCs \ {"cancel_write", "cancel_again", "assign_create",
                           "status_write", "verify_commit"}
<1>1. ASSUME req'[r].pc \in Quiet, \A q \in Requests : q # r => req'[q] = req[q]
      PROVE  Good
  BY <1>1 DEF Reading
<1>2. CASE Return(r)
  BY <1>1, <1>2, ReturnJob DEF PCs
<1>3. ASSUME NEW pc \in Quiet, Goto(r, pc) PROVE Good
  BY <1>1, <1>3, GotoJob
<1>4. ASSUME NEW o \in Orders, CancelRead(r, o) PROVE Good
  BY <1>4 DEF CancelRead, Begin, Idle, Reading, TypeOK
<1>5. ASSUME NEW o \in Orders, NEW to \in StaffTargets, StatusRead(r, o, to) PROVE Good
  BY <1>5 DEF StatusRead, Begin, Idle, Reading, LegalMove, TypeOK
<1>6. ASSUME NEW o \in Orders, AssignRead(r, o) \/ ReportRead(r, o) PROVE Good
  <2>1. CASE AssignRead(r, o)
    BY <2>1 DEF AssignRead, Begin, Idle, Reading, TypeOK
  <2>2. CASE ReportRead(r, o)
    <3>1. /\ req'[r].pc = "status_write" /\ req'[r].order = o /\ req'[r].target = "DELIVERED"
          /\ \A q \in Requests : q # r => req'[q] = req[q]
      BY <2>2 DEF ReportRead, Begin, Idle, TypeOK
    <3>2. LegalMove(order[o], "DELIVERED")
      BY <2>2 DEF ReportRead, LegalMove
    <3>3. QED
      BY <3>1, <3>2 DEF Reading
  <2>3. QED
    BY <1>6, <2>1, <2>2
<1>7. ASSUME NEW o \in Orders, NEW g \in Gateways, InitiateRead(r, o, g) PROVE Good
  BY <1>7 DEF InitiateRead, Begin, Idle, Reading, TypeOK
<1>8. ASSUME NEW s \in Sessions, NEW g \in Gateways, VerifyFind(r, s, g) PROVE Good
  BY <1>8 DEF VerifyFind, Begin, Idle, Reading, TypeOK
<1>9. CASE AssignCreate(r)
  <2>1. CASE Goto(r, "status_write")
    <3>1. /\ \A q \in Requests : q # r => req'[q] = req[q]
          /\ req'[r].pc = "status_write" /\ req'[r].order = req[r].order
          /\ req'[r].target = req[r].target
      BY <2>1, GotoJob DEF PCs
    <3>2. order[req[r].order] \in {"DRAFT", "PAID"} /\ req[r].target = "ASSIGNED"
      BY <1>9 DEF AssignCreate, Reading
    <3>3. QED
      BY <3>1, <3>2 DEF Reading, LegalMove
  <2>2. QED
    BY <1>2, <1>9, <2>1 DEF AssignCreate
<1>10. CASE VerifyOrder(r)
  <2>1. CASE Goto(r, "verify_commit")
    <3>1. /\ \A q \in Requests : q # r => req'[q] = req[q]
          /\ req'[r].pc = "verify_commit" /\ req'[r].payment = req[r].payment
      BY <2>1, GotoJob DEF PCs, LockedPCs, ConfirmedPCs
    <3>2. /\ CanTransition(order[payment[req[r].payment].order], "PAID")
          /\ payment' = payment
      BY <1>10, <2>1, GotoJob DEF VerifyOrder, PCs, LockedPCs, ConfirmedPCs
    <3>3. QED
      BY <3>1, <3>2 DEF Reading
  <2>2. QED
    BY <1>3, <1>10, <2>1 DEF VerifyOrder, PCs, LockedPCs, ConfirmedPCs
<1>11. CASE InitiateList(r) \/ InitiateOpen(r)
  <2>1. CASE Return(r)
    BY <1>2, <2>1
  <2>2. CASE ~Return(r)
    <3>1. /\ \A q \in Requests : q # r => req'[q] = req[q]
          /\ req'[r].pc \in {"initiate_open", "initiate_write"}
      BY <1>11, <2>2 DEF InitiateList, InitiateOpen, TypeOK, Job
    <3>2. QED
      BY <1>1, <3>1 DEF PCs
  <2>3. QED
    BY <2>1, <2>2
<1>12. CASE CancelWrite(r) \/ StatusWrite(r)
  <2>1. CASE CancelWrite(r) /\ req[r].pc = "cancel_write"
    <3>1. order[req[r].order] = "CANCELLED" /\ order[req[r].order] \in Payable
      BY <2>1 DEF CancelWrite, TypeOK, JobInv, OrderPCs, Reading
    <3>2. QED
      BY <3>1 DEF Payable
  <2>2. QED
    BY <1>2, <1>12, <2>1 DEF CancelWrite, StatusWrite
<1>13. CASE \/ InitiateWrite(r) \/ VerifyConflict(r) \/ VerifyRelease(r) \/ Die(r)
  BY <1>2, <1>13 DEF InitiateWrite, VerifyConflict, VerifyRelease, Die
<1>14. CASE \/ VerifyLock(r) \/ VerifyReread(r) \/ VerifyAsk(r) \/ VerifyFail(r)
            \/ VerifyFlag(r) \/ VerifyCommit(r) \/ VerifyRollback(r) \/ Throw(r)
  BY <1>3, <1>14 DEF VerifyLock, VerifyReread, VerifyAsk, VerifyFail, VerifyFlag,
     VerifyCommit, VerifyRollback, Throw, PCs, LockedPCs, ConfirmedPCs
<1>15. QED
  BY <1>4, <1>5, <1>6, <1>7, <1>8, <1>9, <1>10, <1>11, <1>12, <1>13, <1>14 DEF Call, Step

\* What a request has read stays true until it writes, if none races with it.
LEMMA ReadingStep == IInv /\ ReadingInv /\ NoRaces /\ [Next]_vars => ReadingInv'
<1> SUFFICES ASSUME IInv, ReadingInv, NoRaces, [Next]_vars, NEW q \in Requests
             PROVE  Reading(q)'
  BY DEF ReadingInv
<1> Reading(q)
  BY DEF ReadingInv
<1>1. ASSUME NEW r \in Requests, OrderWrites(r)
      PROVE  Reading(q)'
  <2>1. Reading(r)
    BY DEF ReadingInv
  <2>2. PICK o \in Orders :
           /\ r \in Writers(o)
           /\ \A b \in Orders : b # o => order'[b] = order[b]
           /\ order'[o] = order[o] \/ LegalMove(order[o], order'[o])
           /\ CancelWrite(r) => order'[o] = "CANCELLED" /\ req[r].order = o
           /\ \A b \in Requests : b # r => req'[b] = req[b]
           /\ req'[r].pc \in {"idle", "cancel_again", "verify_release"}
           /\ req'[r].pc = "cancel_again" => CancelWrite(r) /\ req'[r].order = req[r].order
    BY <1>1, <2>1, WritesLegally
  <2>3. CASE q = r
    BY <2>2, <2>3 DEF Reading
  <2>4. CASE q # r
    <3>1. \A b \in Orders : q \in Writers(b) => b # o
      BY <2>2, <2>4 DEF NoRaces
    <3>2. QED
      BY <2>2, <2>4, <3>1, ReadingKept
  <2>5. QED
    BY <2>3, <2>4
<1>2. CASE order' = order
  <2>1. ASSUME NEW r \in Requests, Call(r) \/ Step(r) \/ Throw(r) \/ Die(r)
        PROVE  Reading(q)'
    <3>1. Reading(r)' /\ \A b \in Requests : b # r => req'[b] = req[b]
      BY <1>2, <2>1, ReadsRightly DEF ReadingInv
    <3>2. CASE q = r
      BY <3>1, <3>2
    <3>3. CASE q # r
      BY <1>2, <3>1, <3>3, ReadingKept
    <3>4. QED
      BY <3>2, <3>3
  <2>2. CASE UNCHANGED req
    BY <1>2, <2>2, ReadingKept
  <2>3. QED
    BY <2>1, <2>2 DEF Next, Capture, LockExpires, vars
<1>3. QED
  BY <1>1, <1>2, OthersLeaveOrders

LEMMA ReadingStart == Init => ReadingInv
  BY DEF Init, ReadingInv, Reading, Idle

\* Whoever changes a status read it, and what was read is still so.
LEMMA MovesLegally == IInv /\ ReadingInv /\ [Next]_vars
                      => \A o \in Orders : order'[o] # order[o]
                                            => LegalMove(order[o], order'[o])
<1> SUFFICES ASSUME IInv, ReadingInv, [Next]_vars,
                    NEW o \in Orders, order'[o] # order[o]
             PROVE  LegalMove(order[o], order'[o])
  OBVIOUS
<1>1. PICK r \in Requests : OrderWrites(r)
  BY OthersLeaveOrders
<1>2. Reading(r)
  BY DEF ReadingInv
<1>3. QED
  BY <1>1, <1>2, WritesLegally

\* The move of a status is checked before it is written, and not by the write:
\* what keeps it legal is that no other request has come in between. Without a
\* race for an order its status only moves as the handlers mean it to.
THEOREM MovesAreLegal == Spec /\ []NoRaces => OnlyLegalMoves
<1>1. IInv /\ ReadingInv /\ [Next]_vars
      => [\A o \in Orders : order'[o] # order[o] => LegalMove(order[o], order'[o])]_vars
  BY MovesLegally
<1>2. QED
  BY <1>1, ReadingStart, ReadingStep, Inductive, PTL DEF Spec, OnlyLegalMoves

\* Without a race for an order, a cancelled order is never forced to PAID, as
\* the comment of verifyPayment says; races are what it leaves out.
THEOREM CancelledStays == Spec /\ []NoRaces => CancelledIsNotForcedToPaid
<1>1. IInv /\ ReadingInv /\ [Next]_vars
      => [\A o \in Orders : order[o] = "CANCELLED" => order'[o] # "PAID"]_vars
  BY MovesLegally DEF LegalMove, CanTransition, validTransitions
<1>2. QED
  BY <1>1, ReadingStart, ReadingStep, Inductive, PTL DEF Spec, CancelledIsNotForcedToPaid
=============================================================================
