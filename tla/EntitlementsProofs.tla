------------------------- MODULE EntitlementsProofs -------------------------
(***************************************************************************)
(* Safety of entitlements for any number of offers, grants, payments,      *)
(* sessions and requests.                                                  *)
(***************************************************************************)
EXTENDS Entitlements, TLAPS

(* A payment belongs to the session it refers to; while it is attached, both *)
(* are of the same grant, and a row that does not exist is attached to none. *)
RowsInv ==
    \A p \in Payments :
        /\ payment[p].status # "ABSENT"
           => /\ payment[p].ref \in Sessions
              /\ session[payment[p].ref].payment = p
        /\ payment[p].grant # None
           => /\ payment[p].status # "ABSENT"
              /\ grant[payment[p].grant].status # "ABSENT"
              /\ session[payment[p].ref].grant = payment[p].grant

SessionsInv ==
    \A s \in Sessions :
        /\ session[s].state = "unused" => session[s].grant = None
        /\ session[s].state \in {"unused", "opened"} => session[s].payment = None

VerifyPCs == LockedPCs \cup {"verify_lock"}

AskedPCs == LockedPCs \ {"verify_reread", "verify_release"}

(* What the local variables of a request hold at each await: the grant that *)
(* a buying request has chosen, the payment it reuses, and for a verifying  *)
(* one a payment that has lost at most its grant since that was read.       *)
JobInv(r) ==
    /\ req[r].pc \in {"buy_recheck", "buy_payment", "buy_open", "buy_write"}
       => /\ req[r].grant \in Grants
          /\ grant[req[r].grant].status # "ABSENT"
    /\ req[r].pc \in {"buy_open", "buy_write"} /\ req[r].payment # None
       => /\ payment[req[r].payment].status # "ABSENT"
          /\ payment[req[r].payment].grant \in {req[r].grant, None}
    /\ req[r].pc \in BuyPCs \ {"buy_open", "buy_write"} => req[r].payment = None
    /\ req[r].pc = "buy_write"
       => /\ req[r].session \in Sessions
          /\ session[req[r].session].grant = req[r].grant
          /\ session[req[r].session].state = "opened"
    /\ req[r].pc \in VerifyPCs
       => /\ req[r].payment \in Payments
          /\ payment[req[r].payment].status # "ABSENT"
          /\ req[r].session \in Sessions
          /\ session[req[r].session].payment = req[r].payment
          /\ payment[req[r].payment].grant # None
             => session[req[r].session].grant = payment[req[r].payment].grant
    /\ req[r].pc \in AskedPCs => payment[req[r].payment].grant \in {req[r].grant, None}
    /\ req[r].pc = "verify_commit" /\ req[r].grant # None
       => session[req[r].session].state = "paid"

(* A session that is opened and not yet offered has one request to offer it.*)
OpenersInv ==
    \A q, r \in Requests :
        /\ req[q].pc = "buy_write"
        /\ req[r].pc = "buy_write"
        /\ req[q].session = req[r].session
        => q = r

(* Only plans of the platform are ever renewed.                            *)
RenewingInv ==
    \A g \in renewing :
        grant[g].offer \in PlatformPlans /\ grant[g].status # "ABSENT"

IInv ==
    /\ TypeOK
    /\ RowsInv
    /\ SessionsInv
    /\ \A r \in Requests : JobInv(r)
    /\ OpenersInv
    /\ RenewingInv
    /\ ActiveIsFunded
    /\ OneActivePurchase
    /\ SuccessIsActivated

-----------------------------------------------------------------------------
(* What every step leaves in place: what a grant is for; that a payment      *)
(* exists, and its grant or none; what a session is for, and captured money. *)
Kept ==
    /\ \A g \in Grants :
          grant[g].status # "ABSENT"
          => /\ grant'[g].status # "ABSENT"
             /\ grant'[g].offer = grant[g].offer
    /\ \A p \in Payments :
          payment[p].status # "ABSENT"
          => /\ payment'[p].status # "ABSENT"
             /\ payment'[p].grant \in {payment[p].grant, None}
    /\ \A s \in Sessions :
          /\ session[s].grant # None => session'[s].grant = session[s].grant
          /\ session[s].payment # None => session'[s].payment = session[s].payment
          /\ session[s].state = "paid" => session'[s].state = "paid"

\* A request that takes no part in a step may go on from where it stands.
LEMMA JobKept ==
    ASSUME IInv, Kept, NEW q \in Requests, req'[q] = req[q],
           req[q].pc = "buy_write" => session'[req[q].session] = session[req[q].session]
    PROVE  JobInv(q)'
<1>1. JobInv(q) /\ req[q] \in Call /\ (\A p \in Payments : payment[p] \in Row)
  BY DEF IInv, TypeOK
<1>2. CASE req[q].pc \in VerifyPCs
  <2>1. /\ req[q].pc \notin BuyPCs
        /\ req[q].payment \in Payments /\ req[q].payment # None
        /\ req[q].session \in Sessions
    BY <1>1, <1>2, NoneAssumption DEF JobInv, VerifyPCs, AskedPCs, LockedPCs, BuyPCs
  <2>2. payment[req[q].payment].grant # None => session[req[q].session].grant # None
    BY <1>1, <1>2 DEF JobInv
  <2>3. QED
    BY <1>1, <1>2, <2>1, <2>2 DEF JobInv, Kept, BuyPCs
<1>3. CASE req[q].pc \notin VerifyPCs
  <2>1. req[q].pc \notin AskedPCs /\ req[q].pc # "verify_commit"
    BY <1>3 DEF VerifyPCs, AskedPCs, LockedPCs
  <2>2. req[q].payment # None => req[q].payment \in Payments
    BY <1>1 DEF Call
  <2>3. QED
    BY <1>1, <1>3, <2>1, <2>2 DEF JobInv, Kept
<1>4. QED
  BY <1>2, <1>3

\* Captured money stays: no step can leave a grant unfunded.
LEMMA FundsKept ==
    ASSUME IInv, Kept, NEW g \in Grants, Funded(g)
    PROVE  Funded(g)'
BY NoneAssumption DEF Kept, Funded

\* A step that changes the status of no grant and makes no payment SUCCESS
\* keeps what active grants and SUCCESS payments promise.
LEMMA PromisesKept ==
    ASSUME IInv, Kept,
           \A g \in Grants : grant'[g].status = "ACTIVE" <=> grant[g].status = "ACTIVE",
           \A p \in Payments : payment'[p].status = "SUCCESS" => payment[p].status = "SUCCESS"
    PROVE  ActiveIsFunded' /\ OneActivePurchase' /\ SuccessIsActivated'
<1>1. \A g \in Grants : grant[g].status = "ACTIVE" => grant'[g].offer = grant[g].offer
  BY DEF Kept
<1>2. ActiveIsFunded'
  BY <1>1, FundsKept DEF IInv, ActiveIsFunded
<1>3. OneActivePurchase'
  BY <1>1 DEF IInv, OneActivePurchase, GrantsOf
<1>4. SuccessIsActivated'
  <2> SUFFICES ASSUME NEW p \in Payments, NEW g \in Grants,
                      payment'[p].grant = g,
                      payment'[p].status = "SUCCESS",
                      grant'[g].offer \in Strategies
               PROVE  grant'[g].status = "ACTIVE"
    BY DEF SuccessIsActivated
  <2>1. payment[p].status = "SUCCESS"
    OBVIOUS
  <2>2. payment[p].grant = g
    BY <2>1, NoneAssumption DEF Kept
  <2>3. grant[g].status # "ABSENT"
    BY <2>2, NoneAssumption DEF IInv, RowsInv
  <2>4. QED
    BY <2>1, <2>2, <2>3 DEF Kept, IInv, SuccessIsActivated
<1>5. QED
  BY <1>2, <1>3, <1>4

\* Goto changes the pc of one request and none of its other local variables.
LEMMA GotoCall ==
    ASSUME TypeOK, NEW r \in Requests, NEW pc \in PCs, Goto(r, pc)
    PROVE  /\ req' \in [Requests -> Call]
           /\ \A q \in Requests : q # r => req'[q] = req[q]
           /\ req'[r].pc = pc
           /\ req'[r].grant = req[r].grant
           /\ req'[r].payment = req[r].payment
           /\ req'[r].session = req[r].session
BY DEF Goto, Call, TypeOK

\* Return forgets the local variables of one request.
LEMMA ReturnCall ==
    ASSUME TypeOK, NEW r \in Requests, Return(r)
    PROVE  /\ req' \in [Requests -> Call]
           /\ \A q \in Requests : q # r => req'[q] = req[q]
           /\ req'[r].pc = "idle"
BY NoneAssumption DEF Return, Call, TypeOK, Idle, PCs

\* Begin starts one request, which was idle.
LEMMA BeginCall ==
    ASSUME TypeOK, NEW r \in Requests, NEW job \in Call, Begin(r, job)
    PROVE  /\ req' \in [Requests -> Call]
           /\ \A q \in Requests : q # r => req'[q] = req[q]
           /\ req'[r] = job
BY DEF Begin, TypeOK

\* A handler step that writes no row and no session keeps the invariant, if
\* the request's new local variables are right where it now stands.
LEMMA MoveKeeps ==
    ASSUME IInv, NEW r \in Requests,
           req' \in [Requests -> Call],
           \A q \in Requests : q # r => req'[q] = req[q],
           req'[r].pc # "buy_write",
           UNCHANGED <<grant, payment, session, jobVars>>,
           verifyLock' \in [Payments -> SUBSET Requests],
           JobInv(r)'
    PROVE  IInv'
<1>1. TypeOK' /\ RowsInv' /\ SessionsInv' /\ RenewingInv' /\ Kept
  BY DEF IInv, TypeOK, RowsInv, SessionsInv, RenewingInv, Kept, jobVars
<1>2. \A q \in Requests : JobInv(q)'
  BY <1>1, JobKept
<1>3. OpenersInv'
  BY DEF IInv, OpenersInv
<1>4. ActiveIsFunded' /\ OneActivePurchase' /\ SuccessIsActivated'
  BY <1>1, PromisesKept
<1>5. QED
  BY <1>1, <1>2, <1>3, <1>4 DEF IInv

\* Answering a request keeps it.
LEMMA ReturnKeeps ==
    ASSUME IInv, NEW r \in Requests, Return(r),
           UNCHANGED <<grant, payment, session, jobVars>>,
           verifyLock' \in [Payments -> SUBSET Requests]
    PROVE  IInv'
<1>1. TypeOK
  BY DEF IInv
<1>2. JobInv(r)'
  BY <1>1, ReturnCall DEF JobInv, VerifyPCs, AskedPCs, LockedPCs, BuyPCs
<1>3. QED
  BY <1>1, <1>2, ReturnCall, MoveKeeps

\* So does going on with the same local variables, where they are right.
LEMMA GotoKeeps ==
    ASSUME IInv, NEW r \in Requests, NEW pc \in PCs \ {"buy_write"}, Goto(r, pc),
           UNCHANGED <<grant, payment, session, jobVars>>,
           verifyLock' \in [Payments -> SUBSET Requests],
           JobInv(r)'
    PROVE  IInv'
<1>1. TypeOK
  BY DEF IInv
<1>2. QED
  BY <1>1, GotoCall, MoveKeeps

-----------------------------------------------------------------------------
(* The buying requests                                                     *)

LEMMA BuyReadKeeps ==
    ASSUME IInv, NEW r \in Requests, NEW x \in Offers, BuyRead(r, x)
    PROVE  IInv'
<1> DEFINE job == [Idle EXCEPT !.pc = "buy_pending", !.offer = x]
<1>1. job \in Call /\ job.pc = "buy_pending" /\ job.payment = None
  BY NoneAssumption DEF Call, Idle, PCs, BuyPCs
<1>2. TypeOK /\ Begin(r, job)
  BY DEF BuyRead, IInv
<1> HIDE DEF job
<1>3. /\ req' \in [Requests -> Call]
      /\ \A q \in Requests : q # r => req'[q] = req[q]
      /\ req'[r] = job
  BY <1>1, <1>2, BeginCall
<1>4. JobInv(r)'
  BY <1>1, <1>3 DEF JobInv, VerifyPCs, AskedPCs, LockedPCs
<1>5. QED
  BY <1>1, <1>2, <1>3, <1>4, MoveKeeps DEF BuyRead, TypeOK

\* The request has chosen a grant that exists.
LEMMA ChosenCall ==
    ASSUME TypeOK, NEW r \in Requests, NEW g \in Grants, Chosen(r, g)
    PROVE  /\ req' \in [Requests -> Call]
           /\ \A q \in Requests : q # r => req'[q] = req[q]
           /\ req'[r].pc \in {"buy_recheck", "buy_payment"}
           /\ req'[r].grant = g
           /\ req'[r].payment = req[r].payment
BY DEF Chosen, Call, TypeOK, PCs, BuyPCs

LEMMA BuyPendingKeeps ==
    ASSUME IInv, NEW r \in Requests, BuyPending(r)
    PROVE  IInv'
<1> TypeOK /\ JobInv(r)
  BY DEF IInv
<1>1. ASSUME NEW g \in GrantsOf({req[r].offer}, "PENDING"), Chosen(r, g)
      PROVE  IInv'
  <2>1. g \in Grants /\ grant[g].status = "PENDING"
    BY DEF GrantsOf
  <2>2. JobInv(r)'
    BY <1>1, <2>1, ChosenCall
       DEF BuyPending, JobInv, VerifyPCs, AskedPCs, LockedPCs, BuyPCs
  <2>3. QED
    BY <1>1, <2>1, <2>2, ChosenCall, MoveKeeps DEF BuyPending, TypeOK
<1>2. CASE Goto(r, "buy_create")
  <2>1. JobInv(r)'
    BY <1>2, GotoCall DEF BuyPending, JobInv, VerifyPCs, AskedPCs, LockedPCs, PCs, BuyPCs
  <2>2. QED
    BY <1>2, <2>1, GotoKeeps DEF BuyPending, TypeOK, PCs, BuyPCs
<1>3. QED
  BY <1>1, <1>2 DEF BuyPending

\* A new grant has no payment yet, and nothing active changes.
LEMMA BuyCreateKeeps ==
    ASSUME IInv, NEW r \in Requests, BuyCreate(r)
    PROVE  IInv'
<1> TypeOK /\ JobInv(r)
  BY DEF IInv
<1>1. PICK g \in Grants :
         /\ grant[g].status = "ABSENT"
         /\ grant' = [grant EXCEPT ![g] =
               [offer |-> req[r].offer, status |-> "PENDING",
                autoRenew |-> req[r].offer \notin Strategies, ended |-> FALSE]]
         /\ Chosen(r, g)
  BY DEF BuyCreate
<1>2. /\ grant' \in [Grants -> Grant]
      /\ \A h \in Grants : h # g => grant'[h] = grant[h]
      /\ grant'[g].status = "PENDING"
  <2> DEFINE new == [offer |-> req[r].offer, status |-> "PENDING",
                     autoRenew |-> req[r].offer \notin Strategies, ended |-> FALSE]
  <2>1. req[r].offer \in Offers \cup {None}
    BY DEF TypeOK, Call
  <2>2. new \in Grant /\ new.status = "PENDING"
    BY <2>1 DEF Grant, GrantStatuses
  <2>3. grant' = [grant EXCEPT ![g] = new]
    BY <1>1
  <2> HIDE DEF new
  <2>4. QED
    BY <2>2, <2>3 DEF TypeOK
<1>3. /\ req' \in [Requests -> Call]
      /\ \A q \in Requests : q # r => req'[q] = req[q]
      /\ req'[r].pc \in {"buy_recheck", "buy_payment"}
      /\ req'[r].grant = g
      /\ req'[r].payment = None
  BY <1>1, ChosenCall DEF BuyCreate, JobInv, BuyPCs
<1>4. TypeOK' /\ SessionsInv' /\ OpenersInv'
  BY <1>2, <1>3 DEF BuyCreate, IInv, TypeOK, SessionsInv, OpenersInv, jobVars
<1>5. Kept
  BY <1>1, <1>2 DEF Kept, BuyCreate
<1>6. RowsInv'
  BY <1>2 DEF BuyCreate, IInv, RowsInv
<1>7. JobInv(r)'
  BY <1>2, <1>3 DEF JobInv, VerifyPCs, AskedPCs, LockedPCs, BuyPCs
<1>8. \A q \in Requests : JobInv(q)'
  BY <1>3, <1>5, <1>7, JobKept DEF BuyCreate
<1>9. ActiveIsFunded' /\ OneActivePurchase' /\ SuccessIsActivated'
  BY <1>1, <1>2, <1>5, PromisesKept DEF BuyCreate
<1>10. RenewingInv'
  <2>1. \A h \in renewing : h \in Grants
    BY DEF TypeOK
  <2>2. g \notin renewing
    BY <1>1 DEF IInv, RenewingInv
  <2>3. QED
    BY <1>2, <2>1, <2>2 DEF BuyCreate, IInv, RenewingInv, jobVars
<1>11. QED
  BY <1>4, <1>6, <1>8, <1>9, <1>10 DEF IInv

LEMMA BuyRecheckKeeps ==
    ASSUME IInv, NEW r \in Requests, BuyRecheck(r)
    PROVE  IInv'
<1> TypeOK /\ JobInv(r)
  BY DEF IInv
<1>1. CASE Goto(r, "buy_payment")
  <2>1. JobInv(r)'
    BY <1>1, GotoCall DEF BuyRecheck, JobInv, VerifyPCs, AskedPCs, LockedPCs, PCs, BuyPCs
  <2>2. QED
    BY <1>1, <2>1, GotoKeeps DEF BuyRecheck, TypeOK, PCs, BuyPCs
<1>2. CASE Return(r)
  BY <1>2, ReturnKeeps DEF BuyRecheck, TypeOK
<1>3. QED
  BY <1>1, <1>2 DEF BuyRecheck

LEMMA BuyPaymentKeeps ==
    ASSUME IInv, NEW r \in Requests, BuyPayment(r)
    PROVE  IInv'
<1> TypeOK /\ JobInv(r)
  BY DEF IInv
<1> DEFINE reusable == {p \in Payments : /\ payment[p].grant = req[r].grant
                                         /\ payment[p].status = "PENDING"}
<1>1. req[r].pc = "buy_payment" /\ UNCHANGED <<grant, payment, session, verifyLock, jobVars>>
  BY DEF BuyPayment
<1>2. ASSUME NEW p \in reusable,
             req' = [req EXCEPT ![r].pc = "buy_open", ![r].payment = p]
      PROVE  IInv'
  <2>1. /\ req' \in [Requests -> Call]
        /\ \A q \in Requests : q # r => req'[q] = req[q]
        /\ req'[r].pc = "buy_open"
        /\ req'[r].grant = req[r].grant
        /\ req'[r].payment = p
    BY <1>2 DEF TypeOK, Call, PCs, BuyPCs
  <2>2. JobInv(r)'
    BY <1>1, <1>2, <2>1 DEF JobInv, VerifyPCs, AskedPCs, LockedPCs, BuyPCs
  <2>3. QED
    BY <1>1, <2>1, <2>2, MoveKeeps DEF TypeOK
<1>3. CASE Goto(r, "buy_open")
  <2>1. JobInv(r)'
    BY <1>1, <1>3, GotoCall DEF JobInv, VerifyPCs, AskedPCs, LockedPCs, PCs, BuyPCs
  <2>2. QED
    BY <1>1, <1>3, <2>1, GotoKeeps DEF TypeOK, PCs, BuyPCs
<1>4. QED
  BY <1>2, <1>3 DEF BuyPayment

\* The fresh session is the request's own: no other one will offer it.
LEMMA BuyOpenKeeps ==
    ASSUME IInv, NEW r \in Requests, BuyOpen(r)
    PROVE  IInv'
<1> TypeOK /\ JobInv(r)
  BY DEF IInv
<1>1. CASE Return(r) /\ UNCHANGED session
  BY <1>1, ReturnKeeps DEF BuyOpen, TypeOK
<1>2. ASSUME NEW s \in Sessions, session[s].state = "unused",
             session' = [session EXCEPT ![s].grant = req[r].grant,
                                        ![s].state = "opened"],
             req' = [req EXCEPT ![r].pc = "buy_write", ![r].session = s]
      PROVE  IInv'
  <2>1. /\ req' \in [Requests -> Call]
        /\ \A q \in Requests : q # r => req'[q] = req[q]
        /\ req'[r].pc = "buy_write"
        /\ req'[r].grant = req[r].grant
        /\ req'[r].payment = req[r].payment
        /\ req'[r].session = s
    BY <1>2 DEF TypeOK, Call, PCs, BuyPCs
  <2>2. req[r].grant \in Grants /\ grant[req[r].grant].status # "ABSENT"
    BY DEF BuyOpen, JobInv
  <2>3. /\ session' \in [Sessions -> CheckoutSession]
        /\ \A t \in Sessions : t # s => session'[t] = session[t]
        /\ session'[s].grant = req[r].grant
        /\ session'[s].payment = session[s].payment
        /\ session'[s].state = "opened"
    BY <1>2, <2>2 DEF TypeOK, CheckoutSession, SessionStates
  <2>4. session[s].grant = None /\ session[s].payment = None
    BY <1>2 DEF IInv, SessionsInv
  <2>5. TypeOK' /\ Kept
    BY <1>2, <2>1, <2>3, <2>4 DEF BuyOpen, TypeOK, Kept, jobVars
  <2>6. RowsInv' /\ SessionsInv' /\ RenewingInv'
    BY <2>3, <2>4, NoneAssumption DEF BuyOpen, IInv, RowsInv, SessionsInv,
                                      RenewingInv, jobVars
  <2>7. \A q \in Requests : req[q].pc = "buy_write" => req[q].session \in Sessions \ {s}
    BY <1>2 DEF IInv, JobInv
  <2>8. ASSUME NEW q \in Requests
        PROVE  JobInv(q)'
    <3>1. CASE q = r
      BY <2>1, <2>2, <2>3, <3>1
         DEF BuyOpen, JobInv, VerifyPCs, AskedPCs, LockedPCs, BuyPCs
    <3>2. CASE q # r
      BY <2>1, <2>3, <2>5, <2>7, <3>2, JobKept
    <3>3. QED
      BY <3>1, <3>2
  <2>9. OpenersInv'
    BY <2>1, <2>7 DEF IInv, OpenersInv
  <2>10. ActiveIsFunded' /\ OneActivePurchase' /\ SuccessIsActivated'
    BY <2>5, PromisesKept DEF BuyOpen
  <2>11. QED
    BY <2>5, <2>6, <2>8, <2>9, <2>10 DEF IInv
<1>3. QED
  BY <1>1, <1>2 DEF BuyOpen

\* A payment that is reused, or takes the place of the grant's earlier one, is
\* the only one that the fresh session belongs to.
LEMMA BuyWriteKeeps ==
    ASSUME IInv, NEW r \in Requests, BuyWrite(r)
    PROVE  IInv'
<1> DEFINE s == req[r].session
           g == req[r].grant
<1> TypeOK /\ JobInv(r)
  BY DEF IInv
<1>1. CASE UNCHANGED <<payment, session>>
  BY <1>1, ReturnKeeps DEF BuyWrite, TypeOK
<1>2. /\ g \in Grants
      /\ grant[g].status # "ABSENT"
      /\ s \in Sessions
      /\ session[s].grant = g
      /\ session[s].payment = None
      /\ session[s].state = "opened"
  BY DEF BuyWrite, JobInv, IInv, SessionsInv
<1>3. ASSUME NEW p \in Payments, Offer(s, p),
             payment' \in [Payments -> Row],
             payment'[p].status \in {"PENDING", payment[p].status} \ {"ABSENT"},
             payment'[p].ref = s,
             payment'[p].grant \in {g, None},
             payment[p].status # "ABSENT" => payment'[p].grant = payment[p].grant,
             \A q \in Payments :
                q # p => /\ payment'[q].status = payment[q].status
                         /\ payment'[q].ref = payment[q].ref
                         /\ payment'[q].grant \in {payment[q].grant, None}
      PROVE  IInv'
  <2>1. /\ req' \in [Requests -> Call]
        /\ \A q \in Requests : q # r => req'[q] = req[q]
        /\ req'[r].pc = "idle"
    BY ReturnCall DEF BuyWrite
  <2>2. /\ session' \in [Sessions -> CheckoutSession]
        /\ \A t \in Sessions : t # s => session'[t] = session[t]
        /\ session'[s].grant = g
        /\ session'[s].payment = p
        /\ session'[s].state = "offered"
    BY <1>2, <1>3 DEF Offer, TypeOK, CheckoutSession, SessionStates
  <2>3. \A q \in Requests \ {r} : req[q].pc = "buy_write" => req[q].session \in Sessions \ {s}
    BY DEF IInv, JobInv, OpenersInv, BuyWrite
  <2> HIDE DEF s, g
  <2>4. UNCHANGED <<grant, verifyLock, jobVars>>
    BY DEF BuyWrite
  <2>5. TypeOK'
    BY <1>3, <2>1, <2>2, <2>4 DEF TypeOK, jobVars
  <2>6. Kept
    BY <1>2, <1>3, <2>2, <2>4 DEF Kept
  <2>7. RowsInv'
    <3> SUFFICES ASSUME NEW q \in Payments
                 PROVE  /\ payment'[q].status # "ABSENT"
                           => /\ payment'[q].ref \in Sessions
                              /\ session'[payment'[q].ref].payment = q
                        /\ payment'[q].grant # None
                           => /\ payment'[q].status # "ABSENT"
                              /\ grant'[payment'[q].grant].status # "ABSENT"
                              /\ session'[payment'[q].ref].grant = payment'[q].grant
      BY DEF RowsInv
    <3>1. CASE q = p
      BY <1>2, <1>3, <2>2, <2>4, <3>1
    <3>2. CASE q # p
      <4>1. payment[q].status # "ABSENT" => payment[q].ref \in Sessions \ {s}
        BY <1>2, NoneAssumption DEF IInv, RowsInv
      <4>2. QED
        BY <1>3, <2>2, <2>4, <3>2, <4>1 DEF IInv, RowsInv
    <3>3. QED
      BY <3>1, <3>2
  <2>8. SessionsInv' /\ RenewingInv'
    BY <2>2, <2>4 DEF IInv, SessionsInv, RenewingInv, jobVars
  <2>9. ASSUME NEW q \in Requests
        PROVE  JobInv(q)'
    <3>1. CASE q = r
      BY <2>1, <3>1 DEF JobInv, VerifyPCs, AskedPCs, LockedPCs, BuyPCs
    <3>2. CASE q # r
      BY <2>1, <2>2, <2>3, <2>6, <3>2, JobKept
    <3>3. QED
      BY <3>1, <3>2
  <2>10. OpenersInv'
    BY <2>1 DEF IInv, OpenersInv
  <2>11. ActiveIsFunded' /\ OneActivePurchase' /\ SuccessIsActivated'
    BY <1>3, <2>4, <2>6, PromisesKept
  <2>12. QED
    BY <2>5, <2>6, <2>7, <2>8, <2>9, <2>10, <2>11 DEF IInv
<1>4. ASSUME req[r].payment # None,
             payment' = [payment EXCEPT ![req[r].payment].ref = s],
             Offer(s, req[r].payment)
      PROVE  IInv'
  <2>1. /\ req[r].payment \in Payments
        /\ payment[req[r].payment].status # "ABSENT"
        /\ payment[req[r].payment].grant \in {g, None}
    BY <1>4 DEF BuyWrite, JobInv, TypeOK, Call
  <2> DEFINE p == req[r].payment
  <2> HIDE DEF s, g, p
  <2>2. /\ payment' \in [Payments -> Row]
        /\ payment'[p] = [payment[p] EXCEPT !.ref = s]
        /\ \A q \in Payments : q # p => payment'[q] = payment[q]
    BY <1>2, <1>4, <2>1 DEF TypeOK, Row, p
  <2>3. QED
    BY <1>3, <1>4, <2>1, <2>2 DEF TypeOK, Row, p
<1>5. ASSUME NEW p \in Payments, payment[p].status = "ABSENT", Replace(p, g, s), Offer(s, p)
      PROVE  IInv'
  <2> HIDE DEF s, g
  <2> DEFINE new == [grant |-> g, status |-> "PENDING", ref |-> s]
  <2>1. new \in Row /\ new.status = "PENDING" /\ new.ref = s /\ new.grant = g
    BY <1>2 DEF Row, PaymentStatuses
  <2>2. \A q \in Payments :
           /\ [payment[q] EXCEPT !.grant = None] \in Row
           /\ [payment[q] EXCEPT !.grant = None].status = payment[q].status
           /\ [payment[q] EXCEPT !.grant = None].ref = payment[q].ref
           /\ [payment[q] EXCEPT !.grant = None].grant = None
    BY DEF TypeOK, Row
  <2>3. payment' = [q \in Payments |->
                      IF q = p THEN new
                      ELSE IF payment[q].grant = g
                           THEN [payment[q] EXCEPT !.grant = None] ELSE payment[q]]
    BY <1>5 DEF Replace
  <2> HIDE DEF new
  <2>4. /\ payment' \in [Payments -> Row]
        /\ payment'[p] = new
        /\ \A q \in Payments :
              q # p => payment'[q] \in {payment[q], [payment[q] EXCEPT !.grant = None]}
    BY <2>1, <2>2, <2>3 DEF TypeOK
  <2>5. \A q \in Payments :
           q # p => /\ payment'[q].status = payment[q].status
                    /\ payment'[q].ref = payment[q].ref
                    /\ payment'[q].grant \in {payment[q].grant, None}
    BY <2>2, <2>4
  <2>6. QED
    BY <1>3, <1>5, <2>1, <2>4, <2>5
<1>6. QED
  BY <1>1, <1>4, <1>5 DEF BuyWrite

\* The customer pays a session that no request is still about to offer.
LEMMA CaptureKeeps ==
    ASSUME IInv, NEW s \in Sessions, NEW state, Capture(s, state)
    PROVE  IInv'
<1> TypeOK
  BY DEF IInv
<1>1. /\ session' \in [Sessions -> CheckoutSession]
      /\ \A t \in Sessions : t # s => session'[t] = session[t]
      /\ session'[s].grant = session[s].grant
      /\ session'[s].payment = session[s].payment
      /\ session'[s].state \in {"paid", "mispaid"}
      /\ session[s].state = "offered"
  BY DEF Capture, TypeOK, CheckoutSession, SessionStates
<1>2. TypeOK' /\ Kept
  BY <1>1 DEF Capture, TypeOK, Kept, jobVars
<1>3. RowsInv' /\ SessionsInv' /\ RenewingInv' /\ OpenersInv'
  BY <1>1 DEF Capture, IInv, RowsInv, SessionsInv, RenewingInv, OpenersInv, jobVars
<1>4. ASSUME NEW q \in Requests
      PROVE  JobInv(q)'
  <2>1. req[q].pc = "buy_write" => req[q].session \in Sessions \ {s}
    BY <1>1 DEF IInv, JobInv
  <2>2. QED
    BY <1>1, <1>2, <2>1, JobKept DEF Capture
<1>5. ActiveIsFunded' /\ OneActivePurchase' /\ SuccessIsActivated'
  BY <1>2, PromisesKept DEF Capture
<1>6. QED
  BY <1>2, <1>3, <1>4, <1>5 DEF IInv

-----------------------------------------------------------------------------
(* Verifying                                                               *)

\* The payment found has its session, of the same grant while it has one.
LEMMA VerifyFindKeeps ==
    ASSUME IInv, NEW r \in Requests, NEW p \in Payments, VerifyFind(r, p)
    PROVE  IInv'
<1> DEFINE job == [Idle EXCEPT !.pc = "verify_lock", !.payment = p,
                               !.session = payment[p].ref]
<1>1. /\ payment[p].status # "ABSENT"
      /\ payment[p].ref \in Sessions
      /\ session[payment[p].ref].payment = p
      /\ payment[p].grant # None => session[payment[p].ref].grant = payment[p].grant
  BY DEF VerifyFind, IInv, RowsInv
<1>2. /\ job \in Call
      /\ job.pc = "verify_lock"
      /\ job.payment = p
      /\ job.session = payment[p].ref
  BY <1>1 DEF Call, Idle, PCs
<1>3. TypeOK /\ Begin(r, job)
  BY DEF VerifyFind, IInv
<1> HIDE DEF job
<1>4. /\ req' \in [Requests -> Call]
      /\ \A q \in Requests : q # r => req'[q] = req[q]
      /\ req'[r] = job
  BY <1>2, <1>3, BeginCall
<1>5. JobInv(r)'
  BY <1>1, <1>2, <1>4 DEF VerifyFind, JobInv, VerifyPCs, AskedPCs, LockedPCs, BuyPCs
<1>6. QED
  BY <1>2, <1>3, <1>4, <1>5, MoveKeeps DEF VerifyFind, TypeOK

\* Inside the lock a request may go from any await to any other, except that
\* it asks the gateway with what it reread, and commits the payment of a grant
\* only when its session is paid.
LEMMA VerifyMoveKeeps ==
    ASSUME IInv, NEW r \in Requests, req[r].pc \in VerifyPCs,
           NEW pc \in LockedPCs, Goto(r, pc),
           pc \in AskedPCs => req[r].pc \in AskedPCs,
           pc = "verify_commit" /\ req[r].grant # None
           => session[req[r].session].state = "paid",
           UNCHANGED <<grant, payment, session, jobVars>>,
           verifyLock' \in [Payments -> SUBSET Requests]
    PROVE  IInv'
<1>1. TypeOK /\ JobInv(r) /\ pc \in PCs \ {"buy_write"}
  BY DEF IInv, PCs, LockedPCs
<1>2. JobInv(r)'
  BY <1>1, GotoCall DEF JobInv, VerifyPCs, AskedPCs, LockedPCs, BuyPCs
<1>3. QED
  BY <1>1, <1>2, GotoKeeps

\* Reread takes the grant of the payment besides.
LEMMA RereadCall ==
    ASSUME TypeOK, NEW r \in Requests, req[r].payment \in Payments,
           NEW pc \in PCs, Reread(r, pc)
    PROVE  /\ req' \in [Requests -> Call]
           /\ \A q \in Requests : q # r => req'[q] = req[q]
           /\ req'[r].pc = pc
           /\ req'[r].grant = payment[req[r].payment].grant
           /\ req'[r].payment = req[r].payment
           /\ req'[r].session = req[r].session
<1>1. payment[req[r].payment].grant \in Grants \cup {None}
  BY DEF TypeOK, Row
<1>2. QED
  BY <1>1 DEF Reread, Call, TypeOK

\* The second read: from here on the payment has this grant or none.
LEMMA VerifyRereadKeeps ==
    ASSUME IInv, NEW r \in Requests, VerifyReread(r)
    PROVE  IInv'
<1> DEFINE p == req[r].payment
<1>1. /\ TypeOK /\ JobInv(r) /\ req[r].pc = "verify_reread" /\ p \in Payments
      /\ UNCHANGED <<grant, payment, session, verifyLock, jobVars>>
  BY DEF IInv, VerifyReread, JobInv, VerifyPCs, LockedPCs
<1>2. PICK pc \in {"verify_release", "verify_ask"} : Reread(r, pc)
  BY DEF VerifyReread
<1>3. /\ req' \in [Requests -> Call]
      /\ \A q \in Requests : q # r => req'[q] = req[q]
      /\ req'[r].pc = pc
      /\ req'[r].grant = payment[p].grant
      /\ req'[r].payment = p
      /\ req'[r].session = req[r].session
  BY <1>1, <1>2, RereadCall DEF PCs, LockedPCs
<1>4. JobInv(r)'
  BY <1>1, <1>3 DEF JobInv, VerifyPCs, AskedPCs, LockedPCs, BuyPCs
<1>5. QED
  BY <1>1, <1>3, <1>4, MoveKeeps DEF TypeOK

LEMMA VerifyReadsKeep ==
    ASSUME IInv, NEW r \in Requests,
           \/ VerifyLock(r) \/ VerifyAsk(r) \/ VerifyCheck(r)
           \/ VerifyRelease(r) \/ Throw(r) \/ Die(r)
    PROVE  IInv'
<1> TypeOK /\ JobInv(r)
  BY DEF IInv
<1>1. CASE VerifyLock(r)
  <2>1. verifyLock' \in [Payments -> SUBSET Requests]
    BY <1>1 DEF VerifyLock, Locks!SetNX, TypeOK
  <2>2. CASE Goto(r, "verify_reread")
    BY <1>1, <2>1, <2>2, VerifyMoveKeeps DEF VerifyLock, VerifyPCs, AskedPCs, LockedPCs
  <2>3. CASE Return(r)
    BY <1>1, <2>1, <2>3, ReturnKeeps DEF VerifyLock
  <2>4. QED
    BY <1>1, <2>2, <2>3 DEF VerifyLock
<1>2. CASE VerifyAsk(r)
  BY <1>2, VerifyMoveKeeps DEF VerifyAsk, TypeOK, VerifyPCs, AskedPCs, LockedPCs
<1>3. CASE VerifyCheck(r)
  BY <1>3, VerifyMoveKeeps DEF VerifyCheck, TypeOK, VerifyPCs, AskedPCs, LockedPCs
<1>4. CASE VerifyRelease(r)
  <2>1. verifyLock' \in [Payments -> SUBSET Requests]
    BY <1>4 DEF VerifyRelease, Locks!DelIfOwner, TypeOK
  <2>2. QED
    BY <1>4, <2>1, ReturnKeeps DEF VerifyRelease
<1>5. CASE Throw(r)
  BY <1>5, VerifyMoveKeeps DEF Throw, TypeOK, VerifyPCs, AskedPCs, LockedPCs
<1>6. CASE Die(r)
  BY <1>6, ReturnKeeps DEF Die, TypeOK
<1>7. QED
  BY <1>1, <1>2, <1>3, <1>4, <1>5, <1>6

\* Writing the status of the payment that a request verifies, and at most the
\* status of its grant, keeps the rows, the sessions and the requests.
LEMMA SettleKeeps ==
    ASSUME IInv, NEW r \in Requests, req[r].pc \in AskedPCs,
           Goto(r, "verify_release"),
           NEW status \in PaymentStatuses \ {"ABSENT"}, SetStatus(r, status),
           grant' \in [Grants -> Grant],
           \A g \in Grants : /\ grant'[g].offer = grant[g].offer
                             /\ grant[g].status # "ABSENT" => grant'[g].status # "ABSENT",
           UNCHANGED <<session, verifyLock, jobVars>>
    PROVE  /\ TypeOK' /\ RowsInv' /\ SessionsInv' /\ OpenersInv' /\ RenewingInv' /\ Kept
           /\ \A q \in Requests : JobInv(q)'
           /\ payment' \in [Payments -> Row]
           /\ \A p \in Payments : p # req[r].payment => payment'[p] = payment[p]
           /\ payment'[req[r].payment].status = status
           /\ payment'[req[r].payment].grant = payment[req[r].payment].grant
<1> DEFINE p == req[r].payment
<1>1. TypeOK /\ JobInv(r) /\ p \in Payments /\ payment[p].status # "ABSENT"
  BY DEF IInv, JobInv, VerifyPCs, AskedPCs
<1>2. /\ req' \in [Requests -> Call]
      /\ \A q \in Requests : q # r => req'[q] = req[q]
      /\ req'[r].pc = "verify_release"
      /\ req'[r].payment = p
      /\ req'[r].session = req[r].session
  BY <1>1, GotoCall DEF PCs, LockedPCs
<1>3. /\ payment' \in [Payments -> Row]
      /\ \A q \in Payments : q # p => payment'[q] = payment[q]
      /\ payment'[p].status = status
      /\ payment'[p].ref = payment[p].ref
      /\ payment'[p].grant = payment[p].grant
  BY <1>1 DEF SetStatus, TypeOK, Row
<1>4. TypeOK' /\ Kept
  BY <1>1, <1>2, <1>3 DEF TypeOK, Kept, jobVars
<1>5. RowsInv'
  <2>1. \A q \in Payments :
           /\ payment'[q].ref = payment[q].ref
           /\ payment'[q].grant = payment[q].grant
           /\ payment'[q].status # "ABSENT" <=> payment[q].status # "ABSENT"
    BY <1>1, <1>3
  <2>2. \A q \in Payments : payment[q].grant # None => payment[q].grant \in Grants
    BY <1>1 DEF TypeOK, Row
  <2>3. QED
    BY <2>1, <2>2 DEF IInv, RowsInv
<1>6. SessionsInv' /\ OpenersInv'
  BY <1>2 DEF IInv, SessionsInv, OpenersInv
<1>7. RenewingInv'
  BY DEF IInv, TypeOK, RenewingInv, jobVars
<1>8. ASSUME NEW q \in Requests
      PROVE  JobInv(q)'
  <2>1. CASE q = r
    BY <1>1, <1>2, <1>3, <2>1 DEF JobInv, VerifyPCs, AskedPCs, LockedPCs, BuyPCs
  <2>2. CASE q # r
    BY <1>2, <1>4, <2>2, JobKept
  <2>3. QED
    BY <2>1, <2>2
<1>9. QED
  BY <1>3, <1>4, <1>5, <1>6, <1>7, <1>8

\* A refused payment is not SUCCESS; nothing else is promised of it.
LEMMA VerifyRefuseKeeps ==
    ASSUME IInv, NEW r \in Requests, VerifyRefuse(r)
    PROVE  IInv'
<1>1. PICK status \in {"FAILED", "FLAGGED"} : SetStatus(r, status)
  BY DEF VerifyRefuse
<1>2. /\ req[r].pc \in AskedPCs
      /\ Goto(r, "verify_release")
      /\ UNCHANGED <<grant, session, verifyLock, jobVars>>
      /\ status \in PaymentStatuses \ {"ABSENT"}
  BY DEF VerifyRefuse, AskedPCs, LockedPCs, PaymentStatuses
<1>3. /\ TypeOK' /\ RowsInv' /\ SessionsInv' /\ OpenersInv' /\ RenewingInv' /\ Kept
      /\ \A q \in Requests : JobInv(q)'
      /\ \A p \in Payments : payment'[p].status = "SUCCESS" => payment[p].status = "SUCCESS"
  BY <1>1, <1>2, SettleKeeps DEF IInv, TypeOK
<1>4. ActiveIsFunded' /\ OneActivePurchase' /\ SuccessIsActivated'
  BY <1>2, <1>3, PromisesKept
<1>5. QED
  BY <1>3, <1>4 DEF IInv

\* A payment that is still attached has been compared with its grant, which is
\* funded, and the index admits no second ACTIVE purchase of one strategy; a
\* detached one changes nothing but its own status.
LEMMA VerifyCommitKeeps ==
    ASSUME IInv, NEW r \in Requests, VerifyCommit(r)
    PROVE  IInv'
<1> DEFINE p == req[r].payment
           g == payment[p].grant
<1>1. /\ TypeOK /\ JobInv(r) /\ p \in Payments
      /\ req[r].pc = "verify_commit" /\ req[r].pc \in AskedPCs /\ req[r].pc \in VerifyPCs
      /\ Goto(r, "verify_release")
      /\ UNCHANGED <<session, verifyLock, jobVars>>
      /\ "SUCCESS" \in PaymentStatuses \ {"ABSENT"}
  BY DEF IInv, VerifyCommit, JobInv, VerifyPCs, AskedPCs, LockedPCs, PaymentStatuses
<1>2. g \in Grants \cup {None}
  BY <1>1 DEF TypeOK, Row
<1>3. g # None => /\ grant[g].status # "ABSENT"
                  /\ req[r].session \in Sessions
                  /\ session[req[r].session].grant = g
                  /\ session[req[r].session].state = "paid"
  BY <1>1 DEF IInv, RowsInv, JobInv
<1>4. CASE UNCHANGED <<payment, grant>>
  BY <1>1, <1>4, VerifyMoveKeeps DEF TypeOK, VerifyPCs, AskedPCs, LockedPCs
<1>5. CASE g = None /\ SetStatus(r, "SUCCESS") /\ UNCHANGED grant
  <2>1. /\ TypeOK' /\ RowsInv' /\ SessionsInv' /\ OpenersInv' /\ RenewingInv' /\ Kept
        /\ \A q \in Requests : JobInv(q)'
        /\ \A q \in Payments : q # p => payment'[q] = payment[q]
        /\ payment'[p].grant = None
    BY <1>1, <1>5, SettleKeeps DEF TypeOK
  <2>2. ActiveIsFunded' /\ OneActivePurchase'
    BY <1>1, <1>5 DEF IInv, ActiveIsFunded, Funded, OneActivePurchase, GrantsOf
  <2>3. SuccessIsActivated'
    BY <1>5, <2>1, NoneAssumption DEF IInv, SuccessIsActivated
  <2>4. QED
    BY <2>1, <2>2, <2>3 DEF IInv
<1>6. ASSUME NEW h \in Grants, payment[p].grant = h,
             IndexAllows(h), SetStatus(r, "SUCCESS"), Activate(h)
      PROVE  IInv'
  <2>1. /\ grant[h].status # "ABSENT"
        /\ session[req[r].session].grant = h /\ req[r].session \in Sessions
        /\ session[req[r].session].state = "paid"
    BY <1>3, <1>6, NoneAssumption
  <2>2. \A x \in GrantsOf({grant[h].offer}, "ACTIVE") : grant[h].offer \in Strategies => x = h
    BY <1>6 DEF IndexAllows
  <2>3. /\ grant' \in [Grants -> Grant]
        /\ \A x \in Grants : x # h => grant'[x] = grant[x]
        /\ grant'[h].status = "ACTIVE"
        /\ grant'[h].offer = grant[h].offer
    <3>1. grant' = [grant EXCEPT ![h] = [@ EXCEPT !.status = "ACTIVE", !.ended = FALSE]]
      BY <1>1, <1>6 DEF Activate, TypeOK, Grant
    <3>2. [grant[h] EXCEPT !.status = "ACTIVE", !.ended = FALSE] \in Grant
      <4>1. grant[h] \in Grant
        BY <1>1 DEF TypeOK
      <4>2. QED
        BY <4>1 DEF Grant, GrantStatuses
    <3>3. QED
      BY <1>1, <2>1, <3>1, <3>2 DEF TypeOK, Grant
  <2>4. /\ TypeOK' /\ RowsInv' /\ SessionsInv' /\ OpenersInv' /\ RenewingInv' /\ Kept
        /\ \A q \in Requests : JobInv(q)'
        /\ \A q \in Payments : q # p => payment'[q] = payment[q]
        /\ payment'[p].grant = h
    BY <1>1, <1>6, <2>3, SettleKeeps
  <2>5. ActiveIsFunded'
    <3>1. Funded(h)'
      BY <1>1, <2>1 DEF Funded
    <3>2. QED
      BY <2>3, <2>4, <3>1, FundsKept DEF IInv, ActiveIsFunded
  <2>6. OneActivePurchase'
    BY <2>2, <2>3 DEF IInv, OneActivePurchase, GrantsOf
  <2>7. SuccessIsActivated'
    BY <2>1, <2>3, <2>4 DEF IInv, SuccessIsActivated
  <2>8. QED
    BY <2>4, <2>5, <2>6, <2>7 DEF IInv
<1>7. QED
  BY <1>2, <1>4, <1>5, <1>6 DEF VerifyCommit

-----------------------------------------------------------------------------
(* Leases, cancellation and the jobs                                       *)

LEMMA LockExpiresKeeps ==
    ASSUME IInv, NEW p \in Payments, LockExpires(p)
    PROVE  IInv'
<1>1. TypeOK' /\ Kept
  BY DEF IInv, TypeOK, LockExpires, Locks!Expire, Kept, jobVars
<1>2. RowsInv' /\ SessionsInv' /\ RenewingInv' /\ OpenersInv'
  BY DEF LockExpires, IInv, RowsInv, SessionsInv, RenewingInv, OpenersInv, jobVars
<1>3. \A q \in Requests : JobInv(q)'
  BY <1>1, JobKept DEF LockExpires
<1>4. ActiveIsFunded' /\ OneActivePurchase' /\ SuccessIsActivated'
  BY <1>1, PromisesKept DEF LockExpires
<1>5. QED
  BY <1>1, <1>2, <1>3, <1>4 DEF IInv

\* A step that writes one plan, which it may make ACTIVE only by the hand of
\* an administrator, and drops plans from those about to be renewed.
LEMMA PlanKeeps ==
    ASSUME IInv, NEW g \in Grants,
           grant' \in [Grants -> Grant],
           \A h \in Grants : h # g => grant'[h] = grant[h],
           grant'[g].offer = grant[g].offer,
           grant[g].offer \notin Strategies,
           grant'[g].status = "ABSENT" => grant[g].status = "ABSENT",
           grant'[g].status = "ACTIVE"
           => \/ grant[g].status = "ACTIVE"
              \/ grant[g].offer \in SignalPlans /\ "ACTIVE" \in HandStatuses,
           UNCHANGED <<payment, session, verifyLock, req, found, queued, enqueued>>,
           renewing' \subseteq renewing
    PROVE  IInv'
<1>1. TypeOK' /\ Kept
  BY DEF IInv, TypeOK, Kept
<1>2. RowsInv' /\ SessionsInv' /\ RenewingInv' /\ OpenersInv'
  <2>1. \A p \in Payments : payment[p].grant # None => payment[p].grant \in Grants
    BY DEF IInv, TypeOK, Row
  <2>2. RowsInv'
    BY <2>1 DEF IInv, RowsInv
  <2>3. QED
    BY <2>2 DEF IInv, TypeOK, SessionsInv, RenewingInv, OpenersInv
<1>3. \A q \in Requests : JobInv(q)'
  BY <1>1, JobKept
<1>4. ActiveIsFunded'
  BY <1>1, FundsKept DEF IInv, ActiveIsFunded
<1>5. OneActivePurchase' /\ SuccessIsActivated'
  BY DEF IInv, OneActivePurchase, SuccessIsActivated, GrantsOf
<1>6. QED
  BY <1>1, <1>2, <1>3, <1>4, <1>5 DEF IInv

LEMMA PlanStepsKeep ==
    ASSUME IInv, NEW g \in Grants,
           \/ CancelSubscription(g) \/ EndReached(g) \/ RenewWrite(g)
           \/ \E status \in HandStatuses : SetSubscriberStatus(g, status)
    PROVE  IInv'
<1>1. /\ TypeOK
      /\ \A h \in renewing : grant[h].offer \in PlatformPlans /\ grant[h].status # "ABSENT"
      /\ \A x \in PlatformPlans \cup SignalPlans : x \notin Strategies
  BY OffersAssumption DEF IInv, RenewingInv
<1>2. CASE CancelSubscription(g)
  <2>1. /\ grant' \in [Grants -> Grant]
        /\ \A h \in Grants : h # g => grant'[h] = grant[h]
        /\ grant'[g].offer = grant[g].offer
        /\ grant'[g].status = "CANCELLED"
    BY <1>1, <1>2 DEF CancelSubscription, TypeOK, Grant, GrantStatuses
  <2>2. QED
    BY <1>1, <1>2, <2>1, PlanKeeps DEF CancelSubscription, jobVars
<1>3. CASE EndReached(g)
  <2>1. /\ grant' \in [Grants -> Grant]
        /\ \A h \in Grants : h # g => grant'[h] = grant[h]
        /\ grant'[g].offer = grant[g].offer
        /\ grant'[g].status = grant[g].status
    BY <1>1, <1>3 DEF EndReached, TypeOK, Grant
  <2>2. QED
    BY <1>1, <1>3, <2>1, PlanKeeps DEF EndReached, jobVars
<1>4. CASE RenewWrite(g)
  <2>1. /\ grant' \in [Grants -> Grant]
        /\ \A h \in Grants : h # g => grant'[h] = grant[h]
        /\ grant'[g].offer = grant[g].offer
        /\ grant'[g].status = "EXPIRED"
    BY <1>1, <1>4 DEF RenewWrite, TypeOK, Grant, GrantStatuses
  <2>2. QED
    BY <1>1, <1>4, <2>1, PlanKeeps DEF RenewWrite
<1>5. ASSUME NEW status \in HandStatuses, SetSubscriberStatus(g, status)
      PROVE  IInv'
  <2>1. status \in GrantStatuses \ {"ABSENT"}
    BY HandStatusesAssumption
  <2>2. /\ grant' \in [Grants -> Grant]
        /\ \A h \in Grants : h # g => grant'[h] = grant[h]
        /\ grant'[g].offer = grant[g].offer
        /\ grant'[g].status = status
    BY <1>1, <1>5, <2>1 DEF SetSubscriberStatus, TypeOK, Grant
  <2>3. QED
    BY <1>1, <1>5, <2>1, <2>2, PlanKeeps DEF SetSubscriberStatus, jobVars
<1>6. QED
  BY <1>2, <1>3, <1>4, <1>5

\* A step of the jobs that writes no plan only moves plans between its sets.
LEMMA JobStepsKeep ==
    ASSUME IInv,
           \/ ExpiryCheck \/ ExpiryStops \/ NewDay
           \/ \E g \in Grants : ExpiryEnqueue(g) \/ RenewRead(g) \/ RenewFails(g)
    PROVE  IInv'
<1>1. /\ UNCHANGED <<grant, payment, session, verifyLock, req>>
      /\ found' \subseteq Grants
      /\ queued' \subseteq Grants
      /\ enqueued' \subseteq Grants
      /\ renewing' \subseteq Grants
  BY DEF IInv, TypeOK, ExpiryCheck, Expiring, ExpiryStops, NewDay, ExpiryEnqueue,
         RenewRead, RenewFails
<1>2. \A g \in renewing' \ renewing : Renewable(g)
  BY DEF ExpiryCheck, ExpiryStops, NewDay, ExpiryEnqueue, RenewRead, RenewFails
<1>3. TypeOK' /\ Kept
  BY <1>1 DEF IInv, TypeOK, Kept
<1>4. RenewingInv'
  BY <1>1, <1>2 DEF IInv, RenewingInv, Renewable
<1>5. RowsInv' /\ SessionsInv' /\ OpenersInv'
  BY <1>1 DEF IInv, RowsInv, SessionsInv, OpenersInv
<1>6. \A q \in Requests : JobInv(q)'
  BY <1>1, <1>3, JobKept
<1>7. ActiveIsFunded' /\ OneActivePurchase' /\ SuccessIsActivated'
  BY <1>1, <1>3, PromisesKept
<1>8. QED
  BY <1>3, <1>4, <1>5, <1>6, <1>7 DEF IInv

-----------------------------------------------------------------------------
LEMMA InitIInv == Init => IInv
<1> SUFFICES ASSUME Init PROVE IInv
  OBVIOUS
<1>1. TypeOK
  BY NoneAssumption DEF Init, TypeOK, Grant, NoGrant, GrantStatuses, Row, NoPayment,
     PaymentStatuses, CheckoutSession, NoSession, SessionStates, Call, Idle, PCs
<1>2. RowsInv /\ SessionsInv /\ OpenersInv /\ RenewingInv
  BY DEF Init, RowsInv, SessionsInv, OpenersInv, RenewingInv, Idle, NoPayment, NoSession
<1>3. \A r \in Requests : JobInv(r)
  BY DEF Init, JobInv, Idle, VerifyPCs, AskedPCs, LockedPCs, BuyPCs
<1>4. ActiveIsFunded /\ OneActivePurchase /\ SuccessIsActivated
  BY DEF Init, ActiveIsFunded, OneActivePurchase, SuccessIsActivated, GrantsOf, NoGrant,
         NoPayment
<1>5. QED
  BY <1>1, <1>2, <1>3, <1>4 DEF IInv

LEMMA NextIInv == IInv /\ [Next]_vars => IInv'
<1> SUFFICES ASSUME IInv, [Next]_vars PROVE IInv'
  OBVIOUS
<1>1. ASSUME NEW r \in Requests, Step(r)
      PROVE  IInv'
  BY <1>1, BuyPendingKeeps, BuyCreateKeeps, BuyRecheckKeeps, BuyPaymentKeeps,
     BuyOpenKeeps, BuyWriteKeeps, VerifyReadsKeep, VerifyRereadKeeps,
     VerifyRefuseKeeps, VerifyCommitKeeps DEF Step
<1>2. ASSUME NEW r \in Requests, NEW x \in Offers, BuyRead(r, x)
      PROVE  IInv'
  BY <1>2, BuyReadKeeps
<1>3. ASSUME NEW r \in Requests, NEW p \in Payments, VerifyFind(r, p)
      PROVE  IInv'
  BY <1>3, VerifyFindKeeps
<1>4. ASSUME NEW s \in Sessions, NEW state \in SessionStates, Capture(s, state)
      PROVE  IInv'
  BY <1>4, CaptureKeeps
<1>5. ASSUME NEW g \in Grants,
             \/ CancelSubscription(g) \/ EndReached(g) \/ JobStep(g)
             \/ \E status \in HandStatuses : SetSubscriberStatus(g, status)
      PROVE  IInv'
  BY <1>5, PlanStepsKeep, JobStepsKeep DEF JobStep
<1>6. CASE ExpiryCheck \/ ExpiryStops \/ NewDay \/ \E p \in Payments : LockExpires(p)
  BY <1>6, JobStepsKeep, LockExpiresKeeps
<1>7. CASE UNCHANGED vars
  <2>1. TypeOK' /\ Kept
    BY <1>7 DEF vars, jobVars, IInv, TypeOK, Kept
  <2>2. RowsInv' /\ SessionsInv' /\ RenewingInv' /\ OpenersInv'
    BY <1>7 DEF vars, jobVars, IInv, RowsInv, SessionsInv, RenewingInv, OpenersInv
  <2>3. \A q \in Requests : JobInv(q)'
    BY <1>7, <2>1, JobKept DEF vars
  <2>4. ActiveIsFunded' /\ OneActivePurchase' /\ SuccessIsActivated'
    BY <1>7, <2>1, PromisesKept DEF vars
  <2>5. QED
    BY <2>1, <2>2, <2>3, <2>4 DEF IInv
<1>8. QED
  BY <1>1, <1>2, <1>3, <1>4, <1>5, <1>6, <1>7 DEF Next

LEMMA Inductive == Spec => []IInv
BY InitIInv, NextIInv, PTL DEF Spec

\* The rows, the sessions, the requests and the jobs' queues keep their shape.
THEOREM EntitlementsTyped == Spec => []TypeOK
BY Inductive, PTL DEF IInv

\* No verify, however late, and no job makes a grant ACTIVE without a capture
\* of its exact price; only an administrator's hand does, on a signal plan.
THEOREM AccessIsFunded == Spec => []ActiveIsFunded
BY Inductive, PTL DEF IInv

\* No two purchases of one strategy are ever ACTIVE together.
THEOREM BoughtOnce == Spec => []OneActivePurchase
BY Inductive, PTL DEF IInv

\* A SUCCESS payment that is attached to a purchase of a strategy has it ACTIVE;
\* one that a later creation detached has no purchase to speak of.
THEOREM PaidIsActivated == Spec => []SuccessIsActivated
BY Inductive, PTL DEF IInv

-----------------------------------------------------------------------------
(* What the Redis lock adds, as long as no verify outlives it.             *)

(* Whoever works under the lock owns it, and what it reread is still true. *)
OwnerInv(r) ==
    /\ req[r].pc \in LockedPCs => r \in verifyLock[req[r].payment]
    /\ req[r].pc \in AskedPCs => payment[req[r].payment].status # "SUCCESS"

LeaseInv ==
    /\ IInv
    /\ \A r \in Requests : OwnerInv(r)
    /\ \A p \in Payments : \A q, r \in verifyLock[p] : q = r

\* A step of one request that takes no lock and makes no payment SUCCESS.
LEMMA LeaseKept ==
    ASSUME LeaseInv, IInv', NEW r \in Requests,
           \A q \in Requests : q # r => req'[q] = req[q],
           \A p \in Payments : payment'[p].status = "SUCCESS" => payment[p].status = "SUCCESS",
           UNCHANGED verifyLock,
           OwnerInv(r)'
    PROVE  LeaseInv'
<1>1. \A q \in Requests : req[q].pc \in AskedPCs => req[q].payment \in Payments
  BY DEF LeaseInv, IInv, JobInv, VerifyPCs, AskedPCs
<1>2. \A q \in Requests : OwnerInv(q)'
  BY <1>1 DEF LeaseInv, OwnerInv
<1>3. QED
  BY <1>2 DEF LeaseInv

\* The other steps leave the requests, the locks and the payments alone.
LEMMA LeaseUntouched ==
    ASSUME LeaseInv, IInv', UNCHANGED <<req, verifyLock, payment>>
    PROVE  LeaseInv'
BY DEF LeaseInv, OwnerInv

\* A step of buying, of finding the payment, or a death, ends outside the body
\* that the lock protects.
LEMMA OutsideCall ==
    ASSUME IInv, NEW r \in Requests,
           \/ \E x \in Offers : BuyRead(r, x)
           \/ BuyPending(r) \/ BuyCreate(r) \/ BuyRecheck(r) \/ BuyPayment(r)
           \/ BuyOpen(r) \/ BuyWrite(r)
           \/ \E p \in Payments : VerifyFind(r, p)
           \/ Die(r)
    PROVE  /\ UNCHANGED verifyLock
           /\ \A q \in Requests : q # r => req'[q] = req[q]
           /\ req'[r].pc \notin LockedPCs
<1>1. TypeOK /\ JobInv(r)
  BY DEF IInv
<1>2. UNCHANGED verifyLock /\ (\A q \in Requests : q # r => req'[q] = req[q])
  BY <1>1 DEF TypeOK, BuyRead, BuyPending, BuyCreate, BuyRecheck, BuyPayment, BuyOpen,
              BuyWrite, VerifyFind, Die, Begin, Chosen, Goto, Return
<1>3. req'[r].pc \notin LockedPCs
  <2>1. CASE Return(r)
    BY <1>1, <2>1, ReturnCall DEF LockedPCs
  <2>2. CASE \E pc \in BuyPCs : Goto(r, pc)
    BY <1>1, <2>2, GotoCall DEF LockedPCs, BuyPCs, PCs
  <2>3. CASE \E g \in Grants : Chosen(r, g)
    BY <1>1, <2>3, ChosenCall DEF LockedPCs
  <2>4. CASE BuyPayment(r)
    BY <1>1, <2>2, <2>4 DEF BuyPayment, TypeOK, Call, LockedPCs, BuyPCs
  <2>5. CASE BuyOpen(r)
    <3>1. CASE \E s \in Sessions : req' = [req EXCEPT ![r].pc = "buy_write", ![r].session = s]
      BY <1>1, <3>1 DEF TypeOK, Call, LockedPCs
    <3>2. QED
      BY <2>1, <2>5, <3>1 DEF BuyOpen
  <2>6. CASE (\E x \in Offers : BuyRead(r, x)) \/ (\E p \in Payments : VerifyFind(r, p))
    <3>1. CASE \E x \in Offers : BuyRead(r, x)
      <4>1. PICK x \in Offers : req' = [req EXCEPT ![r] =
                  [Idle EXCEPT !.pc = "buy_pending", !.offer = x]]
        BY <3>1 DEF BuyRead, Begin
      <4>2. req'[r].pc = "buy_pending"
        BY <1>1, <4>1 DEF TypeOK, Idle
      <4>3. QED
        BY <4>2 DEF LockedPCs
    <3>2. CASE \E p \in Payments : VerifyFind(r, p)
      <4>1. PICK p \in Payments : req' = [req EXCEPT ![r] =
                  [Idle EXCEPT !.pc = "verify_lock", !.payment = p,
                               !.session = payment[p].ref]]
        BY <3>2 DEF VerifyFind, Begin
      <4>2. req'[r].pc = "verify_lock"
        BY <1>1, <4>1 DEF TypeOK, Idle
      <4>3. QED
        BY <4>2 DEF LockedPCs
    <3>3. QED
      BY <2>6, <3>1, <3>2
  <2>7. QED
    BY <2>1, <2>2, <2>3, <2>4, <2>5, <2>6 DEF BuyPending, GrantsOf, BuyCreate, BuyRecheck,
       BuyWrite, Die, BuyPCs
<1>4. QED
  BY <1>2, <1>3

\* Neither reusing a payment nor replacing one changes which are SUCCESS.
LEMMA WriteSettlesNothing ==
    ASSUME TypeOK, NEW r \in Requests, BuyWrite(r)
    PROVE  \A p \in Payments : payment'[p].status = "SUCCESS" <=> payment[p].status = "SUCCESS"
<1>1. CASE \E p \in Payments : payment[p].status = "ABSENT"
                              /\ Replace(p, req[r].grant, req[r].session)
  <2>1. PICK p \in Payments : payment[p].status = "ABSENT"
                             /\ Replace(p, req[r].grant, req[r].session)
    BY <1>1
  <2>2. \A q \in Payments : [payment[q] EXCEPT !.grant = None].status = payment[q].status
    BY DEF TypeOK, Row
  <2>3. QED
    BY <2>1, <2>2 DEF Replace
<1>2. CASE req[r].payment # None
           /\ payment' = [payment EXCEPT ![req[r].payment].ref = req[r].session]
  BY <1>2 DEF TypeOK, Row, Call
<1>3. CASE UNCHANGED payment
  BY <1>3
<1>4. QED
  BY <1>1, <1>2, <1>3 DEF BuyWrite

LEMMA LeaseBuying ==
    ASSUME LeaseInv, IInv', NEW r \in Requests,
           \/ \E x \in Offers : BuyRead(r, x)
           \/ BuyPending(r) \/ BuyCreate(r) \/ BuyRecheck(r) \/ BuyPayment(r)
           \/ BuyOpen(r) \/ BuyWrite(r)
           \/ \E p \in Payments : VerifyFind(r, p)
           \/ Die(r)
    PROVE  LeaseInv'
<1>1. TypeOK /\ JobInv(r)
  BY DEF LeaseInv, IInv
<1>2. /\ IInv /\ UNCHANGED verifyLock
      /\ \A q \in Requests : q # r => req'[q] = req[q]
      /\ req'[r].pc \notin LockedPCs
  BY OutsideCall DEF LeaseInv
<1>3. \A p \in Payments : payment'[p].status = "SUCCESS" => payment[p].status = "SUCCESS"
  <2>1. CASE UNCHANGED payment
    BY <2>1
  <2>2. CASE BuyWrite(r)
    BY <1>1, <2>2, WriteSettlesNothing
  <2>3. QED
    BY <2>1, <2>2 DEF BuyRead, BuyPending, BuyCreate, BuyRecheck, BuyPayment, BuyOpen,
                      VerifyFind, Die
<1>4. QED
  BY <1>2, <1>3, LeaseKept DEF OwnerInv, AskedPCs

\* Under the lock: no other request can make the payment SUCCESS meanwhile.
LEMMA LeaseVerifying ==
    ASSUME LeaseInv, IInv', NEW r \in Requests,
           \/ VerifyReread(r) \/ VerifyAsk(r) \/ VerifyCheck(r) \/ VerifyRefuse(r)
           \/ VerifyCommit(r) \/ Throw(r)
    PROVE  LeaseInv'
<1> TypeOK /\ JobInv(r) /\ OwnerInv(r)
  BY DEF LeaseInv, IInv
<1>1. PICK p \in Payments : req[r].payment = p
  BY DEF VerifyReread, VerifyAsk, VerifyCheck, VerifyRefuse, VerifyCommit, Throw, JobInv,
         VerifyPCs, AskedPCs, LockedPCs
<1>2. /\ \A q \in Requests : q # r => req'[q] = req[q]
      /\ req'[r].pc \in LockedPCs
      /\ req'[r].payment = p
  <2>1. CASE \E pc \in LockedPCs : Goto(r, pc)
    BY <1>1, <2>1, GotoCall DEF PCs
  <2>2. CASE \E pc \in LockedPCs : Reread(r, pc)
    BY <1>1, <2>2, RereadCall DEF PCs
  <2>3. QED
    BY <2>1, <2>2 DEF VerifyReread, VerifyAsk, VerifyCheck, VerifyRefuse, VerifyCommit, Throw,
                      LockedPCs
<1>3. req'[r].pc \in AskedPCs => payment'[p].status # "SUCCESS"
  <2>1. CASE Goto(r, "verify_release") \/ Reread(r, "verify_release")
    BY <1>1, <2>1, GotoCall, RereadCall DEF AskedPCs, PCs, LockedPCs
  <2>2. CASE UNCHANGED payment /\ payment[p].status # "SUCCESS"
    BY <2>2
  <2>3. CASE VerifyReread(r)
    BY <1>1, <2>1, <2>2, <2>3 DEF VerifyReread
  <2>4. CASE VerifyAsk(r) \/ VerifyCheck(r)
    BY <1>1, <2>2, <2>4 DEF VerifyAsk, VerifyCheck, OwnerInv, LockedPCs, AskedPCs
  <2>5. QED
    BY <2>1, <2>3, <2>4 DEF VerifyRefuse, VerifyCommit, Throw
<1>4. req[r].pc \in LockedPCs /\ UNCHANGED verifyLock
  BY DEF VerifyReread, VerifyAsk, VerifyCheck, VerifyRefuse, VerifyCommit, Throw, LockedPCs
<1>5. \A h \in Payments : h # p => payment'[h] = payment[h]
  <2>1. UNCHANGED payment \/ \E status \in PaymentStatuses : SetStatus(r, status)
    BY DEF VerifyReread, VerifyAsk, VerifyCheck, VerifyRefuse, VerifyCommit, Throw,
           PaymentStatuses
  <2>2. QED
    BY <1>1, <2>1 DEF SetStatus, TypeOK
<1>6. ASSUME NEW q \in Requests
      PROVE  OwnerInv(q)'
  <2>1. CASE q = r
    BY <1>1, <1>2, <1>3, <1>4, <2>1 DEF OwnerInv
  <2>2. CASE q # r
    <3>1. OwnerInv(q) /\ JobInv(q) /\ req'[q] = req[q]
      BY <1>2, <2>2 DEF LeaseInv, IInv
    <3>2. req[q].pc \in LockedPCs => req[q].payment \in Payments /\ req[q].payment # p
      BY <1>1, <1>4, <2>2, <3>1 DEF OwnerInv, JobInv, VerifyPCs, LeaseInv
    <3>3. QED
      BY <1>4, <1>5, <3>1, <3>2 DEF OwnerInv, AskedPCs
  <2>3. QED
    BY <2>1, <2>2
<1>7. QED
  BY <1>4, <1>6 DEF LeaseInv

\* Taking, releasing and losing the lock.
LEMMA LeaseLocking ==
    ASSUME LeaseInv, IInv', LeasesLapse = FALSE,
           \/ \E r \in Requests : VerifyLock(r) \/ VerifyRelease(r)
           \/ \E p \in Payments : LockExpires(p)
    PROVE  LeaseInv'
<1> TypeOK
  BY DEF LeaseInv, IInv
<1>1. ASSUME NEW r \in Requests, VerifyLock(r)
      PROVE  LeaseInv'
  <2>1. JobInv(r) /\ req[r].payment \in Payments
    BY <1>1 DEF LeaseInv, IInv, JobInv, VerifyLock, VerifyPCs
  <2>2. CASE Return(r) /\ UNCHANGED verifyLock
    BY <1>1, <2>2, ReturnCall, LeaseKept DEF VerifyLock, OwnerInv, LockedPCs, AskedPCs
  <2>3. CASE Locks!SetNX(req[r].payment, r) /\ Goto(r, "verify_reread")
    <3>1. /\ \A q \in Requests : q # r => req'[q] = req[q]
          /\ req'[r].pc = "verify_reread"
          /\ req'[r].payment = req[r].payment
      BY <2>3, GotoCall DEF PCs, LockedPCs
    <3>2. /\ verifyLock[req[r].payment] = {}
          /\ verifyLock' = [verifyLock EXCEPT ![req[r].payment] = {r}]
      BY <2>3 DEF Locks!SetNX
    <3>3. \A q \in Requests : OwnerInv(q)'
      BY <1>1, <2>1, <3>1, <3>2 DEF LeaseInv, OwnerInv, VerifyLock, TypeOK, AskedPCs
    <3>4. \A p \in Payments : \A a, b \in verifyLock'[p] : a = b
      BY <2>1, <3>2 DEF LeaseInv, TypeOK
    <3>5. QED
      BY <3>3, <3>4 DEF LeaseInv
  <2>4. QED
    BY <1>1, <2>2, <2>3 DEF VerifyLock
<1>2. ASSUME NEW r \in Requests, VerifyRelease(r)
      PROVE  LeaseInv'
  <2>1. /\ req[r].payment \in Payments
        /\ verifyLock' = [verifyLock EXCEPT ![req[r].payment] = @ \ {r}]
    BY <1>2 DEF LeaseInv, IInv, JobInv, VerifyRelease, Locks!DelIfOwner, VerifyPCs, AskedPCs, LockedPCs
  <2>2. /\ \A q \in Requests : q # r => req'[q] = req[q]
        /\ req'[r].pc = "idle"
    BY <1>2, ReturnCall DEF VerifyRelease
  <2>3. \A q \in Requests \ {r} : req[q].pc \in LockedPCs => q \in verifyLock'[req[q].payment]
    BY <2>1 DEF LeaseInv, IInv, OwnerInv, JobInv, VerifyPCs, TypeOK
  <2>4. \A q \in Requests : OwnerInv(q)'
    BY <1>2, <2>2, <2>3 DEF LeaseInv, OwnerInv, VerifyRelease, LockedPCs, AskedPCs
  <2>5. \A p \in Payments : \A a, b \in verifyLock'[p] : a = b
    BY <2>1 DEF LeaseInv, TypeOK
  <2>6. QED
    BY <2>4, <2>5 DEF LeaseInv
<1>3. ASSUME NEW p \in Payments, LockExpires(p)
      PROVE  LeaseInv'
  <2>1. \A q \in Requests : req[q].pc \in LockedPCs => req[q].payment # p
    BY <1>3 DEF LockExpires, Locks!Expire, Verifying, LeaseInv, OwnerInv
  <2>2. \A q \in Requests : OwnerInv(q)'
    BY <1>3, <2>1 DEF LockExpires, Locks!Expire, LeaseInv, IInv, OwnerInv, JobInv, VerifyPCs,
                      TypeOK
  <2>3. \A h \in Payments : \A a, b \in verifyLock'[h] : a = b
    BY <1>3 DEF LockExpires, Locks!Expire, LeaseInv, TypeOK
  <2>4. QED
    BY <2>2, <2>3 DEF LeaseInv
<1>4. QED
  BY <1>1, <1>2, <1>3

LEMMA NextLeaseInv ==
    ASSUME LeasesLapse = FALSE
    PROVE  LeaseInv /\ [Next]_vars => LeaseInv'
<1> SUFFICES ASSUME LeaseInv, [Next]_vars PROVE LeaseInv'
  OBVIOUS
<1>1. IInv'
  BY NextIInv DEF LeaseInv
<1>2. ASSUME NEW r \in Requests, Step(r)
      PROVE  LeaseInv'
  BY <1>1, <1>2, LeaseBuying, LeaseVerifying, LeaseLocking DEF Step
<1>3. ASSUME NEW r \in Requests,
             \/ \E x \in Offers : BuyRead(r, x)
             \/ \E p \in Payments : VerifyFind(r, p)
      PROVE  LeaseInv'
  BY <1>1, <1>3, LeaseBuying
<1>4. CASE \E p \in Payments : LockExpires(p)
  BY <1>1, <1>4, LeaseLocking
<1>5. CASE UNCHANGED <<req, verifyLock, payment>>
  BY <1>1, <1>5, LeaseUntouched
<1>6. QED
  BY <1>2, <1>3, <1>4, <1>5 DEF Next, Capture, CancelSubscription, EndReached, JobStep,
     SetSubscriberStatus, ExpiryCheck, ExpiryEnqueue, ExpiryStops, NewDay, RenewRead,
     RenewWrite, RenewFails, vars

LEMMA LeaseInductive ==
    ASSUME LeasesLapse = FALSE
    PROVE  Spec => []LeaseInv
<1>1. Init => LeaseInv
  BY InitIInv DEF Init, LeaseInv, OwnerInv, Idle, LockedPCs, AskedPCs
<1>2. QED
  BY <1>1, NextLeaseInv, PTL DEF Spec

\* A request writes the status of the payment that it verifies, and of none
\* that is SUCCESS already.
LEMMA StatusWritten ==
    ASSUME LeaseInv, NEW r \in Requests, VerifyRefuse(r) \/ VerifyCommit(r)
    PROVE  /\ req[r].payment \in Payments
           /\ payment[req[r].payment].status # "SUCCESS"
           /\ \/ payment' = payment
              \/ \E status \in PaymentStatuses : SetStatus(r, status)
<1>1. JobInv(r) /\ OwnerInv(r) /\ req[r].pc \in AskedPCs
  BY DEF LeaseInv, IInv, VerifyRefuse, VerifyCommit, AskedPCs, LockedPCs
<1>2. req[r].payment \in Payments /\ payment[req[r].payment].status # "SUCCESS"
  BY <1>1 DEF JobInv, OwnerInv, VerifyPCs, AskedPCs
<1>3. payment' = payment \/ \E status \in PaymentStatuses : SetStatus(r, status)
  BY DEF VerifyRefuse, VerifyCommit, PaymentStatuses
<1>4. QED
  BY <1>2, <1>3

\* While no verify outlives its lease, SUCCESS is final for a payment, attached
\* or not, ...
THEOREM PaidForGood ==
    ASSUME LeasesLapse = FALSE
    PROVE  Spec => PaidStaysPaid
<1>1. LeaseInv /\ [Next]_vars
      => [\A p \in Payments :
             payment[p].status = "SUCCESS" => payment'[p].status = "SUCCESS"]_vars
  <2> SUFFICES ASSUME LeaseInv, [Next]_vars, NEW p \in Payments, payment[p].status = "SUCCESS"
               PROVE  payment'[p].status = "SUCCESS"
    OBVIOUS
  <2>1. TypeOK
    BY DEF LeaseInv, IInv
  <2>2. ASSUME NEW r \in Requests, BuyWrite(r)
        PROVE  payment'[p].status = "SUCCESS"
    BY <2>1, <2>2, WriteSettlesNothing
  <2>3. ASSUME NEW r \in Requests, VerifyRefuse(r) \/ VerifyCommit(r)
        PROVE  payment'[p].status = "SUCCESS"
    BY <2>1, <2>3, StatusWritten DEF SetStatus, TypeOK
  <2>4. CASE UNCHANGED payment
    BY <2>4
  <2>5. ASSUME NEW r \in Requests, Step(r)
        PROVE  payment'[p].status = "SUCCESS"
    BY <2>2, <2>3, <2>4, <2>5 DEF Step, BuyPending, BuyCreate, BuyRecheck, BuyPayment,
       BuyOpen, VerifyLock, VerifyReread, VerifyAsk, VerifyCheck, VerifyRelease, Throw, Die
  <2>6. CASE UNCHANGED vars
    BY <2>4, <2>6 DEF vars
  <2>7. CASE Next
    BY <2>4, <2>5, <2>7 DEF Next, BuyRead, VerifyFind, Capture, LockExpires,
       CancelSubscription, EndReached, JobStep, SetSubscriberStatus, ExpiryCheck,
       ExpiryEnqueue, ExpiryStops, NewDay, RenewRead, RenewWrite, RenewFails
  <2>8. QED
    BY <2>6, <2>7
<1>2. QED
  BY <1>1, LeaseInductive, PTL DEF Spec, PaidStaysPaid

\* What a commit writes: its payment becomes SUCCESS, and the grant that the
\* payment is attached to, if any, becomes ACTIVE with the money captured for
\* that payment.
LEMMA CommitWrites ==
    ASSUME LeaseInv, NEW r \in Requests, VerifyCommit(r), ~UNCHANGED <<payment, grant>>
    PROVE  \E p \in Payments :
              /\ payment[p].status # "SUCCESS" /\ payment'[p].status = "SUCCESS"
              /\ \A q \in Payments : q # p => payment'[q] = payment[q]
              /\ \/ UNCHANGED grant
                 \/ \E g \in Grants :
                       /\ payment[p].grant = g
                       /\ grant[g].status # "ABSENT"
                       /\ p \in Captured
                       /\ \A h \in Grants : h # g => grant'[h] = grant[h]
                       /\ grant'[g].status = "ACTIVE"
                       /\ grant'[g].offer = grant[g].offer
<1> DEFINE p == req[r].payment
<1>1. TypeOK /\ JobInv(r) /\ req[r].pc = "verify_commit" /\ RowsInv
  BY DEF LeaseInv, IInv, VerifyCommit
<1>2. p \in Payments /\ payment[p].status # "SUCCESS"
  BY StatusWritten
<1>3. SetStatus(r, "SUCCESS")
  BY DEF VerifyCommit
<1>4. /\ payment'[p].status = "SUCCESS"
      /\ \A q \in Payments : q # p => payment'[q] = payment[q]
  BY <1>1, <1>2, <1>3 DEF SetStatus, TypeOK, Row
<1>5. CASE UNCHANGED grant
  BY <1>2, <1>4, <1>5
<1>6. CASE payment[p].grant # None /\ Activate(payment[p].grant)
  <2>1. PICK g \in Grants : payment[p].grant = g
    BY <1>1, <1>2, <1>6 DEF TypeOK, Row
  <2>2. g # None /\ req[r].grant = g /\ grant[g].status # "ABSENT"
    BY <1>1, <1>2, <1>6, <2>1 DEF JobInv, AskedPCs, LockedPCs, RowsInv
  <2>3. p \in Captured
    BY <1>1, <1>2, <2>2 DEF JobInv, VerifyPCs, LockedPCs, Captured
  <2>4. grant' = [grant EXCEPT ![g].status = "ACTIVE", ![g].ended = FALSE]
    BY <1>6, <2>1 DEF Activate
  <2>5. /\ \A h \in Grants : h # g => grant'[h] = grant[h]
        /\ grant'[g].status = "ACTIVE"
        /\ grant'[g].offer = grant[g].offer
    BY <1>1, <2>4 DEF TypeOK, Grant
  <2>6. QED
    BY <1>2, <1>4, <2>1, <2>2, <2>3, <2>5
<1>7. QED
  BY <1>5, <1>6 DEF VerifyCommit

\* ... and a plan or a purchase becomes ACTIVE only in the step in which a
\* payment attached to it becomes SUCCESS: none starts twice on one payment.
THEOREM StartsOnce ==
    ASSUME LeasesLapse = FALSE
    PROVE  Spec => StartsWithItsPayment
<1> DEFINE Starts(g) == /\ grant[g].offer \notin SignalPlans
                        /\ grant[g].status # "ACTIVE"
                        /\ grant'[g].status = "ACTIVE"
           Settles(g) == \E p \in Payments :
                            /\ payment[p].grant = g
                            /\ payment[p].status # "SUCCESS"
                            /\ payment'[p].status = "SUCCESS"
<1>1. LeaseInv /\ [Next]_vars => [\A g \in Grants : Starts(g) => Settles(g)]_vars
  <2> SUFFICES ASSUME LeaseInv, [Next]_vars, NEW g \in Grants, Starts(g)
               PROVE  Settles(g)
    OBVIOUS
  <2>1. TypeOK
    BY DEF LeaseInv, IInv
  <2>2. ASSUME NEW r \in Requests, VerifyCommit(r)
        PROVE  Settles(g)
    BY <2>2, CommitWrites
  <2>3. ASSUME NEW r \in Requests, BuyCreate(r)
        PROVE  FALSE
    <3>1. PICK h \in Grants : grant' = [grant EXCEPT ![h] =
                [offer |-> req[r].offer, status |-> "PENDING",
                 autoRenew |-> req[r].offer \notin Strategies, ended |-> FALSE]]
      BY <2>3 DEF BuyCreate
    <3>2. QED
      BY <2>1, <3>1 DEF TypeOK
  <2>4. CASE UNCHANGED grant
    BY <2>4
  <2>5. ASSUME NEW r \in Requests, Step(r)
        PROVE  Settles(g)
    BY <2>2, <2>3, <2>4, <2>5 DEF Step, BuyPending, BuyRecheck, BuyPayment, BuyOpen, BuyWrite,
       VerifyLock, VerifyReread, VerifyAsk, VerifyCheck, VerifyRefuse, VerifyRelease,
       Throw, Die
  <2>6. ASSUME NEW h \in Grants,
               \/ CancelSubscription(h) \/ EndReached(h) \/ RenewWrite(h)
               \/ \E status \in HandStatuses : SetSubscriberStatus(h, status)
        PROVE  FALSE
    BY <2>1, <2>6 DEF CancelSubscription, EndReached, RenewWrite, SetSubscriberStatus,
       TypeOK, Grant
  <2>7. CASE Next
    BY <2>4, <2>5, <2>6, <2>7 DEF Next, BuyRead, VerifyFind, Capture, LockExpires,
       JobStep, ExpiryCheck, ExpiryEnqueue, ExpiryStops, NewDay, RenewRead, RenewFails
  <2>8. QED
    BY <2>4, <2>7 DEF vars
<1>2. QED
  BY <1>1, LeaseInductive, PTL DEF Spec, StartsWithItsPayment

-----------------------------------------------------------------------------
(* Refinement: what the ledger of access sees of a step.                    *)

SeesNothing == UNCHANGED <<SoldForGood, Captured, Paid, InForce>>

\* A step that opens a checkout session, or offers it, captures nothing.
LEMMA OpeningCaptures ==
    ASSUME IInv, NEW r \in Requests, BuyOpen(r) \/ BuyWrite(r)
    PROVE  SeesNothing
<1>1. TypeOK /\ JobInv(r)
  BY DEF IInv
<1>2. \A s \in Sessions :
         /\ session'[s].state = "paid" <=> session[s].state = "paid"
         /\ session'[s] = session[s] \/ session[s].state # "paid"
  <2>1. CASE BuyOpen(r) /\ session' # session
    <3>1. PICK s \in Sessions :
             /\ session[s].state = "unused"
             /\ session' = [session EXCEPT ![s].grant = req[r].grant,
                                           ![s].state = "opened"]
      BY <2>1 DEF BuyOpen
    <3>2. QED
      BY <1>1, <3>1 DEF TypeOK, CheckoutSession
  <2>2. CASE BuyWrite(r) /\ session' # session
    <3>1. req[r].session \in Sessions /\ session[req[r].session].state = "opened"
      BY <1>1, <2>2 DEF BuyWrite, JobInv
    <3>2. PICK p \in Payments : Offer(req[r].session, p)
      BY <1>1, <2>2 DEF BuyWrite, TypeOK, Call
    <3>3. QED
      BY <1>1, <3>1, <3>2 DEF Offer, TypeOK, CheckoutSession
  <2>3. QED
    BY <2>1, <2>2
<1>3. Captured' = Captured
  BY <1>2 DEF Captured
<1>4. \A p \in Payments : payment'[p].status = "SUCCESS" <=> payment[p].status = "SUCCESS"
  BY <1>1, WriteSettlesNothing DEF BuyOpen
<1>5. grant' = grant
  BY DEF BuyOpen, BuyWrite
<1>6. QED
  BY <1>3, <1>4, <1>5 DEF SeesNothing, SoldForGood, Paid, InForce

LEMMA CreateSells ==
    ASSUME IInv, NEW r \in Requests, BuyCreate(r)
    PROVE  Access!Next \/ SeesNothing
<1>1. TypeOK
  BY DEF IInv
<1>2. PICK g \in Grants :
         /\ grant[g].status = "ABSENT"
         /\ grant' = [grant EXCEPT ![g] =
               [offer |-> req[r].offer, status |-> "PENDING",
                autoRenew |-> req[r].offer \notin Strategies, ended |-> FALSE]]
  BY DEF BuyCreate
<1>3. /\ \A h \in Grants : h # g => grant'[h] = grant[h]
      /\ grant'[g].status = "PENDING"
      /\ payment' = payment /\ session' = session
  BY <1>1, <1>2 DEF TypeOK, BuyCreate
<1>4. UNCHANGED <<Captured, Paid, InForce>> /\ g \notin InForce
  BY <1>2, <1>3 DEF Captured, Paid, InForce
<1>5. SoldForGood' = SoldForGood \cup {g} \/ SoldForGood' = SoldForGood
  BY <1>2, <1>3 DEF SoldForGood
<1>6. QED
  BY <1>4, <1>5 DEF Access!Next, Access!SellForGood, SeesNothing

LEMMA CaptureFunds ==
    ASSUME IInv, NEW s \in Sessions, NEW state, Capture(s, state)
    PROVE  Access!Next \/ SeesNothing
<1>1. TypeOK
  BY DEF IInv
<1>2. /\ \A t \in Sessions : t # s => session'[t] = session[t]
      /\ session'[s].payment = session[s].payment
      /\ session'[s].state = state
      /\ session[s].state = "offered"
  BY <1>1 DEF Capture, TypeOK, CheckoutSession
<1>3. UNCHANGED <<SoldForGood, Paid, InForce>>
  BY DEF Capture, SoldForGood, Paid, InForce
<1>4. CASE state = "paid" /\ session[s].payment \in Payments
  <2>1. PICK p \in Payments : session[s].payment = p
    BY <1>4
  <2>2. Captured' = Captured \cup {p}
    BY <1>2, <1>4, <2>1 DEF Captured
  <2>3. QED
    BY <1>3, <2>2 DEF Access!Next, Access!Fund
<1>5. CASE state # "paid" \/ session[s].payment \notin Payments
  <2>1. Captured' = Captured
    BY <1>2, <1>5 DEF Captured
  <2>2. QED
    BY <1>3, <2>1 DEF SeesNothing
<1>6. QED
  BY <1>4, <1>5

LEMMA RefuseUnseen ==
    ASSUME LeaseInv, NEW r \in Requests, VerifyRefuse(r)
    PROVE  SeesNothing
<1>1. TypeOK /\ req[r].payment \in Payments /\ payment[req[r].payment].status # "SUCCESS"
  BY StatusWritten DEF LeaseInv, IInv
<1>2. PICK status \in {"FAILED", "FLAGGED"} : SetStatus(r, status)
  BY DEF VerifyRefuse
<1>3. \A p \in Payments : payment'[p].status = "SUCCESS" <=> payment[p].status = "SUCCESS"
  BY <1>1, <1>2 DEF SetStatus, TypeOK, Row
<1>4. UNCHANGED <<grant, session>>
  BY DEF VerifyRefuse
<1>5. QED
  BY <1>3, <1>4 DEF SeesNothing, SoldForGood, Captured, Paid, InForce

\* The access of a plan or a strategy starts with its payment; a payment of a
\* signal plan, or of nothing any more, only settles.
LEMMA CommitStarts ==
    ASSUME LeaseInv, NEW r \in Requests, VerifyCommit(r)
    PROVE  Access!Next \/ SeesNothing
<1>1. Captured' = Captured
  BY DEF VerifyCommit, Captured
<1>2. CASE UNCHANGED <<payment, grant>>
  BY <1>1, <1>2 DEF SeesNothing, SoldForGood, Paid, InForce
<1>3. CASE ~UNCHANGED <<payment, grant>>
  <2>1. PICK p \in Payments :
           /\ payment[p].status # "SUCCESS" /\ payment'[p].status = "SUCCESS"
           /\ \A q \in Payments : q # p => payment'[q] = payment[q]
           /\ \/ UNCHANGED grant
              \/ \E g \in Grants :
                    /\ payment[p].grant = g
                    /\ grant[g].status # "ABSENT"
                    /\ p \in Captured
                    /\ \A h \in Grants : h # g => grant'[h] = grant[h]
                    /\ grant'[g].status = "ACTIVE"
                    /\ grant'[g].offer = grant[g].offer
    BY <1>3, CommitWrites
  <2>2. Paid' = Paid \cup {p} /\ p \notin Paid
    BY <2>1 DEF Paid
  <2>3. CASE UNCHANGED grant
    <3>1. SoldForGood' = SoldForGood /\ InForce' = InForce
      BY <2>3 DEF SoldForGood, InForce
    <3>2. QED
      BY <1>1, <2>2, <3>1 DEF Access!Next, Access!Settle
  <2>4. ASSUME NEW g \in Grants,
               grant[g].status # "ABSENT",
               p \in Captured,
               \A h \in Grants : h # g => grant'[h] = grant[h],
               grant'[g].status = "ACTIVE",
               grant'[g].offer = grant[g].offer
        PROVE  Access!Next
    <3>1. SoldForGood' = SoldForGood
      BY <2>4 DEF SoldForGood
    <3>2. CASE grant[g].offer \in SignalPlans
      <4>1. InForce' = InForce
        BY <2>4, <3>2 DEF InForce
      <4>2. QED
        BY <1>1, <2>2, <3>1, <4>1 DEF Access!Next, Access!Settle
    <3>3. CASE grant[g].offer \notin SignalPlans
      <4>1. InForce' = InForce \cup {g}
        BY <2>4, <3>3 DEF InForce
      <4>2. QED
        BY <1>1, <2>2, <2>4, <3>1, <4>1 DEF Access!Next, Access!Start
    <3>4. QED
      BY <3>2, <3>3
  <2>5. QED
    BY <2>1, <2>3, <2>4
<1>4. QED
  BY <1>2, <1>3

LEMMA PlansEnd ==
    ASSUME IInv, NEW g \in Grants,
           \/ CancelSubscription(g) \/ EndReached(g) \/ RenewWrite(g)
           \/ \E status \in HandStatuses : SetSubscriberStatus(g, status)
    PROVE  Access!Next \/ SeesNothing
<1>1. /\ TypeOK
      /\ payment' = payment /\ session' = session
      /\ g \in renewing => grant[g].offer \in PlatformPlans /\ grant[g].status # "ABSENT"
  BY DEF IInv, RenewingInv, CancelSubscription, EndReached, RenewWrite, SetSubscriberStatus
<1>2. /\ \A h \in Grants : h # g => grant'[h] = grant[h]
      /\ grant'[g].offer = grant[g].offer
      /\ grant[g].offer \notin Strategies
      /\ \/ grant[g].offer \in SignalPlans
         \/ grant'[g].status = grant[g].status
         \/ grant'[g].status \in {"CANCELLED", "EXPIRED"}
  BY <1>1, OffersAssumption
     DEF CancelSubscription, EndReached, RenewWrite, SetSubscriberStatus, TypeOK, Grant
<1>3. UNCHANGED <<SoldForGood, Captured, Paid>> /\ g \notin SoldForGood
  BY <1>1, <1>2 DEF SoldForGood, Captured, Paid
<1>4. InForce' = InForce \/ InForce' = InForce \ {g}
  BY <1>2 DEF InForce
<1>5. QED
  BY <1>3, <1>4 DEF Access!Next, Access!End, SeesNothing

\* While no verify outlives its lease, buying implements the ledger of access
\* for any number of offers, grants, payments, sessions and requests: access
\* starts once for a payment and the money captured for it, again only with
\* another payment and its own money, and what is sold for good does not end.
THEOREM RefinesAccess ==
    ASSUME LeasesLapse = FALSE
    PROVE  Spec => ImplementsAccess
<1>1. Init => Access!Init
  <2> SUFFICES ASSUME Init PROVE Access!Init
    OBVIOUS
  <2>1. SoldForGood = {} /\ Paid = {} /\ InForce = {}
    BY DEF Init, SoldForGood, Paid, InForce, NoGrant, NoPayment
  <2>2. Captured = {}
    BY DEF Init, Captured, NoSession
  <2>3. QED
    BY <2>1, <2>2 DEF Access!Init
<1>2. LeaseInv /\ [Next]_vars => [Access!Next]_(Access!vars)
  <2> SUFFICES ASSUME LeaseInv, [Next]_vars PROVE Access!Next \/ SeesNothing
    BY DEF Access!vars, SeesNothing
  <2>1. IInv
    BY DEF LeaseInv
  <2>2. CASE UNCHANGED <<grant, payment, session>>
    BY <2>2 DEF SeesNothing, SoldForGood, Captured, Paid, InForce
  <2>3. ASSUME NEW r \in Requests, Step(r)
        PROVE  Access!Next \/ SeesNothing
    BY <2>1, <2>2, <2>3, OpeningCaptures, CreateSells, RefuseUnseen, CommitStarts
       DEF Step, BuyPending, BuyRecheck, BuyPayment, VerifyLock, VerifyReread, VerifyAsk,
           VerifyCheck, VerifyRelease, Throw, Die
  <2>4. ASSUME NEW s \in Sessions, NEW state \in SessionStates, Capture(s, state)
        PROVE  Access!Next \/ SeesNothing
    BY <2>1, <2>4, CaptureFunds
  <2>5. ASSUME NEW g \in Grants,
               \/ CancelSubscription(g) \/ EndReached(g) \/ RenewWrite(g)
               \/ \E status \in HandStatuses : SetSubscriberStatus(g, status)
        PROVE  Access!Next \/ SeesNothing
    BY <2>1, <2>5, PlansEnd
  <2>6. CASE UNCHANGED vars
    BY <2>2, <2>6 DEF vars
  <2>7. CASE Next
    BY <2>2, <2>3, <2>4, <2>5, <2>7 DEF Next, BuyRead, VerifyFind, LockExpires, JobStep,
       ExpiryCheck, ExpiryEnqueue, ExpiryStops, NewDay, RenewRead, RenewFails
  <2>8. QED
    BY <2>6, <2>7
<1>3. QED
  BY <1>1, <1>2, LeaseInductive, PTL DEF Spec, Access!Spec, ImplementsAccess

-----------------------------------------------------------------------------
(* Refinement: verification uses its Redis key as withLock does.            *)

\* A step in which no request enters or leaves a body changes no one's lock.
LEMMA SameWork ==
    ASSUME UNCHANGED verifyLock,
           \A q \in Requests :
              \/ UNCHANGED req[q]
              \/ req[q].pc \notin LockedPCs /\ req'[q].pc \notin LockedPCs
              \/ /\ req[q].pc \in LockedPCs /\ req'[q].pc \in LockedPCs
                 /\ req'[q].payment = req[q].payment
    PROVE  UNCHANGED Locks!vars
<1>1. Verifying' = Verifying
  BY DEF Verifying
<1>2. QED
  BY <1>1 DEF Locks!vars

\* Entering the body is Acquire, a refusal is no step at all.
LEMMA EnterWork ==
    ASSUME IInv, NEW r \in Requests, VerifyLock(r)
    PROVE  Locks!Next \/ UNCHANGED Locks!vars
<1> DEFINE p == req[r].payment
<1>1. TypeOK /\ p \in Payments /\ req[r].pc = "verify_lock"
  BY DEF IInv, JobInv, VerifyLock, VerifyPCs
<1>2. CASE Locks!SetNX(p, r) /\ Goto(r, "verify_reread")
  <2>1. /\ \A q \in Requests : q # r => req'[q] = req[q]
        /\ req'[r].pc = "verify_reread"
        /\ req'[r].payment = p
    BY <1>1, <1>2, GotoCall DEF PCs, LockedPCs
  <2>2. /\ Verifying' = [Verifying EXCEPT ![p] = @ \cup {r}]
        /\ r \notin Verifying[p]
    BY <1>1, <2>1 DEF Verifying, LockedPCs
  <2>3. Locks!Acquire(p, r)
    BY <1>2, <2>2 DEF Locks!Acquire
  <2>4. QED
    BY <1>1, <2>3 DEF Locks!Next
<1>3. CASE Return(r) /\ UNCHANGED verifyLock
  <2>1. \A q \in Requests : req'[q] = req[q] \/ (q = r /\ req'[q].pc \notin LockedPCs)
    BY <1>1, <1>3, ReturnCall DEF LockedPCs
  <2>2. QED
    BY <1>1, <1>3, <2>1, SameWork DEF LockedPCs
<1>4. QED
  BY <1>2, <1>3 DEF VerifyLock

\* Leaving the body is Release, or Die when the process ends.
LEMMA LeaveWork ==
    ASSUME IInv, NEW r \in Requests, req[r].pc \in LockedPCs,
           VerifyRelease(r) \/ Die(r)
    PROVE  Locks!Next
<1> DEFINE p == req[r].payment
<1>1. TypeOK /\ p \in Payments
  BY DEF IInv, JobInv, VerifyPCs
<1>2. /\ \A q \in Requests : q # r => req'[q] = req[q]
      /\ req'[r].pc = "idle"
  BY <1>1, ReturnCall DEF VerifyRelease, Die
<1>3. /\ Verifying' = [Verifying EXCEPT ![p] = @ \ {r}]
      /\ r \in Verifying[p]
  BY <1>1, <1>2 DEF Verifying, LockedPCs
<1>4. Locks!Release(p, r) \/ Locks!Die(p, r)
  BY <1>3 DEF Locks!Release, Locks!Die, VerifyRelease, Die
<1>5. QED
  BY <1>1, <1>4 DEF Locks!Next

LEMMA LockStart == Init => Locks!Init
  BY DEF Init, Idle, Locks!Init, Verifying, LockedPCs

LEMMA LockStep == IInv /\ [Next]_vars => [Locks!Next]_(Locks!vars)
<1> SUFFICES ASSUME IInv, [Next]_vars
             PROVE  Locks!Next \/ UNCHANGED Locks!vars
  OBVIOUS
<1> TypeOK
  BY DEF IInv
<1>1. ASSUME NEW r \in Requests,
             \/ \E x \in Offers : BuyRead(r, x)
             \/ BuyPending(r) \/ BuyCreate(r) \/ BuyRecheck(r) \/ BuyPayment(r)
             \/ BuyOpen(r) \/ BuyWrite(r)
             \/ \E p \in Payments : VerifyFind(r, p)
             \/ (req[r].pc \notin LockedPCs /\ Die(r))
      PROVE  UNCHANGED Locks!vars
  <2>1. req[r].pc \notin LockedPCs
    <3>1. CASE (\E x \in Offers : BuyRead(r, x)) \/ (\E p \in Payments : VerifyFind(r, p))
      <4>1. req[r] = Idle
        BY <3>1 DEF BuyRead, VerifyFind, Begin
      <4>2. QED
        BY <4>1 DEF Idle, LockedPCs
    <3>2. QED
      BY <1>1, <3>1 DEF BuyPending, BuyCreate, BuyRecheck, BuyPayment, BuyOpen, BuyWrite,
         LockedPCs
  <2>2. /\ UNCHANGED verifyLock
        /\ \A q \in Requests : q # r => req'[q] = req[q]
        /\ req'[r].pc \notin LockedPCs
    BY <1>1, OutsideCall
  <2>3. QED
    BY <2>1, <2>2, SameWork
<1>2. ASSUME NEW r \in Requests,
             \/ VerifyReread(r) \/ VerifyAsk(r) \/ VerifyCheck(r) \/ VerifyRefuse(r)
             \/ VerifyCommit(r) \/ Throw(r)
      PROVE  UNCHANGED Locks!vars
  <2>1. /\ req[r].pc \in LockedPCs
        /\ UNCHANGED verifyLock
        /\ TypeOK /\ req[r].payment \in Payments
        /\ \E pc \in LockedPCs : Goto(r, pc) \/ Reread(r, pc)
    BY <1>2 DEF IInv, JobInv, VerifyPCs, VerifyReread, VerifyAsk, VerifyCheck,
                VerifyRefuse, VerifyCommit, Throw, LockedPCs
  <2>2. /\ \A q \in Requests : q # r => req'[q] = req[q]
        /\ req'[r].pc \in LockedPCs
        /\ req'[r].payment = req[r].payment
    <3>1. PICK pc \in LockedPCs : Goto(r, pc) \/ Reread(r, pc)
      BY <2>1
    <3>2. pc \in PCs
      BY DEF PCs
    <3>3. CASE Goto(r, pc)
      BY <2>1, <3>2, <3>3, GotoCall
    <3>4. CASE Reread(r, pc)
      BY <2>1, <3>2, <3>4, RereadCall
    <3>5. QED
      BY <3>1, <3>3, <3>4
  <2>3. QED
    BY <2>1, <2>2, SameWork
<1>3. ASSUME NEW r \in Requests, Step(r)
      PROVE  Locks!Next \/ UNCHANGED Locks!vars
  <2>1. CASE VerifyRelease(r)
    BY <2>1, LeaveWork DEF VerifyRelease, LockedPCs
  <2>2. CASE Die(r)
    BY <1>1, <2>2, LeaveWork
  <2>3. QED
    BY <1>1, <1>2, <1>3, <2>1, <2>2, EnterWork DEF Step
<1>4. ASSUME NEW p \in Payments, LockExpires(p)
      PROVE  Locks!Next
  BY <1>4 DEF LockExpires, Locks!Next
<1>5. CASE UNCHANGED <<req, verifyLock>>
  BY <1>5, SameWork
<1>6. QED
  BY <1>1, <1>3, <1>4, <1>5 DEF Next, Capture, CancelSubscription, EndReached, JobStep,
     SetSubscriberStatus, ExpiryCheck, ExpiryEnqueue, ExpiryStops, NewDay, RenewRead,
     RenewWrite, RenewFails, vars

\* Whether or not leases lapse, no verification of a payment takes a held key,
\* or frees a key that another one acquired after a lapse.
THEOREM RefinesLock == Spec => ImplementsLock
  BY LockStart, LockStep, Inductive, PTL DEF Spec, Locks!Spec, ImplementsLock

\* While no verify outlives its lease, one request at a time verifies one
\* payment.
THEOREM VerifiesAlone ==
    ASSUME LeasesLapse = FALSE
    PROVE  Spec => []VerifiesExclude
<1>1. LeaseInv => VerifiesExclude
  BY DEF LeaseInv, OwnerInv, VerifiesExclude, Locks!MutualExclusion, Verifying
<1>2. QED
  BY <1>1, LeaseInductive, PTL
=============================================================================
