---------------------------- MODULE Entitlements ----------------------------
(***************************************************************************)
(* Buying access: a trading strategy (for good), a platform plan or a plan *)
(* of trading signals (for a time). The same payments.service.ts opens and *)
(* verifies their payments, and one transaction grants the access; clients *)
(* cancel, administrators write a status by hand, and two background jobs  *)
(* end a platform plan.                                                    *)
(*                                                                         *)
(* The rows are those of one customer: no query or index relates two. The  *)
(* word grant stands for a row of strategy_purchases, subscriptions or     *)
(* signal_subscriptions. Clocks are left out: a plan's end comes at any    *)
(* time after it starts.                                                   *)
(***************************************************************************)

CONSTANTS
    Strategies,
    PlatformPlans,
    SignalPlans,
    Grants,       \* grant rows that may be created (a bound)
    Payments,     \* payment rows that may be created (a bound)
    Sessions,     \* gateway checkout sessions that may be opened (a bound)
    Requests,     \* handler invocations in progress at once (a bound)
    HandStatuses, \* statuses that administrators write to a signal plan (a bound)
    LeasesLapse,  \* TRUE: a verify may run past the 15 s of its Redis lock
    None

Offers == Strategies \cup PlatformPlans \cup SignalPlans

GrantStatuses ==
    {"ABSENT", "PENDING", "ACTIVE", "EXPIRED", "SUSPENDED", "CANCELLED"}

ASSUME OffersAssumption ==
    /\ Strategies \cap (PlatformPlans \cup SignalPlans) = {}
    /\ PlatformPlans \cap SignalPlans = {}
ASSUME NoneAssumption == None \notin Offers \cup Grants \cup Payments \cup Sessions
ASSUME HandStatusesAssumption == HandStatuses \subseteq GrantStatuses \ {"ABSENT"}
ASSUME LeasesLapseAssumption == LeasesLapse \in BOOLEAN

VARIABLES
    grant,      \* grant[g]: what it is for, its status, auto_renew, is it over
    payment,    \* payment[p]: the grant it points at, its status, its session
    session,    \* session[s]: a checkout session, the grant that set its price
                \* and, once its address is handed out, the payment it is for
    verifyLock, \* the Redis keys payment:verify:<id>
    req,        \* req[r]: the handler r runs and its local variables
    found,      \* plans that the running expiry check has still to enqueue
    queued,     \* plans with a renewal job that waits
    enqueued,   \* plans whose renewal job id of today is taken
    renewing    \* plans that a renewal job has read as due

jobVars == <<found, queued, enqueued, renewing>>

vars == <<grant, payment, session, verifyLock, req, jobVars>>

-----------------------------------------------------------------------------
PaymentStatuses == {"ABSENT", "PENDING", "SUCCESS", "FAILED", "FLAGGED"}

SessionStates == {"unused", "opened", "offered", "paid", "mispaid"}

\* The awaits inside the body that withLock runs, its release included.
LockedPCs == {"verify_reread", "verify_ask", "verify_check", "verify_fail",
              "verify_flag", "verify_commit", "verify_release"}

BuyPCs == {"buy_pending", "buy_create", "buy_recheck", "buy_payment",
           "buy_open", "buy_write"}

PCs == {"idle", "verify_lock"} \cup BuyPCs \cup LockedPCs

Idle == [pc |-> "idle", offer |-> None, grant |-> None, payment |-> None,
         session |-> None]

NoGrant == [offer |-> None, status |-> "ABSENT", autoRenew |-> FALSE,
            ended |-> FALSE]

NoPayment == [grant |-> None, status |-> "ABSENT", ref |-> None]

NoSession == [grant |-> None, payment |-> None, state |-> "unused"]

Verifying == [p \in Payments |->
                 {r \in Requests : req[r].pc \in LockedPCs /\ req[r].payment = p}]

Locks == INSTANCE LeaseLock
    WITH Keys <- Payments, Holders <- Requests, lock <- verifyLock,
         working <- Verifying

Grant == [offer: Offers \cup {None}, status: GrantStatuses,
          autoRenew: BOOLEAN, ended: BOOLEAN]

Row == [grant: Grants \cup {None}, status: PaymentStatuses,
        ref: Sessions \cup {None}]

CheckoutSession == [grant: Grants \cup {None}, payment: Payments \cup {None},
                    state: SessionStates]

Call == [pc: PCs, offer: Offers \cup {None}, grant: Grants \cup {None},
         payment: Payments \cup {None}, session: Sessions \cup {None}]

TypeOK ==
    /\ grant \in [Grants -> Grant]
    /\ payment \in [Payments -> Row]
    /\ session \in [Sessions -> CheckoutSession]
    /\ verifyLock \in [Payments -> SUBSET Requests]
    /\ req \in [Requests -> Call]
    /\ found \subseteq Grants
    /\ queued \subseteq Grants
    /\ enqueued \subseteq Grants
    /\ renewing \subseteq Grants

Init ==
    /\ grant = [g \in Grants |-> NoGrant]
    /\ payment = [p \in Payments |-> NoPayment]
    /\ session = [s \in Sessions |-> NoSession]
    /\ verifyLock = [p \in Payments |-> {}]
    /\ req = [r \in Requests |-> Idle]
    /\ found = {}
    /\ queued = {}
    /\ enqueued = {}
    /\ renewing = {}

Begin(r, job) == req[r] = Idle /\ req' = [req EXCEPT ![r] = job]

Goto(r, pc) == req' = [req EXCEPT ![r].pc = pc]

Return(r) == req' = [req EXCEPT ![r] = Idle]

-----------------------------------------------------------------------------
(* strategies.purchase, payments.subscriptions.create, signals.subscribe *)

\* The offers of which one may be active at a time, as the handlers ask it.
Rivals(x) ==
    CASE x \in Strategies    -> {x}
      [] x \in PlatformPlans -> PlatformPlans
      [] OTHER               -> SignalPlans

GrantsOf(offers, status) ==
    {g \in Grants : grant[g].offer \in offers /\ grant[g].status = status}

\* Whoever has an active grant is refused.
BuyRead(r, x) ==
    /\ GrantsOf(Rivals(x), "ACTIVE") = {}
    /\ Begin(r, [Idle EXCEPT !.pc = "buy_pending", !.offer = x])
    /\ UNCHANGED <<grant, payment, session, verifyLock, jobVars>>

\* A plan of the platform goes straight to its payment; the others are read
\* once more by initiateForStrategyPurchase or initiateForSignalSubscription.
Chosen(r, g) ==
    req' = [req EXCEPT ![r].grant = g,
                       ![r].pc = IF req[r].offer \in PlatformPlans
                                 THEN "buy_payment" ELSE "buy_recheck"]

\* Take up an unpaid grant rather than add another.
BuyPending(r) ==
    /\ req[r].pc = "buy_pending"
    /\ LET pending == GrantsOf({req[r].offer}, "PENDING")
       IN  \/ \E g \in pending : Chosen(r, g)
           \/ pending = {} /\ Goto(r, "buy_create")
    /\ UNCHANGED <<grant, payment, session, verifyLock, jobVars>>

BuyCreate(r) ==
    /\ req[r].pc = "buy_create"
    /\ \E g \in Grants :
          /\ grant[g].status = "ABSENT"
          /\ grant' = [grant EXCEPT ![g] =
                [offer |-> req[r].offer, status |-> "PENDING",
                 autoRenew |-> req[r].offer \notin Strategies, ended |-> FALSE]]
          /\ Chosen(r, g)
    /\ UNCHANGED <<payment, session, verifyLock, jobVars>>

BuyRecheck(r) ==
    /\ req[r].pc = "buy_recheck"
    /\ IF grant[req[r].grant].status = "PENDING"
       THEN Goto(r, "buy_payment") ELSE Return(r)
    /\ UNCHANGED <<grant, payment, session, verifyLock, jobVars>>

\* Only a PENDING payment is reused; for any other a new row is to be created.
BuyPayment(r) ==
    /\ req[r].pc = "buy_payment"
    /\ LET reusable == {p \in Payments : /\ payment[p].grant = req[r].grant
                                        /\ payment[p].status = "PENDING"}
       IN  \/ \E p \in reusable :
                 req' = [req EXCEPT ![r].pc = "buy_open", ![r].payment = p]
           \/ reusable = {} /\ Goto(r, "buy_open")
    /\ UNCHANGED <<grant, payment, session, verifyLock, jobVars>>

BuyOpen(r) ==
    /\ req[r].pc = "buy_open"
    /\ \/ \E s \in Sessions :
             /\ session[s].state = "unused"
             /\ session' = [session EXCEPT ![s].grant = req[r].grant,
                                           ![s].state = "opened"]
             /\ req' = [req EXCEPT ![r].pc = "buy_write", ![r].session = s]
       \/ Return(r) /\ UNCHANGED session
    /\ UNCHANGED <<grant, payment, verifyLock, jobVars>>

\* The nested connect of an optional one-to-one relation: the row that pointed
\* at the grant, whatever its status, points at nothing from now on.
Replace(p, g, s) ==
    payment' = [q \in Payments |->
                   IF q = p THEN [grant |-> g, status |-> "PENDING", ref |-> s]
                   ELSE IF payment[q].grant = g
                        THEN [payment[q] EXCEPT !.grant = None]
                        ELSE payment[q]]

Offer(s, p) ==
    session' = [session EXCEPT ![s].payment = p, ![s].state = "offered"]

\* The write may fail, the creation also on the unique column when another one
\* for the same grant commits first.
BuyWrite(r) ==
    /\ req[r].pc = "buy_write"
    /\ LET reused == req[r].payment
           s == req[r].session
       IN  \/ /\ reused # None
              /\ payment' = [payment EXCEPT ![reused].ref = s]
              /\ Offer(s, reused)
           \/ /\ reused = None
              /\ \E p \in Payments : /\ payment[p].status = "ABSENT"
                                     /\ Replace(p, req[r].grant, s)
                                     /\ Offer(s, p)
           \/ UNCHANGED <<payment, session>>
    /\ Return(r)
    /\ UNCHANGED <<grant, verifyLock, jobVars>>

Capture(s, state) ==
    /\ session[s].state = "offered"
    /\ state \in {"paid", "mispaid"}
    /\ session' = [session EXCEPT ![s].state = state]
    /\ UNCHANGED <<grant, payment, verifyLock, req, jobVars>>

-----------------------------------------------------------------------------
(* payments.verify, for a payment of a grant *)

VerifyFind(r, p) ==
    /\ payment[p].status \notin {"ABSENT", "SUCCESS"}
    /\ Begin(r, [Idle EXCEPT !.pc = "verify_lock", !.payment = p,
                             !.session = payment[p].ref])
    /\ UNCHANGED <<grant, payment, session, verifyLock, jobVars>>

VerifyLock(r) ==
    /\ req[r].pc = "verify_lock"
    /\ \/ Locks!SetNX(req[r].payment, r) /\ Goto(r, "verify_reread")
       \/ verifyLock[req[r].payment] # {} /\ Return(r) /\ UNCHANGED verifyLock
    /\ UNCHANGED <<grant, payment, session, jobVars>>

\* What the request goes on with: the payment's grant, if it has one.
Reread(r, pc) ==
    req' = [req EXCEPT ![r].pc = pc, ![r].grant = payment[req[r].payment].grant]

\* Faulty variant: trust the status read before the lock.
VerifyTrusts(r) ==
    /\ req[r].pc = "verify_reread"
    /\ Reread(r, "verify_ask")
    /\ UNCHANGED <<grant, payment, session, verifyLock, jobVars>>

VerifyReread(r) ==
    /\ req[r].pc = "verify_reread"
    /\ Reread(r, IF payment[req[r].payment].status = "SUCCESS"
                 THEN "verify_release" ELSE "verify_ask")
    /\ UNCHANGED <<grant, payment, session, verifyLock, jobVars>>

\* No success without a capture; nor with one, at a gateway that the caller
\* named wrongly. A payment without a grant has no amount to compare with.
VerifyAsk(r) ==
    /\ req[r].pc = "verify_ask"
    /\ \/ /\ session[req[r].session].state \in {"paid", "mispaid"}
          /\ Goto(r, IF req[r].grant = None THEN "verify_commit" ELSE "verify_check")
       \/ Goto(r, "verify_fail")
    /\ UNCHANGED <<grant, payment, session, verifyLock, jobVars>>

\* Faulty variant: amount and currency are not compared.
VerifyCheckAnyAmount(r) ==
    /\ req[r].pc = "verify_check"
    /\ Goto(r, "verify_commit")
    /\ UNCHANGED <<grant, payment, session, verifyLock, jobVars>>

\* Amount and currency against the grant's own; its status is not looked at.
VerifyCheck(r) ==
    /\ req[r].pc = "verify_check"
    /\ Goto(r, IF session[req[r].session].state = "paid"
               THEN "verify_commit" ELSE "verify_flag")
    /\ UNCHANGED <<grant, payment, session, verifyLock, jobVars>>

SetStatus(r, status) ==
    payment' = [payment EXCEPT ![req[r].payment].status = status]

\* Faulty variant: the refused attempt is marked the way a plan is.
VerifyCancels(r) ==
    /\ req[r].pc \in {"verify_fail", "verify_flag"}
    /\ SetStatus(r, IF req[r].pc = "verify_fail" THEN "CANCELLED" ELSE "FLAGGED")
    /\ Goto(r, "verify_release")
    /\ UNCHANGED <<grant, session, verifyLock, jobVars>>

VerifyRefuse(r) ==
    /\ req[r].pc \in {"verify_fail", "verify_flag"}
    /\ SetStatus(r, IF req[r].pc = "verify_fail" THEN "FAILED" ELSE "FLAGGED")
    /\ Goto(r, "verify_release")
    /\ UNCHANGED <<grant, session, verifyLock, jobVars>>

\* Faulty variant: no unique index on the ACTIVE purchases of a strategy.
NoIndex(g) == grant[g].status # "ABSENT"

IndexAllows(g) ==
    grant[g].offer \in Strategies
    => GrantsOf({grant[g].offer}, "ACTIVE") \subseteq {g}

\* Faulty variant: a strategy's own branch of the transaction is left out.
ActivatePlans(g) ==
    grant' = [grant EXCEPT ![g].status = IF @ = "ABSENT" \/ grant[g].offer \in Strategies
                                         THEN @ ELSE "ACTIVE",
                           ![g].ended = FALSE]

Activate(g) ==
    grant' = [grant EXCEPT ![g].status = "ACTIVE", ![g].ended = FALSE]

\* The transaction: the payment and the grant that it points at by now, both
\* or neither. Detached meanwhile, or from the start, it activates nothing.
VerifyCommit(r) ==
    /\ req[r].pc = "verify_commit"
    /\ LET g == payment[req[r].payment].grant
       IN  \/ g = None /\ SetStatus(r, "SUCCESS") /\ UNCHANGED grant
           \/ g # None /\ IndexAllows(g) /\ SetStatus(r, "SUCCESS") /\ Activate(g)
           \/ g # None /\ ~IndexAllows(g) /\ UNCHANGED <<payment, grant>>
    /\ Goto(r, "verify_release")
    /\ UNCHANGED <<session, verifyLock, jobVars>>

VerifyRelease(r) ==
    /\ req[r].pc = "verify_release"
    /\ Locks!DelIfOwner(req[r].payment, r)
    /\ Return(r)
    /\ UNCHANGED <<grant, payment, session, jobVars>>

LockExpires(p) ==
    /\ UNCHANGED <<grant, payment, session, req, jobVars>>
    /\ Locks!Expire(p)

\* An await inside withLock's body rejects: `finally` still releases.
Throw(r) ==
    /\ req[r].pc \in LockedPCs \ {"verify_release"}
    /\ Goto(r, "verify_release")
    /\ UNCHANGED <<grant, payment, session, verifyLock, jobVars>>

Die(r) ==
    /\ req[r].pc # "idle"
    /\ Return(r)
    /\ UNCHANGED <<grant, payment, session, verifyLock, jobVars>>

-----------------------------------------------------------------------------
(* How a grant ends *)

\* payments.subscriptions.cancel: whatever the status is.
CancelSubscription(g) ==
    /\ grant[g].offer \in PlatformPlans
    /\ grant' = [grant EXCEPT ![g].status = "CANCELLED", ![g].autoRenew = FALSE]
    /\ UNCHANGED <<payment, session, verifyLock, req, jobVars>>

\* signals.subscribers.updateStatus: any status over any other.
SetSubscriberStatus(g, status) ==
    /\ grant[g].offer \in SignalPlans
    /\ grant' = [grant EXCEPT ![g].status = status]
    /\ UNCHANGED <<payment, session, verifyLock, req, jobVars>>

EndReached(g) ==
    /\ grant[g].offer \in PlatformPlans \cup SignalPlans
    /\ ~grant[g].ended
    /\ grant' = [grant EXCEPT ![g].ended = TRUE]
    /\ UNCHANGED <<payment, session, verifyLock, req, jobVars>>

Renewable(g) ==
    /\ grant[g].offer \in PlatformPlans
    /\ grant[g].status = "ACTIVE"
    /\ grant[g].autoRenew

\* Faulty variant: only plans that are not over yet.
ExpiringAhead(soon) == {g \in soon : Renewable(g) /\ ~grant[g].ended}

\* Every plan that is over, and those that will be within three days.
Expiring(soon) == {g \in Grants : Renewable(g) /\ (grant[g].ended \/ g \in soon)}

ExpiryCheck ==
    /\ found = {}
    /\ \E soon \in SUBSET Grants : found' = Expiring(soon)
    /\ UNCHANGED <<grant, payment, session, verifyLock, req, queued, enqueued,
                   renewing>>

\* BullMQ ignores a job whose id, made of the plan and the day, is taken.
ExpiryEnqueue(g) ==
    /\ g \in found
    /\ found' = found \ {g}
    /\ queued' = IF g \in enqueued THEN queued ELSE queued \cup {g}
    /\ enqueued' = enqueued \cup {g}
    /\ UNCHANGED <<grant, payment, session, verifyLock, req, renewing>>

\* The check fails half-way; it is not repeated before its next schedule.
ExpiryStops ==
    /\ found # {}
    /\ found' = {}
    /\ UNCHANGED <<grant, payment, session, verifyLock, req, queued, enqueued,
                   renewing>>

NewDay ==
    /\ enqueued' = {}
    /\ UNCHANGED <<grant, payment, session, verifyLock, req, found, queued,
                   renewing>>

\* The renewal job reads the plan; one that is not due ends the job.
RenewRead(g) ==
    /\ g \in queued
    /\ queued' = queued \ {g}
    /\ renewing' = IF Renewable(g) /\ grant[g].ended THEN renewing \cup {g} ELSE renewing
    /\ UNCHANGED <<grant, payment, session, verifyLock, req, found, enqueued>>

RenewWrite(g) ==
    /\ g \in renewing
    /\ grant' = [grant EXCEPT ![g].status = "EXPIRED"]
    /\ renewing' = renewing \ {g}
    /\ UNCHANGED <<payment, session, verifyLock, req, found, queued, enqueued>>

\* The job fails and is gone, or its worker died and BullMQ runs it again.
RenewFails(g) ==
    /\ g \in renewing
    /\ renewing' = renewing \ {g}
    /\ queued' \in {queued, queued \cup {g}}
    /\ UNCHANGED <<grant, payment, session, verifyLock, req, found, enqueued>>

-----------------------------------------------------------------------------
Step(r) ==
    \/ BuyPending(r) \/ BuyCreate(r) \/ BuyRecheck(r) \/ BuyPayment(r)
    \/ BuyOpen(r) \/ BuyWrite(r)
    \/ VerifyLock(r) \/ VerifyReread(r) \/ VerifyAsk(r) \/ VerifyCheck(r)
    \/ VerifyRefuse(r) \/ VerifyCommit(r) \/ VerifyRelease(r)
    \/ Throw(r) \/ Die(r)

JobStep(g) ==
    \/ ExpiryEnqueue(g) \/ RenewRead(g) \/ RenewWrite(g) \/ RenewFails(g)

Next ==
    \/ \E r \in Requests :
          \/ Step(r)
          \/ \E x \in Offers : BuyRead(r, x)
          \/ \E p \in Payments : VerifyFind(r, p)
    \/ \E s \in Sessions, state \in SessionStates : Capture(s, state)
    \/ \E p \in Payments : LockExpires(p)
    \/ \E g \in Grants :
          \/ CancelSubscription(g) \/ EndReached(g) \/ JobStep(g)
          \/ \E status \in HandStatuses : SetSubscriberStatus(g, status)
    \/ ExpiryCheck
    \/ ExpiryStops
    \/ NewDay

Spec == Init /\ [][Next]_vars

\* Days pass and the check is scheduled every day; a step of the jobs that may
\* fail does not fail on every day.
JobFairness ==
    /\ WF_vars(NewDay)
    /\ WF_vars(ExpiryCheck)
    /\ \A g \in Grants :
          /\ SF_vars(ExpiryEnqueue(g))
          /\ WF_vars(RenewRead(g))
          /\ SF_vars(RenewWrite(g))

JobSpec == Spec /\ JobFairness

-----------------------------------------------------------------------------
Funded(g) == \E s \in Sessions : session[s].grant = g /\ session[s].state = "paid"

\* Access is for money: an ACTIVE grant has a capture of its exact price,
\* unless an administrator may have written ACTIVE to a signal plan.
ActiveIsFunded ==
    \A g \in Grants :
        grant[g].status = "ACTIVE"
        => Funded(g) \/ (grant[g].offer \in SignalPlans /\ "ACTIVE" \in HandStatuses)

\* A strategy is bought once: two attempts that were both paid cannot both
\* become ACTIVE, even if their verifies outlive their locks.
OneActivePurchase ==
    \A x \in Strategies : \A g, h \in GrantsOf({x}, "ACTIVE") : g = h

\* A SUCCESS payment of a strategy gave the access it was for, unless a later
\* creation for the same purchase made it point at nothing.
SuccessIsActivated ==
    \A p \in Payments : \A g \in Grants :
        /\ payment[p].grant = g
        /\ payment[p].status = "SUCCESS"
        /\ grant[g].offer \in Strategies
        => grant[g].status = "ACTIVE"

\* Access starts once per payment, in the step in which that payment becomes
\* SUCCESS: a cancelled or expired plan does not start again on the strength
\* of a payment that is SUCCESS already.
StartsWithItsPayment ==
    [][\A g \in Grants :
          /\ grant[g].offer \notin SignalPlans
          /\ grant[g].status # "ACTIVE"
          /\ grant'[g].status = "ACTIVE"
          => \E p \in Payments :
                /\ payment[p].grant = g
                /\ payment[p].status # "SUCCESS"
                /\ payment'[p].status = "SUCCESS"]_vars

\* A SUCCESS payment keeps its status, attached or not.
PaidStaysPaid ==
    [][\A p \in Payments :
          payment[p].status = "SUCCESS" => payment'[p].status = "SUCCESS"]_vars

\* What the ledger of access sees. The access to a signal plan is left out:
\* an administrator may write it.
SoldForGood ==
    {g \in Grants : grant[g].status # "ABSENT" /\ grant[g].offer \in Strategies}

Captured ==
    {p \in Payments :
        \E s \in Sessions : session[s].payment = p /\ session[s].state = "paid"}

Paid == {p \in Payments : payment[p].status = "SUCCESS"}

InForce ==
    {g \in Grants : grant[g].status = "ACTIVE" /\ grant[g].offer \notin SignalPlans}

Access == INSTANCE AccessLedger
    WITH forGood <- SoldForGood, funded <- Captured, paid <- Paid, active <- InForce

\* Buying, cancelling and expiring keep, step by step, what AccessLedger
\* promises of strategies and platform plans.
ImplementsAccess == Access!Spec

\* Verifying a payment uses its Redis key as withLock does.
ImplementsLock == Locks!Spec

\* At most one request at a time is past the lock of a payment.
VerifiesExclude == Locks!MutualExclusion

\* A platform plan that renews itself and is over does not stay ACTIVE: there
\* is no charge to renew it, so it is left to expire.
EndedPlansExpire ==
    \A g \in Grants :
        Renewable(g) /\ grant[g].ended ~> ~(Renewable(g) /\ grant[g].ended)

\* "A mismatch never silently succeeds": a payment becomes SUCCESS on captures
\* of the right price only.
NoSilentMismatch == Paid \subseteq Captured
=============================================================================
