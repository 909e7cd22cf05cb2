----------------------------- MODULE Deployment -----------------------------
(***************************************************************************)
(* The server processes and what runs inside them: HTTP requests, streams  *)
(* of the live signal feed, runs of the outbox relay and jobs of the email *)
(* broadcast queue; and how a process ends: gracefulShutdown of server.ts, *)
(* or a crash. PROCESS_ROLE is all: a web or a worker process is one that  *)
(* never takes the other's work.                                           *)
(*                                                                         *)
(* Events of the outbox are numbered as they are written, messages of the  *)
(* feed as they are published. BullMQ and Redis are modelled from how the  *)
(* code uses them.                                                         *)
(***************************************************************************)
EXTENDS Naturals, Sequences, FiniteSets

CONSTANTS
    Processes,
    MaxEvents,  \* events that may be written to the outbox (a bound)
    Limit,      \* events that a relay claims at once; 100 in the code
    Relays,     \* runs of the relay in progress at once (a bound)
    Jobs,       \* broadcasts that may be queued (a bound)
    Recipients, \* the users that a campaign selects
    Signals,    \* signals that may be published (a bound)
    MaxLog,     \* messages that may be published (a bound)
    Clients,    \* browser tabs that show the live feed
    Requests,   \* HTTP requests in progress at once (a bound)
    Mixes,      \* activities that run beside each other (a bound)
    None

Events == 1..MaxEvents

Activities == {"events", "jobs", "feed", "requests", "shutdown", "crash"}

ASSUME NoneAssumption == None \notin Processes \cup Events
ASSUME BoundsAssumption == MaxEvents \in Nat /\ MaxLog \in Nat
ASSUME LimitAssumption == Limit \in Nat \ {0}
ASSUME RecipientsAssumption == Recipients # {}
ASSUME MixesAssumption == Mixes \subseteq SUBSET Activities

VARIABLES
    process, \* process[p]: how far p is in gracefulShutdown
    event,   \* event[e]: the outbox_events row
    relay,   \* relay[x]: a run of runOutboxRelay and its local variables
    emitted, \* emitted[e]: how often e was handed to the event bus (history)
    job,     \* job[j]: a job of the email-broadcast queue
    mailed,  \* mailed[j][u]: mails that u got for j
    signal,  \* signal[s]: a signal, and the messages about it not yet published
    log,     \* the messages published, in order (history)
    queue,   \* queue[p]: messages that the subscriber of p has still to deliver
    gap,     \* gap[p]: has the subscription of p missed messages?
    stream,  \* stream[c]: the process that c is connected to
    last,    \* last[c]: the last message c had, or could have had, on its stream
    serving, \* serving[q]: the process that serves request q
    mix      \* the activities of this behaviour

outboxVars == <<event, relay, emitted>>
jobVars == <<job, mailed>>
feedVars == <<signal, log, queue, gap, stream, last>>
vars == <<process, outboxVars, jobVars, feedVars, serving, mix>>

-----------------------------------------------------------------------------
EventStatuses == {"ABSENT", "PENDING", "PROCESSING", "PROCESSED", "FAILED"}

MaxRetries == 3

Event == [status: EventStatuses, retries: 0..MaxRetries + 1]

Run == [pc: {"idle", "next", "mark", "read", "fail"}, process: Processes \cup {None},
        batch: SUBSET Events, event: Events \cup {None}, retries: 0..MaxRetries + 1]

NoRun == [pc |-> "idle", process |-> None, batch |-> {}, event |-> None, retries |-> 0]

\* stalls: how often BullMQ found the job without its worker.
Job == [state: {"none", "waiting", "active", "completed", "failed", "dead"},
        process: Processes \cup {None}, todo: SUBSET Recipients, sent: BOOLEAN,
        stalls: 0..1]

NoJob == [state |-> "none", process |-> None, todo |-> {}, sent |-> FALSE, stalls |-> 0]

TypeOK ==
    /\ process \in [Processes -> {"up", "closing", "draining", "stopped", "killed"}]
    /\ event \in [Events -> Event]
    /\ relay \in [Relays -> Run]
    /\ emitted \in [Events -> 0..MaxRetries + 2]
    /\ job \in [Jobs -> Job]
    /\ mailed \in [Jobs -> [Recipients -> 0..2]]
    /\ signal \in [Signals -> [state: {"none", "ACTIVE", "CLOSED"},
                               due: SUBSET {"CREATED", "CLOSED"}]]
    /\ log \in Seq(Signals \X {"CREATED", "CLOSED"})
    /\ queue \in [Processes -> Seq(1..MaxLog)]
    /\ gap \in [Processes -> BOOLEAN]
    /\ stream \in [Clients -> Processes \cup {None}]
    /\ last \in [Clients -> 0..MaxLog]
    /\ serving \in [Requests -> Processes \cup {None}]
    /\ mix \in Mixes

Init ==
    /\ process = [p \in Processes |-> "up"]
    /\ event = [e \in Events |-> [status |-> "ABSENT", retries |-> 0]]
    /\ relay = [x \in Relays |-> NoRun]
    /\ emitted = [e \in Events |-> 0]
    /\ job = [j \in Jobs |-> NoJob]
    /\ mailed = [j \in Jobs |-> [u \in Recipients |-> 0]]
    /\ signal = [s \in Signals |-> [state |-> "none", due |-> {}]]
    /\ log = <<>>
    /\ queue = [p \in Processes |-> <<>>]
    /\ gap = [p \in Processes |-> FALSE]
    /\ stream = [c \in Clients |-> None]
    /\ last = [c \in Clients |-> 0]
    /\ serving = [q \in Requests |-> None]
    /\ mix \in Mixes

Alive(p) == process[p] \in {"up", "closing", "draining"}

-----------------------------------------------------------------------------
(* The outbox. *)

\* createEvent.
WriteEvent(e) ==
    /\ "events" \in mix
    /\ event[e].status = "ABSENT"
    /\ \A d \in 1..e - 1 : event[d].status # "ABSENT"
    /\ event' = [event EXCEPT ![e].status = "PENDING"]
    /\ UNCHANGED <<process, relay, emitted, jobVars, feedVars, serving, mix>>

Pending == {e \in Events : event[e].status = "PENDING"}

\* The oldest PENDING rows, up to the limit.
Oldest == {e \in Pending : Cardinality({d \in Pending : d < e}) < Limit}

\* Faulty variant: the rows are only selected.
ClaimsSelected(x, p, claimed) ==
    /\ relay' = [relay EXCEPT ![x] = [NoRun EXCEPT !.pc = "next", !.process = p,
                                                   !.batch = claimed]]
    /\ UNCHANGED event

\* claimPending: FOR UPDATE SKIP LOCKED makes the claim one step.
Claims(x, p, claimed) ==
    /\ event' = [e \in Events |-> IF e \in claimed
                                  THEN [event[e] EXCEPT !.status = "PROCESSING"]
                                  ELSE event[e]]
    /\ relay' = [relay EXCEPT ![x] = [NoRun EXCEPT !.pc = "next", !.process = p,
                                                   !.batch = claimed]]

\* The interval of server.ts, cleared when the shutdown begins: it does not
\* wait for an earlier run.
RelayTick(x, p) ==
    /\ process[p] = "up"
    /\ relay[x] = NoRun
    /\ Pending # {}
    /\ Claims(x, p, Oldest)
    /\ UNCHANGED <<process, emitted, jobVars, feedVars, serving, mix>>

\* The rows come back in no particular order; emit swallows what a handler
\* throws. (More emissions than a correct relay makes are not counted.)
RelayEmit(x, e) ==
    /\ relay[x].pc = "next"
    /\ e \in relay[x].batch
    /\ emitted' = [emitted EXCEPT ![e] = IF @ > MaxRetries + 1 THEN @ ELSE @ + 1]
    /\ relay' = [relay EXCEPT ![x] = [relay[x] EXCEPT !.pc = "mark", !.event = e,
                                                      !.batch = @ \ {e}]]
    /\ UNCHANGED <<process, event, jobVars, feedVars, serving, mix>>

RelayEnds(x) ==
    /\ relay[x].pc = "next"
    /\ relay[x].batch = {}
    /\ relay' = [relay EXCEPT ![x] = NoRun]
    /\ UNCHANGED <<process, event, emitted, jobVars, feedVars, serving, mix>>

RelayGoto(x, pc) == relay' = [relay EXCEPT ![x].pc = pc]

\* markProcessed: written, or an error, or written and an error.
RelayMark(x) ==
    LET written == [event EXCEPT ![relay[x].event].status = "PROCESSED"] IN
    /\ relay[x].pc = "mark"
    /\ \/ event' = written /\ RelayGoto(x, "next")
       \/ event' \in {event, written} /\ RelayGoto(x, "read")
    /\ UNCHANGED <<process, emitted, jobVars, feedVars, serving, mix>>

\* markFailed reads the row, then writes by what it has read; an error of its
\* own ends the run, and leaves the rest of the batch.
RelayRead(x) ==
    /\ relay[x].pc = "read"
    /\ \/ relay' = [relay EXCEPT ![x] = [@ EXCEPT !.pc = "fail",
                                           !.retries = event[relay[x].event].retries]]
       \/ relay' = [relay EXCEPT ![x] = NoRun]
    /\ UNCHANGED <<process, event, emitted, jobVars, feedVars, serving, mix>>

\* Faulty variant: the retries are not counted.
RelayFailUncounted(x) ==
    LET e == relay[x].event
        written == [event EXCEPT ![e] = [@ EXCEPT !.status = "PENDING"]]
    IN
    /\ relay[x].pc = "fail"
    /\ \/ event' = written /\ RelayGoto(x, "next")
       \/ event' \in {event, written} /\ relay' = [relay EXCEPT ![x] = NoRun]
    /\ UNCHANGED <<process, emitted, jobVars, feedVars, serving, mix>>

RelayFail(x) ==
    LET e == relay[x].event
        written == [event EXCEPT ![e] =
                       [status |-> IF relay[x].retries >= MaxRetries THEN "FAILED"
                                   ELSE "PENDING",
                        retries |-> event[e].retries + 1]]
    IN
    /\ relay[x].pc = "fail"
    /\ \/ event' = written /\ RelayGoto(x, "next")
       \/ event' \in {event, written} /\ relay' = [relay EXCEPT ![x] = NoRun]
    /\ UNCHANGED <<process, emitted, jobVars, feedVars, serving, mix>>

-----------------------------------------------------------------------------
(* Email broadcasts. *)

JobGoes(j, state) == job' = [job EXCEPT ![j] = [@ EXCEPT !.state = state,
                                                          !.process = None]]

\* sendCampaign: addJob without attempts, so BullMQ makes one; a campaign sent
\* twice is two jobs.
SendCampaign(j) ==
    /\ "jobs" \in mix
    /\ job[j].state = "none"
    /\ JobGoes(j, "waiting")
    /\ UNCHANGED <<process, outboxVars, mailed, feedVars, serving, mix>>

\* A worker takes one job at a time, until close() is called on it.
TakeJob(p, j) ==
    /\ process[p] \in {"up", "closing"}
    /\ job[j].state = "waiting"
    /\ \A i \in Jobs : job[i].process # p
    /\ job' = [job EXCEPT ![j] = [@ EXCEPT !.state = "active", !.process = p,
                                    !.todo = Recipients, !.sent = FALSE]]
    /\ UNCHANGED <<process, outboxVars, mailed, feedVars, serving, mix>>

Running(j) == job[j].state = "active" /\ job[j].process # None

\* Faulty variant: the loop does not move on from a recipient that was mailed.
MailAgain(j, u) ==
    /\ Running(j)
    /\ u \in job[j].todo
    /\ mailed[j][u] < 2
    /\ job' = [job EXCEPT ![j].sent = TRUE, ![j].todo = @ \ (IF job[j].sent THEN {u} ELSE {})]
    /\ mailed' = [mailed EXCEPT ![j][u] = @ + 1]
    /\ UNCHANGED <<process, outboxVars, feedVars, serving, mix>>

\* sendBulk: one mail is accepted or refused.
Mail(j, u) ==
    /\ Running(j)
    /\ u \in job[j].todo
    /\ \/ /\ job' = [job EXCEPT ![j] = [job[j] EXCEPT !.todo = @ \ {u}, !.sent = TRUE]]
          /\ mailed' = [mailed EXCEPT ![j][u] = @ + 1]
       \/ job' = [job EXCEPT ![j].todo = @ \ {u}] /\ UNCHANGED mailed
    /\ UNCHANGED <<process, outboxVars, feedVars, serving, mix>>

\* fetch throws, after the mail has left or before; the rest is not tried.
MailThrows(j, u) ==
    /\ Running(j)
    /\ u \in job[j].todo
    /\ JobGoes(j, "failed")
    /\ mailed' \in {mailed, [mailed EXCEPT ![j][u] = @ + 1]}
    /\ UNCHANGED <<process, outboxVars, feedVars, serving, mix>>

\* The job fails when it has reached nobody.
JobEnds(j) ==
    /\ Running(j)
    /\ job[j].todo = {}
    /\ JobGoes(j, IF job[j].sent THEN "completed" ELSE "failed")
    /\ UNCHANGED <<process, outboxVars, mailed, feedVars, serving, mix>>

\* Faulty variant: a job is given to another worker as often as it is lost.
StalledAgain(j) ==
    /\ job[j].state = "active" /\ ~Running(j)
    /\ job' = [job EXCEPT ![j] = [job[j] EXCEPT !.state = "waiting", !.stalls = @ + 1]]
    /\ UNCHANGED <<process, outboxVars, mailed, feedVars, serving, mix>>

\* BullMQ gives a job that lost its worker to another one, once.
Stalled(j) ==
    /\ job[j].state = "active" /\ ~Running(j)
    /\ job' = [job EXCEPT ![j] =
                  IF job[j].stalls = 0 THEN [job[j] EXCEPT !.state = "waiting", !.stalls = 1]
                  ELSE [job[j] EXCEPT !.state = "failed"]]
    /\ UNCHANGED <<process, outboxVars, mailed, feedVars, serving, mix>>

\* handleDeadLetter writes the record; or fails to, or dies, and is not called
\* again.
DeadLetter(j) ==
    /\ job[j].state = "failed"
    /\ JobGoes(j, "dead")
    /\ UNCHANGED <<process, outboxVars, mailed, feedVars, serving, mix>>

-----------------------------------------------------------------------------
(* The live signal feed. *)

\* signals.create: the row, and then the message.
CreateSignal(s) ==
    /\ "feed" \in mix
    /\ signal[s].state = "none"
    /\ signal' = [signal EXCEPT ![s] = [state |-> "ACTIVE", due |-> {"CREATED"}]]
    /\ UNCHANGED <<process, outboxVars, jobVars, log, queue, gap, stream, last,
                   serving, mix>>

\* signals.close: a signal may be closed before the message of its creation is
\* published, and closed again.
CloseSignal(s) ==
    /\ signal[s].state # "none"
    /\ signal' = [signal EXCEPT ![s] = [state |-> "CLOSED",
                                        due |-> @.due \cup {"CLOSED"}]]
    /\ UNCHANGED <<process, outboxVars, jobVars, log, queue, gap, stream, last,
                   serving, mix>>

\* Faulty variant: the clients of the publishing process are served directly,
\* and by its subscription.
PublishTwice(s, type, heard) ==
    LET n == Len(log) + 1 IN
    /\ type \in signal[s].due
    /\ n <= MaxLog
    /\ signal' = [signal EXCEPT ![s].due = @ \ {type}]
    /\ log' = Append(log, <<s, type>>)
    /\ queue' = [p \in Processes |-> IF p \in heard THEN Append(queue[p], n) ELSE queue[p]]
    /\ \E p \in Processes :
          last' = [c \in Clients |-> IF stream[c] = p THEN n ELSE last[c]]
    /\ UNCHANGED <<process, outboxVars, jobVars, gap, stream, serving, mix>>

\* redis.publish: to the processes whose subscription is up.
Publish(s, type, heard) ==
    LET n == Len(log) + 1 IN
    /\ type \in signal[s].due
    /\ n <= MaxLog
    /\ heard \subseteq {p \in Processes : Alive(p)}
    /\ signal' = [signal EXCEPT ![s].due = @ \ {type}]
    /\ log' = Append(log, <<s, type>>)
    /\ queue' = [p \in Processes |-> IF p \in heard THEN Append(queue[p], n) ELSE queue[p]]
    /\ gap' = [p \in Processes |-> gap[p] \/ (Alive(p) /\ p \notin heard)]
    /\ UNCHANGED <<process, outboxVars, jobVars, stream, last, serving, mix>>

\* The handler ends between the row and the message.
PublishFails(s, type) ==
    /\ type \in signal[s].due
    /\ signal' = [signal EXCEPT ![s].due = @ \ {type}]
    /\ UNCHANGED <<process, outboxVars, jobVars, log, queue, gap, stream, last,
                   serving, mix>>

\* deliverToLocalClients.
Deliver(p) ==
    /\ queue[p] # <<>>
    /\ last' = [c \in Clients |-> IF stream[c] = p THEN Head(queue[p]) ELSE last[c]]
    /\ queue' = [queue EXCEPT ![p] = Tail(@)]
    /\ UNCHANGED <<process, outboxVars, jobVars, signal, log, gap, stream, serving, mix>>

\* addClient: the tab is sent what the process delivers from now on.
Connect(c, p) ==
    /\ "feed" \in mix
    /\ process[p] = "up"
    /\ stream[c] = None
    /\ stream' = [stream EXCEPT ![c] = p]
    /\ last' = [last EXCEPT ![c] = IF queue[p] = <<>> THEN Len(log)
                                   ELSE Head(queue[p]) - 1]
    /\ UNCHANGED <<process, outboxVars, jobVars, signal, log, queue, gap, serving, mix>>

Disconnect(c) ==
    /\ stream[c] # None
    /\ stream' = [stream EXCEPT ![c] = None]
    /\ last' = [last EXCEPT ![c] = 0]
    /\ UNCHANGED <<process, outboxVars, jobVars, signal, log, queue, gap, serving, mix>>

-----------------------------------------------------------------------------
(* Requests, and the life of a process. *)

StartRequest(q, p) ==
    /\ "requests" \in mix
    /\ process[p] = "up"
    /\ serving[q] = None
    /\ serving' = [serving EXCEPT ![q] = p]
    /\ UNCHANGED <<process, outboxVars, jobVars, feedVars, mix>>

FinishRequest(q) ==
    /\ serving[q] # None
    /\ serving' = [serving EXCEPT ![q] = None]
    /\ UNCHANGED <<process, outboxVars, jobVars, feedVars, mix>>

\* gracefulShutdown: the relay's interval and the listening socket are closed,
\* the timer of 15 s is set.
Sigterm(p) ==
    /\ "shutdown" \in mix
    /\ process[p] = "up"
    /\ process' = [process EXCEPT ![p] = "closing"]
    /\ UNCHANGED <<outboxVars, jobVars, feedVars, serving, mix>>

\* server.close calls back when the last connection is gone; a stream is one.
\* Only then are the workers closed.
ServerClosed(p) ==
    /\ process[p] = "closing"
    /\ \A q \in Requests : serving[q] # p
    /\ \A c \in Clients : stream[c] # p
    /\ process' = [process EXCEPT ![p] = "draining"]
    /\ UNCHANGED <<outboxVars, jobVars, feedVars, serving, mix>>

\* What runs in a process ends with it.
Ends(p, state) ==
    /\ process' = [process EXCEPT ![p] = state]
    /\ relay' = [x \in Relays |-> IF relay[x].process = p THEN NoRun ELSE relay[x]]
    /\ job' = [j \in Jobs |-> IF job[j].process = p THEN [job[j] EXCEPT !.process = None]
                              ELSE job[j]]
    /\ queue' = [queue EXCEPT ![p] = <<>>]
    /\ gap' = [gap EXCEPT ![p] = FALSE]
    /\ stream' = [c \in Clients |-> IF stream[c] = p THEN None ELSE stream[c]]
    /\ last' = [c \in Clients |-> IF stream[c] = p THEN 0 ELSE last[c]]
    /\ serving' = [q \in Requests |-> IF serving[q] = p THEN None ELSE serving[q]]
    /\ UNCHANGED <<event, emitted, mailed, signal, log, mix>>

\* Faulty variant: the workers are not waited for.
ExitAnyway(p) ==
    /\ process[p] = "draining"
    /\ Ends(p, "stopped")

\* workers.close() waits for the jobs in progress; nothing waits for a relay.
Exit(p) ==
    /\ process[p] = "draining"
    /\ \A j \in Jobs : job[j].process # p
    /\ Ends(p, "stopped")

\* Faulty variant: the timer is set after server.close.
ForcedExitLate(p) ==
    /\ process[p] = "draining"
    /\ Ends(p, "killed")

ForcedExit(p) ==
    /\ process[p] \in {"closing", "draining"}
    /\ Ends(p, "killed")

Crash(p) ==
    /\ "crash" \in mix
    /\ Alive(p)
    /\ Ends(p, "killed")

Start(p) ==
    /\ ~Alive(p)
    /\ process' = [process EXCEPT ![p] = "up"]
    /\ UNCHANGED <<outboxVars, jobVars, feedVars, serving, mix>>

-----------------------------------------------------------------------------
RelayStep(x) ==
    \/ \E e \in Events : RelayEmit(x, e)
    \/ RelayEnds(x) \/ RelayMark(x) \/ RelayRead(x) \/ RelayFail(x)

JobStep(j) ==
    \/ SendCampaign(j) \/ JobEnds(j) \/ Stalled(j) \/ DeadLetter(j)
    \/ \E u \in Recipients : Mail(j, u) \/ MailThrows(j, u)
    \/ \E p \in Processes : TakeJob(p, j)

FeedStep(s) ==
    \/ CreateSignal(s) \/ CloseSignal(s)
    \/ \E type \in {"CREATED", "CLOSED"} :
          \/ PublishFails(s, type)
          \/ \E heard \in SUBSET Processes : Publish(s, type, heard)

Lifecycle(p) ==
    \/ Sigterm(p) \/ ServerClosed(p) \/ Exit(p) \/ ForcedExit(p)
    \/ Crash(p) \/ Start(p)

Next ==
    \/ \E e \in Events : WriteEvent(e)
    \/ \E x \in Relays : RelayStep(x) \/ \E p \in Processes : RelayTick(x, p)
    \/ \E j \in Jobs : JobStep(j)
    \/ \E s \in Signals : FeedStep(s)
    \/ \E p \in Processes : Lifecycle(p) \/ Deliver(p)
    \/ \E c \in Clients : Disconnect(c) \/ \E p \in Processes : Connect(c, p)
    \/ \E q \in Requests : FinishRequest(q) \/ \E p \in Processes : StartRequest(q, p)

Spec == Init /\ [][Next]_vars

\* Timers fire and processes are started again; a run of the relay goes from
\* await to await; the relay's interval fires again and again in processes that
\* are up again and again.
Fairness ==
    /\ \A p \in Processes : WF_vars(ForcedExit(p)) /\ WF_vars(Start(p))
    /\ \A x \in Relays : WF_vars(RelayStep(x))
    /\ SF_vars(\E x \in Relays, p \in Processes : RelayTick(x, p))

FairSpec == Spec /\ Fairness

-----------------------------------------------------------------------------
Holds(x, e) ==
    \/ e \in relay[x].batch
    \/ relay[x].pc \in {"mark", "read", "fail"} /\ relay[x].event = e

\* "each one claims a disjoint set of rows": overlapping runs of the relay, in
\* one process or in several, never hold the same event, nor one that another
\* run could still claim.
ClaimsAreDisjoint ==
    \A x \in Relays, e \in Events :
        Holds(x, e)
        => /\ event[e].status # "PENDING"
           /\ \A y \in Relays : Holds(y, e) => y = x

\* Each emission of an event is paid for with a retry or is its last: an event
\* that waits was emitted once per retry, and FAILED means four emissions.
RetriesAreCounted ==
    \A e \in Events :
        /\ emitted[e] <= event[e].retries + 1
        /\ event[e].status \in {"PENDING", "FAILED"} => emitted[e] = event[e].retries
        /\ event[e].status = "FAILED" => event[e].retries = MaxRetries + 1
        /\ event[e].status = "PROCESSED" => emitted[e] > 0

\* What the ledger of events sees: whether a run has the event still to emit,
\* or has emitted it and not yet settled its row, and otherwise the row.
PhaseOf(e) ==
    LET unsent == \E x \in Relays : e \in relay[x].batch
        held == \E x \in Relays : Holds(x, e)
    IN
    CASE unsent -> "claimed"
      [] held /\ ~unsent -> "emitted"
      [] OTHER -> [ABSENT |-> "unwritten", PENDING |-> "waiting", PROCESSING |-> "stranded",
                   PROCESSED |-> "done", FAILED |-> "failed"][event[e].status]

Outbox == INSTANCE EventLedger
    WITH phase <- [e \in Events |-> PhaseOf(e)], emissions <- emitted

\* The outbox keeps, step by step, what EventLedger promises of each event,
\* however runs overlap and processes end: one emission per claim, MaxRetries + 1
\* in all, and a row that a run left PROCESSING is never claimed again.
ImplementsOutbox == Outbox!Spec

\* Nobody gets a broadcast again but after its worker was lost, and a
\* broadcast that is reported as complete has reached somebody.
MailedOncePerRun ==
    \A j \in Jobs :
        /\ \A u \in Recipients : mailed[j][u] <= job[j].stalls + 1
        /\ job[j].state = "completed" => \E u \in Recipients : mailed[j][u] > 0

\* "every instance, including this one, receives exactly one copy": on one
\* stream no message comes again or out of order, and none is left out while
\* the subscription of the process lasts.
OneCopyPerStream ==
    \A c \in Clients, p \in Processes :
        stream[c] = p
        => /\ queue[p] # <<>> => last[c] < Head(queue[p])
           /\ \A i \in 1..Len(queue[p]) - 1 : queue[p][i] < queue[p][i + 1]
           /\ ~gap[p] => last[c] + Len(queue[p]) = Len(log)

\* "let in-flight requests/jobs finish": a process that stops by itself cuts
\* off no request, no stream and no job.
CleanExit ==
    [][\A p \in Processes :
          process[p] # "stopped" /\ process'[p] = "stopped"
          => /\ \A q \in Requests : serving[q] # p
             /\ \A c \in Clients : stream[c] # p
             /\ \A j \in Jobs : job[j].process # p]_vars

\* A deploy does not hang, even on streams that their clients keep open.
ShutdownEnds ==
    \A p \in Processes :
        process[p] \in {"closing", "draining"}
        ~> process[p] \in {"stopped", "killed"}

\* No event starves behind older ones that fail again and again.
EventsAreClaimed ==
    \A e \in Events :
        event[e].status = "PENDING" ~> event[e].status # "PENDING"
=============================================================================
