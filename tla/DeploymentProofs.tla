--------------------------- MODULE DeploymentProofs ---------------------------
(***************************************************************************)
(* Safety of a deployment of any number of processes, relays, events,      *)
(* jobs, signals, clients and requests. The three things that run inside   *)
(* a process share nothing but the process, so the inductive invariant is  *)
(* one for each.                                                           *)
(***************************************************************************)
EXTENDS Deployment, SequenceTheorems, TLAPS

(* The outbox: what a status says of the emissions of an event, and what a *)
(* run of the relay knows of the events that it holds.                     *)
EventInv(e) ==
    /\ event[e].status = "FAILED" => event[e].retries = MaxRetries + 1
    /\ event[e].status # "FAILED" => event[e].retries <= MaxRetries
    /\ event[e].status \in {"ABSENT", "PENDING", "FAILED"} => emitted[e] = event[e].retries
    /\ event[e].status = "PROCESSING" => emitted[e] \in {event[e].retries, event[e].retries + 1}
    /\ event[e].status = "PROCESSED" => emitted[e] = event[e].retries + 1

RunInv(x) ==
    LET d == relay[x].event IN
    /\ relay[x].pc = "idle" => relay[x] = NoRun
    /\ \A e \in relay[x].batch : event[e].status = "PROCESSING" /\ emitted[e] = event[e].retries
    /\ relay[x].pc \in {"mark", "read", "fail"}
       => /\ d \in Events /\ d \notin relay[x].batch
          /\ event[d].status \in {"PROCESSING", "PROCESSED"}
          /\ emitted[d] = event[d].retries + 1
    /\ relay[x].pc = "fail" => relay[x].retries = event[d].retries

HeldOnce == \A x, y \in Relays, e \in Events : Holds(x, e) /\ Holds(y, e) => x = y

OutboxTyped ==
    /\ event \in [Events -> Event]
    /\ relay \in [Relays -> Run]
    /\ emitted \in [Events -> 0..MaxRetries + 2]

OutboxInv ==
    /\ OutboxTyped
    /\ \A e \in Events : EventInv(e)
    /\ \A x \in Relays : RunInv(x)
    /\ HeldOnce

(* Broadcasts: a recipient that a running job has still to mail was mailed *)
(* at most once per earlier run.                                           *)
JobInv(j) ==
    /\ job[j].process # None => job[j].state = "active"
    /\ job[j].state = "none" => job[j].stalls = 0
    /\ \A u \in Recipients :
          /\ mailed[j][u] <= job[j].stalls + 1
          /\ \/ job[j].state \in {"none", "waiting"}
             \/ Running(j) /\ u \in job[j].todo
             => mailed[j][u] <= job[j].stalls
    /\ (Running(j) /\ job[j].sent) \/ job[j].state = "completed"
       => \E u \in Recipients : mailed[j][u] > 0

JobsTyped ==
    /\ job \in [Jobs -> Job]
    /\ mailed \in [Jobs -> [Recipients -> 0..2]]

JobsInv == JobsTyped /\ \A j \in Jobs : JobInv(j)

(* The feed: a process has still to deliver the last messages, if it has   *)
(* missed none, and a stream has had all before these.                     *)
QueueInv(p) ==
    /\ \A i \in 1..Len(queue[p]) : queue[p][i] <= Len(log)
    /\ \A i \in 1..Len(queue[p]) - 1 : queue[p][i] < queue[p][i + 1]
    /\ ~gap[p] => \A i \in 1..Len(queue[p]) : queue[p][i] + Len(queue[p]) = Len(log) + i
    /\ ~Alive(p) => queue[p] = <<>>

StreamInv(c, p) ==
    stream[c] = p
    => /\ Alive(p) /\ process[p] # "draining"
       /\ queue[p] # <<>> => last[c] < Head(queue[p])
       /\ ~gap[p] => last[c] + Len(queue[p]) = Len(log)

FeedTyped ==
    /\ signal \in [Signals -> [state: {"none", "ACTIVE", "CLOSED"},
                               due: SUBSET {"CREATED", "CLOSED"}]]
    /\ log \in Seq(Signals \X {"CREATED", "CLOSED"})
    /\ queue \in [Processes -> Seq(1..MaxLog)]
    /\ gap \in [Processes -> BOOLEAN]
    /\ stream \in [Clients -> Processes \cup {None}]
    /\ last \in [Clients -> 0..MaxLog]

FeedInv ==
    /\ FeedTyped
    /\ Len(log) <= MaxLog
    /\ \A c \in Clients : last[c] <= Len(log)
    /\ \A p \in Processes : QueueInv(p)
    /\ \A c \in Clients, p \in Processes : StreamInv(c, p)

(* A process that closes its workers has no request left.                  *)
LifeInv ==
    /\ process \in [Processes -> {"up", "closing", "draining", "stopped", "killed"}]
    /\ serving \in [Requests -> Processes \cup {None}]
    /\ mix \in Mixes
    /\ \A p \in Processes, q \in Requests : process[p] = "draining" => serving[q] # p

IInv == OutboxInv /\ JobsInv /\ FeedInv /\ LifeInv

-----------------------------------------------------------------------------
(* The outbox.                                                              *)

LEMMA NoRunTyped == NoRun \in Run
BY DEF NoRun, Run, MaxRetries

LEMMA OutboxStart == Init => OutboxInv
<1> SUFFICES ASSUME Init PROVE OutboxInv
  OBVIOUS
<1>1. /\ event = [e \in Events |-> [status |-> "ABSENT", retries |-> 0]]
      /\ relay = [x \in Relays |-> NoRun]
      /\ emitted = [e \in Events |-> 0]
  BY DEF Init
<1>2. OutboxTyped
  <2>1. [status |-> "ABSENT", retries |-> 0] \in Event
    BY DEF Event, EventStatuses, MaxRetries
  <2>3. 0 \in 0..MaxRetries + 2
    BY DEF MaxRetries
  <2>4. QED
    BY <1>1, <2>1, <2>3, NoRunTyped DEF OutboxTyped
<1>3. \A e \in Events : EventInv(e)
  BY <1>1 DEF EventInv, MaxRetries
<1>4. \A x \in Relays : RunInv(x)
  BY <1>1 DEF RunInv, NoRun
<1>5. HeldOnce
  BY <1>1 DEF HeldOnce, Holds, NoRun
<1>6. QED
  BY <1>2, <1>3, <1>4, <1>5 DEF OutboxInv

LEMMA EventTyped ==
    ASSUME OutboxTyped, NEW e \in Events
    PROVE  /\ event[e] \in Event
           /\ event[e].retries \in Nat /\ emitted[e] \in Nat
           /\ emitted[e] \in 0..MaxRetries + 2
<1>1. event[e] \in Event /\ emitted[e] \in 0..MaxRetries + 2
  BY DEF OutboxTyped
<1>2. QED
  BY <1>1 DEF Event, MaxRetries

\* What another run does leaves the events alone that this one holds.
LEMMA RunKept ==
    ASSUME OutboxInv, NEW y \in Relays, relay'[y] = relay[y],
           \A e \in Events : Holds(y, e) => event'[e] = event[e] /\ emitted'[e] = emitted[e]
    PROVE  RunInv(y)'
<1>1. RunInv(y) /\ relay[y].batch \subseteq Events
  BY DEF OutboxInv, OutboxTyped, Run
<1>2. \A e \in relay[y].batch : event'[e] = event[e] /\ emitted'[e] = emitted[e]
  BY <1>1 DEF Holds
<1>3. relay[y].pc \in {"mark", "read", "fail"}
      => LET d == relay[y].event IN
         d \in Events /\ event'[d] = event[d] /\ emitted'[d] = emitted[d]
  BY <1>1 DEF Holds, RunInv
<1>4. QED
  BY <1>1, <1>2, <1>3 DEF RunInv

\* Nobody holds an event that is still to be written or to be claimed.
LEMMA HeldIsClaimed ==
    ASSUME OutboxInv, NEW x \in Relays, NEW e \in Events, Holds(x, e)
    PROVE  event[e].status \in {"PROCESSING", "PROCESSED"}
BY DEF OutboxInv, RunInv, Holds

\* A step of one run: it touches the events that it holds or claims.
LEMMA RunStep ==
    ASSUME OutboxInv, NEW x \in Relays, NEW run \in Run, relay' = [relay EXCEPT ![x] = run],
           event' \in [Events -> Event], emitted' \in [Events -> 0..MaxRetries + 2],
           \A e \in Events :
              \/ event'[e] = event[e] /\ emitted'[e] = emitted[e]
              \/ Holds(x, e) \/ event[e].status = "PENDING",
           \A e \in Events : Holds(x, e)' => Holds(x, e) \/ event[e].status = "PENDING",
           \A e \in Events : EventInv(e)',
           RunInv(x)'
    PROVE  OutboxInv'
<1>1. /\ relay \in [Relays -> Run] /\ HeldOnce
      /\ \A y \in Relays : y # x => relay'[y] = relay[y]
  BY DEF OutboxInv, OutboxTyped
<1>2. OutboxTyped'
  BY <1>1 DEF OutboxTyped
<1>3. ASSUME NEW y \in Relays PROVE RunInv(y)'
  <2>1. CASE y = x
    BY <2>1
  <2>2. CASE y # x
    <3>1. ASSUME NEW e \in Events, Holds(y, e)
          PROVE  event'[e] = event[e] /\ emitted'[e] = emitted[e]
      <4>1. ~Holds(x, e)
        BY <1>1, <2>2, <3>1 DEF HeldOnce
      <4>2. event[e].status # "PENDING"
        BY <3>1, HeldIsClaimed
      <4>3. QED
        BY <4>1, <4>2
    <3>2. QED
      BY <1>1, <2>2, <3>1, RunKept
  <2>3. QED
    BY <2>1, <2>2
<1>4. HeldOnce'
  <2> SUFFICES ASSUME NEW y \in Relays, NEW z \in Relays, NEW e \in Events,
                      Holds(y, e)', Holds(z, e)'
               PROVE  y = z
    BY DEF HeldOnce
  <2>1. \A w \in Relays : w # x /\ Holds(w, e)' => Holds(w, e)
    BY <1>1 DEF Holds
  <2>2. \A w \in Relays : Holds(w, e) => event[e].status # "PENDING"
    BY HeldIsClaimed
  <2>3. QED
    BY <1>1, <2>1, <2>2 DEF HeldOnce
<1>5. QED
  BY <1>2, <1>3, <1>4 DEF OutboxInv

LEMMA WriteEventKeeps ==
    ASSUME OutboxInv, NEW e \in Events, WriteEvent(e)
    PROVE  OutboxInv'
<1>1. /\ event[e].status = "ABSENT"
      /\ event' = [event EXCEPT ![e].status = "PENDING"]
      /\ relay' = relay /\ emitted' = emitted
  BY DEF WriteEvent
<1>2. event \in [Events -> Event] /\ event[e] \in Event
  BY DEF OutboxInv, OutboxTyped
<1>3. /\ event' \in [Events -> Event]
      /\ event'[e].status = "PENDING" /\ event'[e].retries = event[e].retries
      /\ \A d \in Events : d # e => event'[d] = event[d]
  BY <1>1, <1>2 DEF Event, EventStatuses
<1>4. ASSUME NEW d \in Events PROVE EventInv(d)'
  <2>1. EventInv(d)
    BY DEF OutboxInv
  <2>2. CASE d = e
    BY <1>1, <1>3, <2>1, <2>2 DEF EventInv
  <2>3. CASE d # e
    BY <1>1, <1>3, <2>1, <2>3 DEF EventInv
  <2>4. QED
    BY <2>2, <2>3
<1>5. ASSUME NEW x \in Relays PROVE RunInv(x)'
  <2>1. \A d \in Events : Holds(x, d) => event'[d] = event[d]
    BY <1>1, <1>3, HeldIsClaimed
  <2>2. QED
    BY <1>1, <2>1, RunKept
<1>6. HeldOnce'
  BY <1>1 DEF OutboxInv, HeldOnce, Holds
<1>7. OutboxTyped'
  BY <1>1, <1>3 DEF OutboxInv, OutboxTyped
<1>8. QED
  BY <1>4, <1>5, <1>6, <1>7 DEF OutboxInv

LEMMA RelayTickKeeps ==
    ASSUME OutboxInv, NEW x \in Relays, NEW p \in Processes, RelayTick(x, p)
    PROVE  OutboxInv'
<1> DEFINE run == [NoRun EXCEPT !.pc = "next", !.process = p, !.batch = Oldest]
<1>1. /\ event' = [e \in Events |-> IF e \in Oldest
                                    THEN [event[e] EXCEPT !.status = "PROCESSING"]
                                    ELSE event[e]]
      /\ relay' = [relay EXCEPT ![x] = run]
      /\ emitted' = emitted
  BY DEF RelayTick, Claims
<1>2. Oldest \subseteq Pending /\ Pending \subseteq Events
  BY DEF Oldest, Pending
<1>3. run \in Run /\ run.pc = "next" /\ run.batch = Oldest
  <2>1. Oldest \in SUBSET Events
    BY <1>2
  <2>2. QED
    BY <2>1, NoRunTyped DEF Run, NoRun
<1> HIDE DEF run
<1>4. \A e \in Events :
         /\ event'[e] \in Event /\ event'[e].retries = event[e].retries
         /\ e \in Oldest => event'[e].status = "PROCESSING" /\ event[e].status = "PENDING"
         /\ e \notin Oldest => event'[e] = event[e]
  <2>1. \A e \in Events : e \in Oldest => event[e].status = "PENDING"
    BY <1>2 DEF Pending
  <2>2. \A e \in Events : event[e] \in Event
    BY DEF OutboxInv, OutboxTyped
  <2>3. QED
    BY <1>1, <2>1, <2>2 DEF Event, EventStatuses
<1>5. event' \in [Events -> Event] /\ emitted' \in [Events -> 0..MaxRetries + 2]
  BY <1>1, <1>4 DEF OutboxInv, OutboxTyped
<1>6. ASSUME NEW e \in Events PROVE EventInv(e)'
  <2>1. EventInv(e)
    BY DEF OutboxInv
  <2>2. CASE e \in Oldest
    BY <1>1, <1>4, <2>1, <2>2 DEF EventInv
  <2>3. CASE e \notin Oldest
    BY <1>1, <1>4, <2>1, <2>3 DEF EventInv
  <2>4. QED
    BY <2>2, <2>3
<1>7. relay'[x] = run
  BY <1>1 DEF OutboxInv, OutboxTyped
<1>8. RunInv(x)'
  <2>1. \A e \in Oldest : event'[e].status = "PROCESSING" /\ emitted'[e] = event'[e].retries
    <3>1. ASSUME NEW e \in Oldest
          PROVE  event'[e].status = "PROCESSING" /\ emitted'[e] = event'[e].retries
      <4>1. e \in Events /\ EventInv(e)
        BY <1>2 DEF OutboxInv
      <4>2. QED
        BY <1>1, <1>4, <3>1, <4>1 DEF EventInv
    <3>2. QED
      BY <3>1
  <2>2. QED
    BY <1>3, <1>7, <2>1 DEF RunInv
<1>9. \A e \in Events : Holds(x, e)' => e \in Oldest
  BY <1>3, <1>7 DEF Holds
<1>10. QED
  BY <1>1, <1>3, <1>4, <1>5, <1>6, <1>8, <1>9, RunStep

LEMMA RelayEmitKeeps ==
    ASSUME OutboxInv, NEW x \in Relays, NEW e \in Events, RelayEmit(x, e)
    PROVE  OutboxInv'
<1> DEFINE run == [relay[x] EXCEPT !.pc = "mark", !.event = e, !.batch = @ \ {e}]
<1>1. /\ relay[x].pc = "next" /\ e \in relay[x].batch
      /\ emitted' = [emitted EXCEPT ![e] = IF @ > MaxRetries + 1 THEN @ ELSE @ + 1]
      /\ relay' = [relay EXCEPT ![x] = run]
      /\ event' = event
  BY DEF RelayEmit
<1>2. relay[x] \in Run /\ RunInv(x) /\ EventInv(e)
  BY DEF OutboxInv, OutboxTyped
<1>3. run \in Run /\ run.pc = "mark" /\ run.event = e /\ run.batch = relay[x].batch \ {e}
  BY <1>2 DEF Run
<1> HIDE DEF run
<1>4. relay'[x] = run
  BY <1>1 DEF OutboxInv, OutboxTyped
<1>5. event[e].status = "PROCESSING" /\ emitted[e] = event[e].retries /\ event[e].retries \in 0..MaxRetries
  <2>1. event[e].status = "PROCESSING" /\ emitted[e] = event[e].retries
    BY <1>1, <1>2 DEF RunInv
  <2>2. event[e].retries \in Nat
    BY EventTyped DEF OutboxInv
  <2>3. QED
    BY <1>2, <2>1, <2>2 DEF EventInv, MaxRetries
<1>6. /\ emitted' \in [Events -> 0..MaxRetries + 2] /\ emitted'[e] = event[e].retries + 1
      /\ \A d \in Events : d # e => emitted'[d] = emitted[d]
  <2>1. emitted \in [Events -> 0..MaxRetries + 2]
    BY DEF OutboxInv, OutboxTyped
  <2>2. ~(emitted[e] > MaxRetries + 1) /\ emitted[e] + 1 \in 0..MaxRetries + 2
    BY <1>5 DEF MaxRetries
  <2>3. QED
    BY <1>1, <1>5, <2>1, <2>2
<1>7. ASSUME NEW d \in Events PROVE EventInv(d)'
  <2>1. EventInv(d)
    BY DEF OutboxInv
  <2>2. CASE d = e
    BY <1>1, <1>5, <1>6, <2>1, <2>2 DEF EventInv
  <2>3. CASE d # e
    BY <1>1, <1>6, <2>1, <2>3 DEF EventInv
  <2>4. QED
    BY <2>2, <2>3
<1>8. RunInv(x)'
  <2>1. \A d \in relay[x].batch \ {e} :
           event'[d].status = "PROCESSING" /\ emitted'[d] = event'[d].retries
    <3>1. relay[x].batch \subseteq Events
      BY <1>2 DEF Run
    <3>2. QED
      BY <1>1, <1>2, <1>6, <3>1 DEF RunInv
  <2>2. event'[e].status = "PROCESSING" /\ emitted'[e] = event'[e].retries + 1
    BY <1>1, <1>5, <1>6
  <2>3. QED
    BY <1>3, <1>4, <2>1, <2>2 DEF RunInv
<1>9. \A d \in Events : Holds(x, d)' => Holds(x, d)
  BY <1>1, <1>3, <1>4 DEF Holds
<1>10. Holds(x, e)
  BY <1>1 DEF Holds
<1>11. event' \in [Events -> Event]
  BY <1>1 DEF OutboxInv, OutboxTyped
<1>12. QED
  BY <1>1, <1>3, <1>6, <1>7, <1>8, <1>9, <1>10, <1>11, RunStep

\* A run that has handed its event to the bus.
LEMMA RunTyped ==
    ASSUME OutboxInv, NEW x \in Relays
    PROVE  /\ relay[x] \in Run /\ RunInv(x)
           /\ relay[x].pc \in {"mark", "read", "fail"}
              => /\ relay[x].event \in Events /\ Holds(x, relay[x].event)
                 /\ relay[x].event \notin relay[x].batch
BY DEF OutboxInv, OutboxTyped, RunInv, Holds

LEMMA RunEnds ==
    ASSUME OutboxInv, NEW x \in Relays, relay' = [relay EXCEPT ![x] = NoRun],
           emitted' = emitted, event' \in [Events -> Event],
           \A e \in Events : event'[e] = event[e] \/ Holds(x, e),
           \A e \in Events : EventInv(e)'
    PROVE  OutboxInv'
<1>1. relay'[x] = NoRun
  BY DEF OutboxInv, OutboxTyped
<1>2. RunInv(x)'
  BY <1>1 DEF RunInv, NoRun
<1>3. \A e \in Events : ~Holds(x, e)'
  BY <1>1 DEF Holds, NoRun
<1>4. emitted' \in [Events -> 0..MaxRetries + 2]
  BY DEF OutboxInv, OutboxTyped
<1>5. QED
  BY <1>2, <1>3, <1>4, NoRunTyped, RunStep

\* The run goes on without its event having changed hands.
LEMMA RunGoes ==
    ASSUME OutboxInv, NEW x \in Relays, NEW pc \in {"next", "read"}, RelayGoto(x, pc),
           relay[x].pc \in {"mark", "read", "fail"},
           emitted' = emitted, event' \in [Events -> Event],
           \A e \in Events : e # relay[x].event => event'[e] = event[e],
           \A e \in Events : EventInv(e)',
           pc = "read" => /\ event'[relay[x].event].retries = event[relay[x].event].retries
                          /\ event'[relay[x].event].status \in {"PROCESSING", "PROCESSED"}
    PROVE  OutboxInv'
<1> DEFINE run == [relay[x] EXCEPT !.pc = pc]
<1>1. relay' = [relay EXCEPT ![x] = run]
  BY DEF RelayGoto, OutboxInv, OutboxTyped
<1>2. /\ relay[x] \in Run /\ RunInv(x) /\ Holds(x, relay[x].event)
      /\ relay[x].event \in Events /\ relay[x].event \notin relay[x].batch
      /\ relay[x].batch \subseteq Events
  BY RunTyped DEF Run
<1>3. run \in Run /\ run.pc = pc /\ run.event = relay[x].event /\ run.batch = relay[x].batch
  BY <1>2 DEF Run
<1> HIDE DEF run
<1>4. relay'[x] = run
  BY <1>1 DEF OutboxInv, OutboxTyped
<1>5. RunInv(x)'
  <2>1. \A e \in relay[x].batch : event'[e] = event[e]
    BY <1>2
  <2>2. \A e \in relay[x].batch : event'[e].status = "PROCESSING" /\ emitted'[e] = event'[e].retries
    BY <1>2, <2>1 DEF RunInv
  <2>3. pc = "read" => emitted'[relay[x].event] = event'[relay[x].event].retries + 1
    BY <1>2 DEF RunInv
  <2>4. QED
    BY <1>2, <1>3, <1>4, <2>2, <2>3 DEF RunInv
<1>6. \A e \in Events : Holds(x, e)' => Holds(x, e)
  BY <1>3, <1>4 DEF Holds
<1>7. emitted' \in [Events -> 0..MaxRetries + 2]
  BY DEF OutboxInv, OutboxTyped
<1>8. QED
  BY <1>1, <1>2, <1>3, <1>5, <1>6, <1>7, RunStep

LEMMA RelayMarkKeeps ==
    ASSUME OutboxInv, NEW x \in Relays, RelayMark(x)
    PROVE  OutboxInv'
<1>1. relay[x].pc = "mark" /\ emitted' = emitted
  BY DEF RelayMark
<1>2. PICK d \in Events : d = relay[x].event /\ RunInv(x)
  BY <1>1, RunTyped
<1> DEFINE written == [event EXCEPT ![d].status = "PROCESSED"]
<1>3. PICK pc \in {"next", "read"} : event' \in {event, written} /\ RelayGoto(x, pc)
  BY <1>2 DEF RelayMark
<1>4. event \in [Events -> Event] /\ event[d] \in Event /\ emitted[d] = event[d].retries + 1
      /\ event[d].status \in {"PROCESSING", "PROCESSED"}
  BY <1>1, <1>2 DEF OutboxInv, OutboxTyped, RunInv
<1>5. /\ event' \in [Events -> Event] /\ event'[d].retries = event[d].retries
      /\ event'[d].status \in {event[d].status, "PROCESSED"}
      /\ \A e \in Events : e # d => event'[e] = event[e]
  BY <1>3, <1>4 DEF Event, EventStatuses
<1>6. ASSUME NEW e \in Events PROVE EventInv(e)'
  <2>1. EventInv(e)
    BY DEF OutboxInv
  <2>2. CASE e = d
    BY <1>1, <1>4, <1>5, <2>1, <2>2 DEF EventInv
  <2>3. CASE e # d
    BY <1>1, <1>5, <2>1, <2>3 DEF EventInv
  <2>4. QED
    BY <2>2, <2>3
<1>7. QED
  BY <1>1, <1>2, <1>3, <1>4, <1>5, <1>6, RunGoes

LEMMA RelayReadKeeps ==
    ASSUME OutboxInv, NEW x \in Relays, RelayRead(x)
    PROVE  OutboxInv'
<1>1. relay[x].pc = "read" /\ emitted' = emitted /\ event' = event
  BY DEF RelayRead
<1>2. event' \in [Events -> Event] /\ emitted' \in [Events -> 0..MaxRetries + 2]
  BY <1>1 DEF OutboxInv, OutboxTyped
<1>3. \A e \in Events : EventInv(e)'
  BY <1>1 DEF OutboxInv, EventInv
<1>4. CASE relay' = [relay EXCEPT ![x] = NoRun]
  BY <1>1, <1>2, <1>3, <1>4, RunEnds
<1> DEFINE run == [relay[x] EXCEPT !.pc = "fail", !.retries = event[relay[x].event].retries]
<1>5. CASE relay' = [relay EXCEPT ![x] = run]
  <2>1. relay[x] \in Run /\ RunInv(x) /\ relay[x].event \in Events
    BY <1>1, RunTyped
  <2>2. event[relay[x].event].retries \in 0..MaxRetries + 1
    BY <2>1 DEF OutboxInv, OutboxTyped, Event
  <2>3. /\ run \in Run /\ run.pc = "fail" /\ run.event = relay[x].event
        /\ run.batch = relay[x].batch /\ run.retries = event[relay[x].event].retries
    BY <2>1, <2>2 DEF Run
  <2> HIDE DEF run
  <2>4. relay'[x] = run
    BY <1>5 DEF OutboxInv, OutboxTyped
  <2>5. RunInv(x)'
    BY <1>1, <2>1, <2>3, <2>4 DEF RunInv
  <2>6. \A e \in Events : Holds(x, e)' => Holds(x, e)
    BY <1>1, <2>3, <2>4 DEF Holds
  <2>7. QED
    BY <1>1, <1>2, <1>3, <1>5, <2>3, <2>5, <2>6, RunStep
<1>6. QED
  BY <1>4, <1>5 DEF RelayRead

\* The only place where a retry is counted; what was read before is still
\* what is written to, as no other run holds the event.
LEMMA RelayFailKeeps ==
    ASSUME OutboxInv, NEW x \in Relays, RelayFail(x)
    PROVE  OutboxInv'
<1>1. relay[x].pc = "fail" /\ emitted' = emitted
  BY DEF RelayFail
<1>2. PICK d \in Events : d = relay[x].event /\ RunInv(x) /\ Holds(x, d)
  BY <1>1, RunTyped
<1>3. /\ event \in [Events -> Event] /\ event[d] \in Event /\ EventInv(d)
      /\ emitted[d] = event[d].retries + 1 /\ event[d].status \in {"PROCESSING", "PROCESSED"}
      /\ relay[x].retries = event[d].retries
  BY <1>1, <1>2 DEF OutboxInv, OutboxTyped, RunInv
<1>4. event[d].retries \in 0..MaxRetries
  BY <1>3 DEF EventInv, Event, MaxRetries
<1> DEFINE new == [status |-> IF event[d].retries >= MaxRetries THEN "FAILED" ELSE "PENDING",
                   retries |-> event[d].retries + 1]
           written == [event EXCEPT ![d] = new]
<1>5. new \in Event
  BY <1>4 DEF Event, EventStatuses, MaxRetries
<1>6. written \in [Events -> Event] /\ written[d] = new /\ \A e \in Events : e # d => written[e] = event[e]
  BY <1>3, <1>5
<1>7. /\ event' \in {event, written}
      /\ \/ event' = written /\ RelayGoto(x, "next")
         \/ relay' = [relay EXCEPT ![x] = NoRun]
  BY <1>2, <1>3 DEF RelayFail
<1>8. ASSUME NEW e \in Events PROVE EventInv(e)'
  <2>1. EventInv(e)
    BY DEF OutboxInv
  <2>2. CASE event'[e] = event[e]
    BY <1>1, <2>1, <2>2 DEF EventInv
  <2>3. CASE event'[e] # event[e]
    <3>1. e = d /\ event'[e] = new
      BY <1>6, <1>7, <2>3
    <3>2. QED
      BY <1>1, <1>3, <1>4, <3>1 DEF EventInv, MaxRetries
  <2>4. QED
    BY <2>2, <2>3
<1> HIDE DEF written
<1>9. event' \in [Events -> Event] /\ \A e \in Events : e # d => event'[e] = event[e]
  BY <1>3, <1>6, <1>7
<1>10. CASE relay' = [relay EXCEPT ![x] = NoRun]
  BY <1>1, <1>2, <1>8, <1>9, <1>10, RunEnds
<1>11. CASE RelayGoto(x, "next")
  BY <1>1, <1>2, <1>8, <1>9, <1>11, RunGoes
<1>12. QED
  BY <1>7, <1>10, <1>11

LEMMA RelayEndsKeeps ==
    ASSUME OutboxInv, NEW x \in Relays, RelayEnds(x)
    PROVE  OutboxInv'
<1>1. relay' = [relay EXCEPT ![x] = NoRun] /\ emitted' = emitted /\ event' = event
  BY DEF RelayEnds
<1>2. event' \in [Events -> Event] /\ \A e \in Events : EventInv(e)'
  BY <1>1 DEF OutboxInv, OutboxTyped, EventInv
<1>3. QED
  BY <1>1, <1>2, RunEnds

\* A process that ends takes its runs with it, and leaves the rows they hold.
LEMMA OutboxEnds ==
    ASSUME OutboxInv, NEW p \in Processes, NEW state, Ends(p, state)
    PROVE  OutboxInv'
<1>1. /\ relay' = [x \in Relays |-> IF relay[x].process = p THEN NoRun ELSE relay[x]]
      /\ event' = event /\ emitted' = emitted
  BY DEF Ends
<1>2. OutboxTyped'
  BY <1>1, NoRunTyped DEF OutboxInv, OutboxTyped
<1>3. \A e \in Events : EventInv(e)'
  BY <1>1 DEF OutboxInv, EventInv
<1>4. ASSUME NEW x \in Relays PROVE RunInv(x)'
  <2>1. CASE relay'[x] = NoRun
    BY <2>1 DEF RunInv, NoRun
  <2>2. CASE relay'[x] # NoRun
    <3>1. relay'[x] = relay[x]
      BY <1>1, <2>2
    <3>2. QED
      BY <1>1, <3>1, RunKept
  <2>3. QED
    BY <2>1, <2>2
<1>5. \A x \in Relays, e \in Events : Holds(x, e)' => Holds(x, e)
  BY <1>1 DEF Holds, NoRun
<1>6. HeldOnce'
  BY <1>5 DEF OutboxInv, HeldOnce
<1>7. QED
  BY <1>2, <1>3, <1>4, <1>6 DEF OutboxInv

LEMMA OutboxKept ==
    ASSUME OutboxInv, UNCHANGED outboxVars
    PROVE  OutboxInv'
BY DEF outboxVars, OutboxInv, OutboxTyped, EventInv, RunInv, HeldOnce, Holds

LEMMA OutboxStep == OutboxInv /\ [Next]_vars => OutboxInv'
<1> SUFFICES ASSUME OutboxInv, [Next]_vars PROVE OutboxInv'
  OBVIOUS
<1>1. ASSUME NEW e \in Events, WriteEvent(e) PROVE OutboxInv'
  BY <1>1, WriteEventKeeps
<1>2. ASSUME NEW x \in Relays, RelayStep(x) \/ \E p \in Processes : RelayTick(x, p)
      PROVE  OutboxInv'
  BY <1>2, RelayEmitKeeps, RelayEndsKeeps, RelayMarkKeeps, RelayReadKeeps, RelayFailKeeps,
     RelayTickKeeps DEF RelayStep
<1>3. ASSUME NEW p \in Processes, NEW state, Ends(p, state) PROVE OutboxInv'
  BY <1>3, OutboxEnds
<1>4. CASE UNCHANGED outboxVars
  BY <1>4, OutboxKept
<1>5. ASSUME NEW j \in Jobs, JobStep(j) PROVE UNCHANGED outboxVars
  BY <1>5 DEF JobStep, SendCampaign, JobEnds, Stalled, DeadLetter, Mail, MailThrows, TakeJob
<1>6. ASSUME NEW s \in Signals, FeedStep(s) PROVE UNCHANGED outboxVars
  BY <1>6 DEF FeedStep, CreateSignal, CloseSignal, Publish, PublishFails
<1>7. ASSUME NEW p \in Processes, Lifecycle(p) \/ Deliver(p) PROVE OutboxInv'
  BY <1>3, <1>4, <1>7 DEF Lifecycle, Deliver, Sigterm, ServerClosed, Exit, ForcedExit, Crash, Start
<1>8. ASSUME NEW c \in Clients, Disconnect(c) \/ \E p \in Processes : Connect(c, p)
      PROVE  UNCHANGED outboxVars
  BY <1>8 DEF Disconnect, Connect
<1>9. ASSUME NEW q \in Requests, FinishRequest(q) \/ \E p \in Processes : StartRequest(q, p)
      PROVE  UNCHANGED outboxVars
  BY <1>9 DEF FinishRequest, StartRequest
<1>10. UNCHANGED vars => UNCHANGED outboxVars
  BY DEF vars
<1>11. QED
  BY <1>1, <1>2, <1>4, <1>5, <1>6, <1>7, <1>8, <1>9, <1>10 DEF Next

-----------------------------------------------------------------------------
(* Broadcasts.                                                              *)

LEMMA JobTyped ==
    ASSUME JobsInv, NEW j \in Jobs
    PROVE  /\ job[j] \in Job /\ job[j].stalls \in {0, 1} /\ JobInv(j)
           /\ \A u \in Recipients : mailed[j][u] \in Nat
<1>1. job[j] \in Job /\ mailed[j] \in [Recipients -> 0..2] /\ JobInv(j)
  BY DEF JobsInv, JobsTyped
<1>2. job[j].stalls \in {0, 1}
  BY <1>1 DEF Job
<1>3. QED
  BY <1>1, <1>2

LEMMA NoneIsNone == None \notin Processes /\ None \notin Events
  BY NoneAssumption

LEMMA JobsStart == Init => JobsInv
<1> SUFFICES ASSUME Init PROVE JobsInv
  OBVIOUS
<1>1. job = [j \in Jobs |-> NoJob] /\ mailed = [j \in Jobs |-> [u \in Recipients |-> 0]]
  BY DEF Init
<1>2. NoJob \in Job
  BY DEF NoJob, Job
<1>3. JobsTyped
  BY <1>1, <1>2 DEF JobsTyped
<1>4. \A j \in Jobs : JobInv(j)
  BY <1>1 DEF JobInv, Running, NoJob
<1>5. QED
  BY <1>3, <1>4 DEF JobsInv

\* A step of one job.
LEMMA OneJob ==
    ASSUME JobsInv, NEW j \in Jobs, NEW new \in Job, job' = [job EXCEPT ![j] = new],
           NEW mails \in [Recipients -> Nat], mailed' = [mailed EXCEPT ![j] = mails],
           JobInv(j)'
    PROVE  JobsInv'
<1>1. /\ job' \in [Jobs -> Job] /\ job'[j] = new /\ mailed'[j] = mails
      /\ \A i \in Jobs : i # j => job'[i] = job[i] /\ mailed'[i] = mailed[i]
  BY DEF JobsInv, JobsTyped
<1>2. \A u \in Recipients : mails[u] \in 0..2
  <2>1. new.stalls \in {0, 1}
    BY DEF Job
  <2>2. \A u \in Recipients : mails[u] <= new.stalls + 1
    BY <1>1 DEF JobInv
  <2>3. QED
    BY <2>1, <2>2
<1>3. mailed' \in [Jobs -> [Recipients -> 0..2]]
  <2>1. mails \in [Recipients -> 0..2]
    BY <1>2
  <2>2. QED
    BY <2>1 DEF JobsInv, JobsTyped
<1>4. ASSUME NEW i \in Jobs PROVE JobInv(i)'
  <2>1. CASE i = j
    BY <2>1
  <2>2. CASE i # j
    <3>1. JobInv(i)
      BY DEF JobsInv
    <3>2. QED
      BY <1>1, <2>2, <3>1 DEF JobInv, Running
  <2>3. QED
    BY <2>1, <2>2
<1>5. QED
  BY <1>1, <1>3, <1>4 DEF JobsInv, JobsTyped

\* ... that mails nobody.
LEMMA OneJobAlone ==
    ASSUME JobsInv, NEW j \in Jobs, NEW new \in Job, job' = [job EXCEPT ![j] = new],
           mailed' = mailed, JobInv(j)'
    PROVE  JobsInv'
<1>1. mailed \in [Jobs -> [Recipients -> 0..2]]
  BY DEF JobsInv, JobsTyped
<1>2. mailed' = [mailed EXCEPT ![j] = mailed[j]]
  BY <1>1
<1>3. mailed[j] \in [Recipients -> Nat]
  BY <1>1
<1>4. QED
  BY <1>2, <1>3, OneJob

\* A recipient more has been mailed, or not.
LEMMA OneMail ==
    ASSUME JobsInv, NEW j \in Jobs, NEW u \in Recipients, NEW new \in Job,
           job' = [job EXCEPT ![j] = new],
           mailed' = [mailed EXCEPT ![j][u] = @ + 1],
           JobInv(j)'
    PROVE  JobsInv'
<1> DEFINE mails == [mailed[j] EXCEPT ![u] = @ + 1]
<1>1. mailed \in [Jobs -> [Recipients -> 0..2]]
  BY DEF JobsInv, JobsTyped
<1>2. mailed' = [mailed EXCEPT ![j] = mails]
  BY <1>1
<1>3. mails \in [Recipients -> Nat]
  BY <1>1
<1> HIDE DEF mails
<1>4. QED
  BY <1>2, <1>3, OneJob

LEMMA JobChanged ==
    ASSUME JobsInv, NEW j \in Jobs, NEW new, job' = [job EXCEPT ![j] = new]
    PROVE  job'[j] = new
BY DEF JobsInv, JobsTyped

\* The job leaves its worker, and nobody else is mailed.
LEMMA JobGoesKeeps ==
    ASSUME JobsInv, NEW j \in Jobs, NEW state \in {"waiting", "completed", "failed", "dead"},
           JobGoes(j, state), mailed' = mailed,
           state = "waiting" => job[j].state = "none",
           state = "completed" => Running(j) /\ job[j].sent
    PROVE  JobsInv'
<1> DEFINE new == [job[j] EXCEPT !.state = state, !.process = None]
<1>1. job' = [job EXCEPT ![j] = new]
  BY DEF JobGoes, JobsInv, JobsTyped
<1>2. job[j] \in Job /\ JobInv(j) /\ job[j].stalls \in {0, 1} /\ \A u \in Recipients : mailed[j][u] \in Nat
  BY JobTyped
<1>3. /\ new \in Job /\ new.state = state /\ new.process = None /\ new.stalls = job[j].stalls
  BY <1>2 DEF Job
<1> HIDE DEF new
<1>4. job'[j] = new
  BY <1>1, JobChanged
<1>5. JobInv(j)'
  BY <1>2, <1>3, <1>4 DEF JobInv, Running
<1>6. QED
  BY <1>1, <1>3, <1>5, OneJobAlone

LEMMA TakeJobKeeps ==
    ASSUME JobsInv, NEW p \in Processes, NEW j \in Jobs, TakeJob(p, j)
    PROVE  JobsInv'
<1> DEFINE new == [job[j] EXCEPT !.state = "active", !.process = p,
                                 !.todo = Recipients, !.sent = FALSE]
<1>1. job[j].state = "waiting" /\ job' = [job EXCEPT ![j] = new] /\ mailed' = mailed
  BY DEF TakeJob, JobsInv, JobsTyped
<1>2. job[j] \in Job /\ JobInv(j) /\ job[j].stalls \in {0, 1} /\ \A u \in Recipients : mailed[j][u] \in Nat
  BY JobTyped
<1>3. /\ new \in Job /\ new.state = "active" /\ new.process = p /\ new.stalls = job[j].stalls
      /\ ~new.sent
  BY <1>2 DEF Job
<1> HIDE DEF new
<1>4. job'[j] = new
  BY <1>1, JobChanged
<1>5. JobInv(j)'
  BY <1>1, <1>2, <1>3, <1>4 DEF JobInv, Running
<1>6. QED
  BY <1>1, <1>3, <1>5, OneJobAlone

LEMMA MailKeeps ==
    ASSUME JobsInv, NEW j \in Jobs, NEW u \in Recipients, Mail(j, u)
    PROVE  JobsInv'
<1>1. /\ Running(j) /\ u \in job[j].todo
      /\ job[j] \in Job /\ JobInv(j) /\ job[j].stalls \in {0, 1}
      /\ \A v \in Recipients : mailed[j][v] \in Nat
  BY JobTyped DEF Mail
<1>2. mailed[j][u] <= job[j].stalls
  BY <1>1 DEF JobInv
<1>3. mailed \in [Jobs -> [Recipients -> 0..2]]
  BY DEF JobsInv, JobsTyped
<1>4. CASE /\ job' = [job EXCEPT ![j] = [job[j] EXCEPT !.todo = @ \ {u}, !.sent = TRUE]]
           /\ mailed' = [mailed EXCEPT ![j][u] = @ + 1]
  <2> DEFINE new == [job[j] EXCEPT !.todo = @ \ {u}, !.sent = TRUE]
  <2>1. /\ new \in Job /\ new.state = job[j].state /\ new.process = job[j].process
        /\ new.stalls = job[j].stalls /\ new.todo = job[j].todo \ {u}
    BY <1>1 DEF Job
  <2> HIDE DEF new
  <2>2. job' = [job EXCEPT ![j] = new]
    BY <1>4 DEF new
  <2>3. job'[j] = new
    BY <2>2, JobChanged
  <2>4. /\ mailed'[j][u] = mailed[j][u] + 1
        /\ \A v \in Recipients : v # u => mailed'[j][v] = mailed[j][v]
    BY <1>3, <1>4
  <2>5. mailed'[j][u] <= job[j].stalls + 1 /\ mailed'[j][u] > 0
    BY <1>1, <1>2, <2>4
  <2>6. JobInv(j)'
    BY <1>1, <2>1, <2>3, <2>4, <2>5 DEF JobInv, Running
  <2>7. QED
    BY <1>4, <2>1, <2>2, <2>6, OneMail
<1>5. CASE job' = [job EXCEPT ![j].todo = @ \ {u}] /\ mailed' = mailed
  <2> DEFINE new == [job[j] EXCEPT !.todo = @ \ {u}]
  <2>1. /\ new \in Job /\ new.state = job[j].state /\ new.process = job[j].process
        /\ new.stalls = job[j].stalls /\ new.todo = job[j].todo \ {u}
        /\ new.sent = job[j].sent
    BY <1>1 DEF Job
  <2>2. job' = [job EXCEPT ![j] = new]
    BY <1>5 DEF JobsInv, JobsTyped
  <2> HIDE DEF new
  <2>3. job'[j] = new
    BY <2>2, JobChanged
  <2>4. JobInv(j)'
    BY <1>1, <1>5, <2>1, <2>3 DEF JobInv, Running
  <2>5. QED
    BY <1>5, <2>1, <2>2, <2>4, OneJobAlone
<1>6. QED
  BY <1>4, <1>5 DEF Mail

LEMMA MailThrowsKeeps ==
    ASSUME JobsInv, NEW j \in Jobs, NEW u \in Recipients, MailThrows(j, u)
    PROVE  JobsInv'
<1>1. /\ Running(j) /\ u \in job[j].todo /\ JobGoes(j, "failed")
      /\ job[j] \in Job /\ JobInv(j) /\ job[j].stalls \in {0, 1}
      /\ \A v \in Recipients : mailed[j][v] \in Nat
  BY JobTyped DEF MailThrows
<1>2. CASE mailed' = mailed
  BY <1>1, <1>2, JobGoesKeeps
<1>3. CASE mailed' = [mailed EXCEPT ![j][u] = @ + 1]
  <2> DEFINE new == [job[j] EXCEPT !.state = "failed", !.process = None]
  <2>1. job' = [job EXCEPT ![j] = new]
    BY <1>1 DEF JobGoes, JobsInv, JobsTyped
  <2>2. new \in Job /\ new.state = "failed" /\ new.process = None /\ new.stalls = job[j].stalls
    BY <1>1 DEF Job
  <2> HIDE DEF new
  <2>3. job'[j] = new
    BY <2>1, JobChanged
  <2>4. mailed \in [Jobs -> [Recipients -> 0..2]]
    BY DEF JobsInv, JobsTyped
  <2>5. /\ mailed'[j][u] = mailed[j][u] + 1
        /\ \A v \in Recipients : v # u => mailed'[j][v] = mailed[j][v]
    BY <1>3, <2>4
  <2>6. mailed[j][u] <= job[j].stalls
    BY <1>1 DEF JobInv
  <2>7. JobInv(j)'
    BY <1>1, <2>2, <2>3, <2>5, <2>6 DEF JobInv, Running
  <2>8. QED
    BY <1>3, <2>1, <2>2, <2>7, OneMail
<1>4. QED
  BY <1>2, <1>3 DEF MailThrows

LEMMA StalledKeeps ==
    ASSUME JobsInv, NEW j \in Jobs, Stalled(j)
    PROVE  JobsInv'
<1> DEFINE again == [job[j] EXCEPT !.state = "waiting", !.stalls = 1]
           lost == [job[j] EXCEPT !.state = "failed"]
           new == IF job[j].stalls = 0 THEN again ELSE lost
<1>1. job[j].state = "active" /\ ~Running(j) /\ mailed' = mailed /\ job' = [job EXCEPT ![j] = new]
  BY DEF Stalled, JobsInv, JobsTyped
<1>2. job[j] \in Job /\ JobInv(j) /\ job[j].stalls \in {0, 1} /\ \A u \in Recipients : mailed[j][u] \in Nat
  BY JobTyped
<1>3. job[j].process = None
  BY <1>1 DEF Running
<1>4. again \in Job /\ again.state = "waiting" /\ again.stalls = 1 /\ again.process = None
  <2>1. again.state = "waiting" /\ again.stalls = 1 /\ again.process = None
    BY <1>2, <1>3 DEF Job
  <2>2. \A n \in 0..1 : [job[j] EXCEPT !.state = "waiting", !.stalls = n] \in Job
    BY <1>2 DEF Job
  <2>3. 1 \in 0..1
    OBVIOUS
  <2>4. again \in Job
    BY <2>2, <2>3
  <2>5. QED
    BY <2>1, <2>4
<1>0. lost \in Job /\ lost.state = "failed" /\ lost.stalls = job[j].stalls /\ lost.process = None
  BY <1>2, <1>3 DEF Job
<1> HIDE DEF again, lost
<1>5. job'[j] = new
  BY <1>1, JobChanged
<1>6. JobInv(j)'
  BY <1>0, <1>1, <1>2, <1>4, <1>5 DEF JobInv, Running
<1>7. QED
  BY <1>0, <1>1, <1>4, <1>6, OneJobAlone

LEMMA JobsEnd ==
    ASSUME JobsInv, NEW p \in Processes, NEW state, Ends(p, state)
    PROVE  JobsInv'
<1>1. /\ job' = [j \in Jobs |-> IF job[j].process = p THEN [job[j] EXCEPT !.process = None]
                                ELSE job[j]]
      /\ mailed' = mailed
  BY DEF Ends
<1>2. ASSUME NEW j \in Jobs PROVE job'[j] \in Job /\ JobInv(j)'
  <2>1. job[j] \in Job /\ JobInv(j) /\ job[j].stalls \in {0, 1} /\ \A u \in Recipients : mailed[j][u] \in Nat
    BY JobTyped
  <2>2. CASE job[j].process = p
    <3>1. /\ job'[j] \in Job /\ job'[j].process = None /\ job'[j].state = job[j].state
          /\ job'[j].stalls = job[j].stalls
      BY <1>1, <2>1, <2>2 DEF Job
    <3>2. job[j].state = "active"
      BY <2>1, <2>2, NoneIsNone DEF JobInv
    <3>3. QED
      BY <1>1, <2>1, <3>1, <3>2 DEF JobInv, Running
  <2>3. CASE job[j].process # p
    <3>1. job'[j] = job[j]
      BY <1>1, <2>3
    <3>2. QED
      BY <1>1, <2>1, <3>1 DEF JobInv, Running
  <2>4. QED
    BY <2>2, <2>3
<1>3. job' \in [Jobs -> Job]
  BY <1>1, <1>2
<1>4. QED
  BY <1>1, <1>2, <1>3 DEF JobsInv, JobsTyped

LEMMA JobsKept ==
    ASSUME JobsInv, UNCHANGED jobVars
    PROVE  JobsInv'
BY DEF jobVars, JobsInv, JobsTyped, JobInv, Running

LEMMA JobsStep == JobsInv /\ [Next]_vars => JobsInv'
<1> SUFFICES ASSUME JobsInv, [Next]_vars PROVE JobsInv'
  OBVIOUS
<1>1. ASSUME NEW j \in Jobs, JobStep(j) PROVE JobsInv'
  <2>1. CASE SendCampaign(j) \/ JobEnds(j) \/ DeadLetter(j)
    BY <2>1, JobGoesKeeps DEF SendCampaign, JobEnds, DeadLetter
  <2>2. QED
    BY <1>1, <2>1, StalledKeeps, MailKeeps, MailThrowsKeeps, TakeJobKeeps DEF JobStep
<1>2. ASSUME NEW p \in Processes, NEW state, Ends(p, state) PROVE JobsInv'
  BY <1>2, JobsEnd
<1>3. CASE UNCHANGED jobVars
  BY <1>3, JobsKept
<1>4. ASSUME NEW e \in Events, WriteEvent(e) PROVE UNCHANGED jobVars
  BY <1>4 DEF WriteEvent
<1>5. ASSUME NEW x \in Relays, RelayStep(x) \/ \E p \in Processes : RelayTick(x, p)
      PROVE  UNCHANGED jobVars
  BY <1>5 DEF RelayStep, RelayEmit, RelayEnds, RelayMark, RelayRead, RelayFail, RelayTick
<1>6. ASSUME NEW s \in Signals, FeedStep(s) PROVE UNCHANGED jobVars
  BY <1>6 DEF FeedStep, CreateSignal, CloseSignal, Publish, PublishFails
<1>7. ASSUME NEW p \in Processes, Lifecycle(p) \/ Deliver(p) PROVE JobsInv'
  BY <1>2, <1>3, <1>7 DEF Lifecycle, Deliver, Sigterm, ServerClosed, Exit, ForcedExit, Crash, Start
<1>8. ASSUME NEW c \in Clients, Disconnect(c) \/ \E p \in Processes : Connect(c, p)
      PROVE  UNCHANGED jobVars
  BY <1>8 DEF Disconnect, Connect
<1>9. ASSUME NEW q \in Requests, FinishRequest(q) \/ \E p \in Processes : StartRequest(q, p)
      PROVE  UNCHANGED jobVars
  BY <1>9 DEF FinishRequest, StartRequest
<1>10. UNCHANGED vars => UNCHANGED jobVars
  BY DEF vars
<1>11. QED
  BY <1>1, <1>3, <1>4, <1>5, <1>6, <1>7, <1>8, <1>9, <1>10 DEF Next

-----------------------------------------------------------------------------
(* The feed.                                                                *)

LEMMA FeedStart == Init => FeedInv
<1> SUFFICES ASSUME Init PROVE FeedInv
  OBVIOUS
<1>1. /\ signal = [s \in Signals |-> [state |-> "none", due |-> {}]]
      /\ log = <<>> /\ queue = [p \in Processes |-> <<>>]
      /\ gap = [p \in Processes |-> FALSE]
      /\ stream = [c \in Clients |-> None] /\ last = [c \in Clients |-> 0]
  BY DEF Init
<1>2. Len(log) = 0 /\ log \in Seq(Signals \X {"CREATED", "CLOSED"})
  BY <1>1
<1>3. FeedTyped
  <2>1. <<>> \in Seq(1..MaxLog) /\ 0 \in 0..MaxLog
    BY BoundsAssumption
  <2>2. QED
    BY <1>1, <1>2, <2>1 DEF FeedTyped
<1>4. \A p \in Processes : QueueInv(p)
  BY <1>1 DEF QueueInv
<1>5. \A c \in Clients, p \in Processes : StreamInv(c, p)
  BY <1>1, NoneIsNone DEF StreamInv
<1>6. Len(log) <= MaxLog /\ \A c \in Clients : last[c] <= Len(log)
  BY <1>1, <1>2, BoundsAssumption
<1>7. QED
  BY <1>3, <1>4, <1>5, <1>6 DEF FeedInv

LEMMA QueueTyped ==
    ASSUME FeedInv, NEW p \in Processes
    PROVE  /\ queue[p] \in Seq(1..MaxLog) /\ Len(queue[p]) \in Nat /\ QueueInv(p)
           /\ \A i \in 1..Len(queue[p]) : queue[p][i] \in Nat
           /\ Len(log) \in 0..MaxLog /\ Len(log) \in Nat
           /\ queue[p] # <<>> => /\ Len(queue[p]) > 0 /\ Head(queue[p]) = queue[p][1]
                                 /\ Head(queue[p]) \in 1..MaxLog
<1>1. queue[p] \in Seq(1..MaxLog) /\ log \in Seq(Signals \X {"CREATED", "CLOSED"})
  BY DEF FeedInv, FeedTyped
<1>2. Len(queue[p]) \in Nat /\ Len(log) \in Nat
  BY <1>1, LenProperties
<1>3. \A i \in 1..Len(queue[p]) : queue[p][i] \in 1..MaxLog
  BY <1>1, LenProperties
<1>4. queue[p] # <<>> => /\ Len(queue[p]) > 0 /\ Head(queue[p]) = queue[p][1]
                         /\ Head(queue[p]) \in 1..MaxLog
  BY <1>1, <1>3
<1>5. Len(log) \in 0..MaxLog /\ QueueInv(p)
  BY <1>2, BoundsAssumption DEF FeedInv
<1>6. QED
  BY <1>1, <1>2, <1>3, <1>4, <1>5, BoundsAssumption

\* Processes may come and go, but not those with a queue or a stream.
LEMMA FeedStays ==
    ASSUME FeedInv, UNCHANGED <<log, queue, gap, stream, last>>,
           signal' \in [Signals -> [state: {"none", "ACTIVE", "CLOSED"},
                                    due: SUBSET {"CREATED", "CLOSED"}]],
           \A p \in Processes :
              /\ Alive(p) => Alive(p)' /\ (process'[p] = "draining" => process[p] = "draining"
                                              \/ \A c \in Clients : stream[c] # p)
    PROVE  FeedInv'
<1>1. FeedTyped'
  BY DEF FeedInv, FeedTyped
<1>2. ASSUME NEW p \in Processes PROVE QueueInv(p)'
  <2>1. QueueInv(p)
    BY DEF FeedInv
  <2>2. QED
    BY <2>1 DEF QueueInv
<1>3. ASSUME NEW c \in Clients, NEW p \in Processes PROVE StreamInv(c, p)'
  <2>1. StreamInv(c, p)
    BY DEF FeedInv
  <2>2. QED
    BY <2>1 DEF StreamInv
<1>4. QED
  BY <1>1, <1>2, <1>3 DEF FeedInv

LEMMA SignalKeeps ==
    ASSUME FeedInv, NEW s \in Signals, NEW type \in {"CREATED", "CLOSED"},
           CreateSignal(s) \/ CloseSignal(s) \/ PublishFails(s, type)
    PROVE  FeedInv'
<1>1. UNCHANGED <<process, log, queue, gap, stream, last>>
  BY DEF CreateSignal, CloseSignal, PublishFails
<1>2. signal' \in [Signals -> [state: {"none", "ACTIVE", "CLOSED"},
                               due: SUBSET {"CREATED", "CLOSED"}]]
  <2>1. signal \in [Signals -> [state: {"none", "ACTIVE", "CLOSED"},
                                due: SUBSET {"CREATED", "CLOSED"}]]
    BY DEF FeedInv, FeedTyped
  <2>2. signal[s].due \subseteq {"CREATED", "CLOSED"}
    BY <2>1
  <2>3. QED
    BY <2>1, <2>2 DEF CreateSignal, CloseSignal, PublishFails
<1>3. QED
  BY <1>1, <1>2, FeedStays DEF Alive

\* The message is the last of every queue that gets it.
LEMMA PublishKeeps ==
    ASSUME FeedInv, NEW s \in Signals, NEW type \in {"CREATED", "CLOSED"},
           NEW heard \in SUBSET Processes, Publish(s, type, heard)
    PROVE  FeedInv'
<1> DEFINE n == Len(log) + 1
<1>1. /\ n <= MaxLog /\ \A p \in heard : Alive(p)
      /\ signal' = [signal EXCEPT ![s].due = @ \ {type}]
      /\ log' = Append(log, <<s, type>>)
      /\ queue' = [p \in Processes |-> IF p \in heard THEN Append(queue[p], n) ELSE queue[p]]
      /\ gap' = [p \in Processes |-> gap[p] \/ (Alive(p) /\ p \notin heard)]
      /\ UNCHANGED <<process, stream, last>>
  BY DEF Publish
<1>2. Len(log) \in Nat /\ n \in 1..MaxLog
  <2>1. log \in Seq(Signals \X {"CREATED", "CLOSED"})
    BY DEF FeedInv, FeedTyped
  <2>2. Len(log) \in Nat
    BY <2>1, LenProperties
  <2>3. QED
    BY <1>1, <2>2, BoundsAssumption
<1>3. log' \in Seq(Signals \X {"CREATED", "CLOSED"}) /\ Len(log') = n
  <2>1. <<s, type>> \in Signals \X {"CREATED", "CLOSED"}
    OBVIOUS
  <2>2. log \in Seq(Signals \X {"CREATED", "CLOSED"})
    BY DEF FeedInv, FeedTyped
  <2>3. QED
    BY <1>1, <2>1, <2>2, AppendProperties
<1>4. signal' \in [Signals -> [state: {"none", "ACTIVE", "CLOSED"},
                               due: SUBSET {"CREATED", "CLOSED"}]]
  BY <1>1 DEF FeedInv, FeedTyped
<1>5. ASSUME NEW p \in heard
      PROVE  /\ p \in Processes /\ queue'[p] \in Seq(1..MaxLog)
             /\ Len(queue'[p]) = Len(queue[p]) + 1
             /\ \A i \in 1..Len(queue[p]) : queue'[p][i] = queue[p][i]
             /\ queue'[p][Len(queue[p]) + 1] = n
  <2>1. queue[p] \in Seq(1..MaxLog) /\ queue'[p] = Append(queue[p], n)
    BY <1>1, QueueTyped
  <2> HIDE DEF n
  <2>2. QED
    BY <1>2, <2>1, AppendProperties
<1>6. ASSUME NEW p \in Processes PROVE queue'[p] \in Seq(1..MaxLog) /\ QueueInv(p)'
  <2>1. /\ QueueInv(p) /\ Len(queue[p]) \in Nat /\ queue[p] \in Seq(1..MaxLog)
        /\ \A i \in 1..Len(queue[p]) : queue[p][i] \in Nat
    BY QueueTyped
  <2>2. gap'[p] = (gap[p] \/ (Alive(p) /\ p \notin heard)) /\ gap[p] \in BOOLEAN
    BY <1>1 DEF FeedInv, FeedTyped
  <2>3. CASE p \in heard
    <3>1. ASSUME NEW i \in 1..Len(queue'[p])
          PROVE  /\ queue'[p][i] <= Len(log')
                 /\ ~gap'[p] => queue'[p][i] + Len(queue'[p]) = Len(log') + i
      <4>1. CASE i = Len(queue[p]) + 1
        <5>1. queue'[p][i] = n /\ Len(log') = n /\ Len(queue'[p]) = i
          BY <1>3, <1>5, <2>3, <4>1
        <5>2. i \in Nat /\ n \in Nat
          BY <1>2, <2>1, <4>1
        <5>3. QED
          BY <5>1, <5>2
      <4>2. CASE i # Len(queue[p]) + 1
        <5>1. i \in 1..Len(queue[p]) /\ queue'[p][i] = queue[p][i]
          BY <1>5, <2>1, <2>3, <3>1, <4>2
        <5>2. queue[p][i] <= Len(log) /\ (~gap[p] => queue[p][i] + Len(queue[p]) = Len(log) + i)
          BY <2>1, <5>1 DEF QueueInv
        <5>3. Len(log') = Len(log) + 1 /\ Len(queue'[p]) = Len(queue[p]) + 1
          BY <1>3, <1>5, <2>3
        <5>4. queue[p][i] \in Nat /\ i \in Nat
          BY <2>1, <5>1
        <5>5. queue'[p][i] <= Len(log')
          BY <1>2, <5>1, <5>2, <5>3, <5>4
        <5>6. ASSUME ~gap[p] PROVE queue'[p][i] + Len(queue'[p]) = Len(log') + i
          <6>1. \A k, l, m, o \in Nat : k + l = m + o => k + (l + 1) = (m + 1) + o
            OBVIOUS
          <6>2. queue[p][i] + Len(queue[p]) = Len(log) + i
            BY <5>2, <5>6
          <6>3. queue[p][i] \in Nat /\ Len(queue[p]) \in Nat /\ Len(log) \in Nat /\ i \in Nat
            BY <1>2, <2>1, <5>4
          <6>4. queue[p][i] + (Len(queue[p]) + 1) = (Len(log) + 1) + i
            BY <6>1, <6>2, <6>3
          <6>5. QED
            BY <5>1, <5>3, <6>4
        <5>7. QED
          BY <2>2, <5>5, <5>6
      <4>3. QED
        BY <4>1, <4>2
    <3>2. ASSUME NEW i \in 1..Len(queue'[p]) - 1
          PROVE  queue'[p][i] < queue'[p][i + 1]
      <4>1. i \in 1..Len(queue[p]) /\ queue'[p][i] = queue[p][i]
        BY <1>5, <2>1, <2>3, <3>2
      <4>2. CASE i = Len(queue[p])
        <5>1. queue[p][i] <= Len(log) /\ queue'[p][i + 1] = n
          BY <1>5, <2>1, <2>3, <4>1, <4>2 DEF QueueInv
        <5>2. QED
          BY <1>2, <2>1, <4>1, <5>1
      <4>3. CASE i # Len(queue[p])
        <5>1. i \in 1..Len(queue[p]) - 1 /\ i + 1 \in 1..Len(queue[p])
          BY <2>1, <4>1, <4>3
        <5>2. queue[p][i] < queue[p][i + 1] /\ queue'[p][i + 1] = queue[p][i + 1]
          BY <1>5, <2>1, <2>3, <5>1 DEF QueueInv
        <5>3. QED
          BY <4>1, <5>2
      <4>4. QED
        BY <4>2, <4>3
    <3>3. Alive(p)'
      BY <1>1, <2>3 DEF Alive
    <3>4. QED
      BY <1>5, <2>3, <3>1, <3>2, <3>3 DEF QueueInv
  <2>4. CASE p \notin heard
    <3>1. queue'[p] = queue[p] /\ Alive(p)' = Alive(p)
      BY <1>1, <2>4 DEF Alive
    <3>2. \A i \in 1..Len(queue[p]) : queue[p][i] <= Len(log')
      BY <1>2, <1>3, <2>1 DEF QueueInv
    <3>3. ~gap'[p] => queue[p] = <<>>
      BY <2>1, <2>2, <2>4 DEF QueueInv
    <3>4. QED
      BY <2>1, <3>1, <3>2, <3>3 DEF QueueInv
  <2>5. QED
    BY <2>3, <2>4
<1>7. ASSUME NEW c \in Clients, NEW p \in Processes, stream[c] = p
      PROVE  StreamInv(c, p)'
  <2>1. StreamInv(c, p) /\ last[c] <= Len(log) /\ last[c] \in Nat
    BY BoundsAssumption DEF FeedInv, FeedTyped
  <2>2. Alive(p) /\ Alive(p)' /\ process'[p] # "draining"
    BY <1>1, <1>7, <2>1 DEF StreamInv, Alive
  <2>3. CASE p \in heard
    <3>1. /\ queue[p] \in Seq(1..MaxLog) /\ Len(queue[p]) \in Nat
          /\ queue[p] # <<>> => Len(queue[p]) > 0 /\ Head(queue[p]) = queue[p][1]
      BY QueueTyped
    <3>2. queue'[p] # <<>> /\ Head(queue'[p]) = queue'[p][1]
      BY <1>5, <2>3, <3>1
    <3>3. last[c] < Head(queue'[p])
      <4>1. CASE queue[p] = <<>>
        <5>1. queue'[p][1] = n
          BY <1>5, <2>3, <4>1
        <5>2. QED
          BY <1>2, <2>1, <3>2, <5>1
      <4>2. CASE queue[p] # <<>>
        <5>1. queue'[p][1] = queue[p][1]
          BY <1>5, <2>3, <3>1, <4>2
        <5>2. last[c] < Head(queue[p])
          BY <1>7, <2>1, <4>2 DEF StreamInv
        <5>3. QED
          BY <3>1, <3>2, <4>2, <5>1, <5>2
      <4>3. QED
        BY <4>1, <4>2
    <3>4. ~gap'[p] => last[c] + Len(queue'[p]) = Len(log')
      <4>1. ~gap'[p] => ~gap[p]
        BY <1>1
      <4>2. ~gap[p] => last[c] + Len(queue[p]) = Len(log)
        BY <1>7, <2>1 DEF StreamInv
      <4>3. Len(log') = Len(log) + 1 /\ Len(queue'[p]) = Len(queue[p]) + 1
        BY <1>3, <1>5, <2>3
      <4>4. ASSUME ~gap[p] PROVE last[c] + Len(queue'[p]) = Len(log')
        <5>1. \A k, l, m \in Nat : k + l = m => k + (l + 1) = m + 1
          OBVIOUS
        <5>2. last[c] + (Len(queue[p]) + 1) = Len(log) + 1
          BY <1>2, <2>1, <3>1, <4>2, <4>4, <5>1
        <5>3. QED
          BY <4>3, <5>2
      <4>5. QED
        BY <4>1, <4>4
    <3>5. QED
      BY <1>1, <2>2, <3>3, <3>4 DEF StreamInv
  <2>4. CASE p \notin heard
    <3>1. gap'[p] /\ queue'[p] = queue[p]
      BY <1>1, <2>2, <2>4
    <3>2. QED
      BY <1>1, <1>7, <2>1, <2>2, <3>1 DEF StreamInv
  <2>5. QED
    BY <2>3, <2>4
<1>8. \A c \in Clients, p \in Processes : StreamInv(c, p)'
  BY <1>1, <1>7 DEF StreamInv
<1>9. FeedTyped'
  <2>1. queue' \in [Processes -> Seq(1..MaxLog)]
    BY <1>1, <1>6
  <2>2. gap' \in [Processes -> BOOLEAN]
    BY <1>1
  <2>3. QED
    BY <1>1, <1>3, <1>4, <2>1, <2>2 DEF FeedInv, FeedTyped
<1>10. Len(log') <= MaxLog /\ \A c \in Clients : last'[c] <= Len(log')
  <2>1. \A c \in Clients : last[c] \in 0..MaxLog /\ last[c] <= Len(log)
    BY DEF FeedInv, FeedTyped
  <2>2. QED
    BY <1>1, <1>2, <1>3, <2>1, BoundsAssumption
<1>11. QED
  BY <1>6, <1>8, <1>9, <1>10 DEF FeedInv

LEMMA DeliverKeeps ==
    ASSUME FeedInv, NEW p \in Processes, Deliver(p)
    PROVE  FeedInv'
<1> DEFINE q == queue[p]
<1>1. /\ q # <<>>
      /\ last' = [c \in Clients |-> IF stream[c] = p THEN Head(q) ELSE last[c]]
      /\ queue' = [queue EXCEPT ![p] = Tail(q)]
      /\ UNCHANGED <<process, signal, log, gap, stream>>
  BY DEF Deliver
<1>2. /\ q \in Seq(1..MaxLog) /\ Len(q) \in Nat /\ Len(q) > 0 /\ QueueInv(p)
      /\ Len(log) \in Nat /\ Head(q) = q[1] /\ Head(q) \in 1..MaxLog
      /\ \A i \in 1..Len(q) : q[i] \in Nat
  BY <1>1, QueueTyped
<1>3. /\ queue'[p] \in Seq(1..MaxLog) /\ Len(queue'[p]) = Len(q) - 1
      /\ \A i \in 1..Len(q) - 1 : queue'[p][i] = q[i + 1]
      /\ \A r \in Processes : r # p => queue'[r] = queue[r]
  <2>1. queue'[p] = Tail(q) /\ \A r \in Processes : r # p => queue'[r] = queue[r]
    BY <1>1 DEF FeedInv, FeedTyped
  <2>2. /\ Tail(q) \in Seq(1..MaxLog) /\ Len(Tail(q)) = Len(q) - 1
        /\ \A i \in 1..Len(Tail(q)) : Tail(q)[i] = q[i + 1]
    BY <1>1, <1>2, HeadTailProperties
  <2>3. QED
    BY <2>1, <2>2
<1>4. /\ \A i \in 1..Len(q) : q[i] <= Len(log)
      /\ \A i \in 1..Len(q) - 1 : q[i] < q[i + 1]
      /\ ~gap[p] => \A i \in 1..Len(q) : q[i] + Len(q) = Len(log) + i
      /\ Alive(p)
  BY <1>1, <1>2 DEF QueueInv
<1> HIDE DEF q
<1>5. QueueInv(p)'
  <2>1. ASSUME NEW i \in 1..Len(queue'[p])
        PROVE  /\ queue'[p][i] <= Len(log)
               /\ ~gap[p] => queue'[p][i] + Len(queue'[p]) = Len(log) + i
    <3>1. i \in Nat /\ i + 1 \in 1..Len(q) /\ queue'[p][i] = q[i + 1]
      <4>1. i \in 1..Len(q) - 1 /\ Len(q) \in Nat
        BY <1>2, <1>3, <2>1
      <4>2. i \in Nat /\ i + 1 \in 1..Len(q)
        BY <4>1
      <4>3. QED
        BY <1>3, <4>1, <4>2
    <3>2. ASSUME ~gap[p] PROVE q[i + 1] + (Len(q) - 1) = Len(log) + i
      <4>1. q[i + 1] + Len(q) = Len(log) + (i + 1)
        BY <1>4, <3>1, <3>2
      <4>2. \A k, l, m \in Nat : k + l = m + (i + 1) => k + (l - 1) = m + i
        BY <3>1
      <4>3. q[i + 1] \in Nat /\ Len(q) \in Nat /\ Len(log) \in Nat
        BY <1>2, <3>1
      <4>4. QED
        BY <4>1, <4>2, <4>3
    <3>3. QED
      BY <1>3, <1>4, <3>1, <3>2
  <2>2. ASSUME NEW i \in 1..Len(queue'[p]) - 1
        PROVE  queue'[p][i] < queue'[p][i + 1]
    <3>1. i \in 1..Len(q) - 1 /\ i + 1 \in 1..Len(q) - 1
      BY <1>2, <1>3, <2>2
    <3>2. queue'[p][i] = q[i + 1] /\ queue'[p][i + 1] = q[i + 1 + 1] /\ q[i + 1] < q[i + 1 + 1]
      BY <1>3, <1>4, <3>1
    <3>3. QED
      BY <3>2
  <2>3. QED
    BY <1>1, <1>4, <2>1, <2>2 DEF QueueInv, Alive
<1>6. ASSUME NEW r \in Processes PROVE QueueInv(r)'
  <2>1. CASE r = p
    BY <1>5, <2>1
  <2>2. CASE r # p
    <3>1. QueueInv(r) /\ queue'[r] = queue[r]
      BY <1>3, <2>2 DEF FeedInv
    <3>2. QED
      BY <1>1, <3>1 DEF QueueInv, Alive
  <2>3. QED
    BY <2>1, <2>2
<1>7. ASSUME NEW c \in Clients, NEW r \in Processes PROVE StreamInv(c, r)'
  <2>1. StreamInv(c, r)
    BY DEF FeedInv
  <2>2. CASE stream[c] = r /\ r = p
    <3>1. last'[c] = q[1] /\ q[1] \in Nat
      BY <1>1, <1>2, <2>2
    <3>2. queue'[p] # <<>> => last'[c] < Head(queue'[p])
      <4>1. CASE queue'[p] # <<>>
        <5>1. Len(queue'[p]) > 0 /\ Head(queue'[p]) = queue'[p][1]
          BY <1>3, <4>1
        <5>2. 1 \in 1..Len(q) - 1
          BY <1>2, <1>3, <5>1
        <5>3. q[1] < q[1 + 1] /\ queue'[p][1] = q[1 + 1]
          BY <1>3, <1>4, <5>2
        <5>4. QED
          BY <3>1, <5>1, <5>3
      <4>2. QED
        BY <4>1
    <3>3. ~gap[p] => last'[c] + Len(queue'[p]) = Len(log)
      <4>1. ASSUME ~gap[p] PROVE q[1] + (Len(q) - 1) = Len(log)
        <5>1. 1 \in 1..Len(q)
          BY <1>2
        <5>2. q[1] + Len(q) = Len(log) + 1
          BY <1>4, <4>1, <5>1
        <5>3. \A k, l, m \in Nat : k + l = m + 1 => k + (l - 1) = m
          OBVIOUS
        <5>4. QED
          BY <1>2, <3>1, <5>2, <5>3
      <4>2. QED
        BY <1>3, <3>1, <4>1
    <3>4. QED
      BY <1>1, <2>1, <2>2, <3>2, <3>3 DEF StreamInv, Alive
  <2>3. CASE stream[c] = r /\ r # p
    <3>1. last'[c] = last[c] /\ queue'[r] = queue[r]
      BY <1>1, <1>3, <2>3
    <3>2. QED
      BY <1>1, <2>1, <3>1 DEF StreamInv, Alive
  <2>4. CASE stream[c] # r
    BY <1>1, <2>4 DEF StreamInv
  <2>5. QED
    BY <2>2, <2>3, <2>4
<1>8. \A c \in Clients : last'[c] \in 0..MaxLog /\ last'[c] <= Len(log)
  <2>1. q[1] <= Len(log) /\ q[1] \in 0..MaxLog
    <3>1. 1 \in 1..Len(q)
      BY <1>2
    <3>2. QED
      BY <1>2, <1>4, <3>1, BoundsAssumption
  <2>2. \A c \in Clients : last[c] \in 0..MaxLog /\ last[c] <= Len(log)
    BY DEF FeedInv, FeedTyped
  <2>3. QED
    BY <1>1, <1>2, <2>1, <2>2
<1>9. FeedTyped'
  <2>1. queue' \in [Processes -> Seq(1..MaxLog)]
    BY <1>1, <1>3 DEF FeedInv, FeedTyped
  <2>2. last' \in [Clients -> 0..MaxLog]
    BY <1>1, <1>8
  <2>3. QED
    BY <1>1, <2>1, <2>2 DEF FeedInv, FeedTyped
<1>10. QED
  BY <1>1, <1>6, <1>7, <1>8, <1>9 DEF FeedInv

\* A stream begins after what the process has delivered, or has missed.
LEMMA ConnectKeeps ==
    ASSUME FeedInv, NEW c \in Clients, NEW p \in Processes, Connect(c, p)
    PROVE  FeedInv'
<1> DEFINE from == IF queue[p] = <<>> THEN Len(log) ELSE Head(queue[p]) - 1
<1>1. /\ process[p] = "up"
      /\ stream' = [stream EXCEPT ![c] = p] /\ last' = [last EXCEPT ![c] = from]
      /\ UNCHANGED <<process, signal, log, queue, gap>>
  BY DEF Connect
<1>2. /\ queue[p] \in Seq(1..MaxLog) /\ Len(queue[p]) \in Nat /\ QueueInv(p)
      /\ Len(log) \in 0..MaxLog /\ Len(log) \in Nat
      /\ queue[p] # <<>> => /\ Len(queue[p]) > 0 /\ Head(queue[p]) = queue[p][1]
                            /\ Head(queue[p]) \in 1..MaxLog
  BY QueueTyped
<1>3. queue[p] # <<>> => 1 \in 1..Len(queue[p])
  BY <1>2
<1>4. from \in 0..MaxLog /\ from <= Len(log)
  <2>1. CASE queue[p] = <<>>
    BY <1>2, <2>1
  <2>2. CASE queue[p] # <<>>
    <3>1. Head(queue[p]) <= Len(log)
      BY <1>2, <1>3, <2>2 DEF QueueInv
    <3>2. QED
      BY <1>2, <2>2, <3>1, BoundsAssumption
  <2>3. QED
    BY <2>1, <2>2
<1>5. queue[p] # <<>> => from < Head(queue[p])
  BY <1>2
<1>6. ~gap[p] => from + Len(queue[p]) = Len(log)
  <2>1. CASE queue[p] = <<>>
    BY <1>2, <2>1
  <2>2. CASE queue[p] # <<>>
    <3>1. ~gap[p] => Head(queue[p]) + Len(queue[p]) = Len(log) + 1
      BY <1>2, <1>3, <2>2 DEF QueueInv
    <3>2. QED
      BY <1>2, <2>2, <3>1
  <2>3. QED
    BY <2>1, <2>2
<1> HIDE DEF from
<1>7. stream \in [Clients -> Processes \cup {None}] /\ last \in [Clients -> 0..MaxLog]
  BY DEF FeedInv, FeedTyped
<1>8. FeedTyped'
  BY <1>1, <1>4, <1>7 DEF FeedInv, FeedTyped
<1>9. \A r \in Processes : QueueInv(r)'
  BY <1>1 DEF FeedInv, QueueInv, Alive
<1>10. ASSUME NEW d \in Clients, NEW r \in Processes PROVE StreamInv(d, r)'
  <2>1. CASE d = c
    <3>1. stream'[c] = p /\ last'[c] = from
      BY <1>1, <1>7
    <3>2. QED
      BY <1>1, <1>5, <1>6, <2>1, <3>1 DEF StreamInv, Alive
  <2>2. CASE d # c
    <3>1. StreamInv(d, r) /\ stream'[d] = stream[d] /\ last'[d] = last[d]
      BY <1>1, <1>7, <2>2 DEF FeedInv
    <3>2. QED
      BY <1>1, <3>1 DEF StreamInv, Alive
  <2>3. QED
    BY <2>1, <2>2
<1>11. \A d \in Clients : last'[d] <= Len(log')
  BY <1>1, <1>4, <1>7 DEF FeedInv
<1>12. QED
  BY <1>1, <1>8, <1>9, <1>10, <1>11 DEF FeedInv

\* Streams that end, of one client or of a process.
LEMMA StreamsEnd ==
    ASSUME FeedInv, NEW gone \in SUBSET Clients,
           stream' = [c \in Clients |-> IF c \in gone THEN None ELSE stream[c]],
           last' = [c \in Clients |-> IF c \in gone THEN 0 ELSE last[c]],
           signal' = signal, log' = log, queue' \in [Processes -> Seq(1..MaxLog)],
           gap' \in [Processes -> BOOLEAN],
           \A p \in Processes :
              \/ process'[p] = process[p] /\ queue'[p] = queue[p] /\ gap'[p] = gap[p]
              \/ queue'[p] = <<>> /\ \A c \in Clients : stream[c] = p => c \in gone
    PROVE  FeedInv'
<1>1. FeedTyped'
  <2>1. stream' \in [Clients -> Processes \cup {None}]
    BY DEF FeedInv, FeedTyped
  <2>2. last' \in [Clients -> 0..MaxLog]
    BY BoundsAssumption DEF FeedInv, FeedTyped
  <2>3. QED
    BY <2>1, <2>2 DEF FeedInv, FeedTyped
<1>2. ASSUME NEW p \in Processes PROVE QueueInv(p)'
  <2>1. CASE queue'[p] = <<>>
    BY <2>1 DEF QueueInv
  <2>2. CASE process'[p] = process[p] /\ queue'[p] = queue[p] /\ gap'[p] = gap[p]
    BY <2>2 DEF FeedInv, QueueInv, Alive
  <2>3. QED
    BY <2>1, <2>2
<1>3. ASSUME NEW c \in Clients, NEW p \in Processes, stream'[c] = p PROVE StreamInv(c, p)'
  <2>1. c \notin gone /\ stream[c] = p /\ last'[c] = last[c]
    BY <1>3, NoneIsNone
  <2>2. process'[p] = process[p] /\ queue'[p] = queue[p] /\ gap'[p] = gap[p]
    BY <2>1
  <2>3. StreamInv(c, p)
    BY DEF FeedInv
  <2>4. QED
    BY <2>1, <2>2, <2>3 DEF StreamInv, Alive
<1>4. \A c \in Clients, p \in Processes : StreamInv(c, p)'
  BY <1>3 DEF StreamInv
<1>5. Len(log') <= MaxLog /\ \A c \in Clients : last'[c] <= Len(log')
  <2>1. Len(log) \in Nat
    <3>1. log \in Seq(Signals \X {"CREATED", "CLOSED"})
      BY DEF FeedInv, FeedTyped
    <3>2. QED
      BY <3>1, LenProperties
  <2>2. QED
    BY <2>1 DEF FeedInv
<1>6. QED
  BY <1>1, <1>2, <1>4, <1>5 DEF FeedInv

LEMMA FeedKept ==
    ASSUME FeedInv, UNCHANGED feedVars, process' = process
    PROVE  FeedInv'
BY DEF feedVars, FeedInv, FeedTyped, QueueInv, StreamInv, Alive

LEMMA FeedStepKeeps ==
    ASSUME FeedInv, NEW s \in Signals, FeedStep(s)
    PROVE  FeedInv'
<1>1. \/ CreateSignal(s) \/ CloseSignal(s)
      \/ \E type \in {"CREATED", "CLOSED"} : PublishFails(s, type)
      \/ \E type \in {"CREATED", "CLOSED"}, heard \in SUBSET Processes : Publish(s, type, heard)
  BY DEF FeedStep
<1>2. QED
  BY <1>1, SignalKeeps, PublishKeeps

\* What becomes of the streams in the life of a process.
LEMMA LifecycleKeepsFeed ==
    ASSUME FeedInv, NEW p \in Processes, Lifecycle(p),
           process \in [Processes -> {"up", "closing", "draining", "stopped", "killed"}]
    PROVE  FeedInv'
<1>1. CASE Sigterm(p) \/ ServerClosed(p) \/ Start(p)
  <2>1. /\ UNCHANGED <<signal, log, queue, gap, stream, last>>
        /\ \A r \in Processes : r # p => process'[r] = process[r]
    BY <1>1 DEF Sigterm, ServerClosed, Start, feedVars
  <2>2. signal' \in [Signals -> [state: {"none", "ACTIVE", "CLOSED"},
                                 due: SUBSET {"CREATED", "CLOSED"}]]
    BY <2>1 DEF FeedInv, FeedTyped
  <2>3. Alive(p) => /\ process'[p] \in {"closing", "draining"}
                    /\ process'[p] = "draining" => \A c \in Clients : stream[c] # p
    BY <1>1 DEF Sigterm, ServerClosed, Start
  <2>4. ASSUME NEW r \in Processes, Alive(r)
        PROVE  Alive(r)' /\ (process'[r] = "draining" => process[r] = "draining"
                                            \/ \A c \in Clients : stream[c] # r)
    <3>1. CASE r = p
      BY <2>3, <2>4, <3>1 DEF Alive
    <3>2. CASE r # p
      BY <2>1, <2>4, <3>2 DEF Alive
    <3>3. QED
      BY <3>1, <3>2
  <2>5. QED
    BY <2>1, <2>2, <2>4, FeedStays
<1>2. ASSUME NEW state, Ends(p, state) PROVE FeedInv'
  <2> DEFINE gone == {c \in Clients : stream[c] = p}
  <2>1. /\ process' = [process EXCEPT ![p] = state]
        /\ queue' = [queue EXCEPT ![p] = <<>>] /\ gap' = [gap EXCEPT ![p] = FALSE]
        /\ stream' = [c \in Clients |-> IF c \in gone THEN None ELSE stream[c]]
        /\ last' = [c \in Clients |-> IF c \in gone THEN 0 ELSE last[c]]
        /\ signal' = signal /\ log' = log
    BY <1>2 DEF Ends
  <2>2. queue' \in [Processes -> Seq(1..MaxLog)] /\ gap' \in [Processes -> BOOLEAN]
    <3>1. <<>> \in Seq(1..MaxLog)
      OBVIOUS
    <3>2. QED
      BY <2>1, <3>1 DEF FeedInv, FeedTyped
  <2>3. ASSUME NEW r \in Processes
        PROVE  \/ process'[r] = process[r] /\ queue'[r] = queue[r] /\ gap'[r] = gap[r]
               \/ queue'[r] = <<>> /\ \A c \in Clients : stream[c] = r => c \in gone
    BY <2>1 DEF FeedInv, FeedTyped
  <2>4. gone \in SUBSET Clients
    OBVIOUS
  <2> HIDE DEF gone
  <2>5. QED
    BY <2>1, <2>2, <2>3, <2>4, StreamsEnd
<1>3. QED
  BY <1>1, <1>2 DEF Lifecycle, Exit, ForcedExit, Crash

LEMMA DisconnectKeeps ==
    ASSUME FeedInv, NEW c \in Clients, Disconnect(c)
    PROVE  FeedInv'
<1>1. /\ stream' = [stream EXCEPT ![c] = None] /\ last' = [last EXCEPT ![c] = 0]
      /\ UNCHANGED <<process, signal, log, queue, gap>>
  BY DEF Disconnect
<1>2. FeedTyped
  BY DEF FeedInv
<1>3. /\ stream' = [d \in Clients |-> IF d \in {c} THEN None ELSE stream[d]]
      /\ last' = [d \in Clients |-> IF d \in {c} THEN 0 ELSE last[d]]
      /\ queue' \in [Processes -> Seq(1..MaxLog)] /\ gap' \in [Processes -> BOOLEAN]
  BY <1>1, <1>2 DEF FeedTyped
<1>4. QED
  BY <1>1, <1>3, StreamsEnd

LEMMA FeedStepInv == FeedInv /\ LifeInv /\ [Next]_vars => FeedInv'
<1> SUFFICES ASSUME FeedInv, LifeInv, [Next]_vars PROVE FeedInv'
  OBVIOUS
<1>1. ASSUME NEW s \in Signals, FeedStep(s) PROVE FeedInv'
  BY <1>1, FeedStepKeeps
<1>2. ASSUME NEW p \in Processes, Lifecycle(p) \/ Deliver(p) PROVE FeedInv'
  BY <1>2, LifecycleKeepsFeed, DeliverKeeps DEF LifeInv
<1>3. ASSUME NEW c \in Clients, Disconnect(c) \/ \E p \in Processes : Connect(c, p)
      PROVE  FeedInv'
  BY <1>3, DisconnectKeeps, ConnectKeeps
<1>4. CASE UNCHANGED <<feedVars, process>>
  BY <1>4, FeedKept
<1>5. ASSUME NEW e \in Events, WriteEvent(e) PROVE UNCHANGED <<feedVars, process>>
  BY <1>5 DEF WriteEvent
<1>6. ASSUME NEW x \in Relays, RelayStep(x) \/ \E p \in Processes : RelayTick(x, p)
      PROVE  UNCHANGED <<feedVars, process>>
  BY <1>6 DEF RelayStep, RelayEmit, RelayEnds, RelayMark, RelayRead, RelayFail, RelayTick
<1>7. ASSUME NEW j \in Jobs, JobStep(j) PROVE UNCHANGED <<feedVars, process>>
  BY <1>7 DEF JobStep, SendCampaign, JobEnds, Stalled, DeadLetter, Mail, MailThrows, TakeJob
<1>8. ASSUME NEW q \in Requests, FinishRequest(q) \/ \E p \in Processes : StartRequest(q, p)
      PROVE  UNCHANGED <<feedVars, process>>
  BY <1>8 DEF FinishRequest, StartRequest
<1>9. UNCHANGED vars => UNCHANGED <<feedVars, process>>
  BY DEF vars
<1>10. QED
  BY <1>1, <1>2, <1>3, <1>4, <1>5, <1>6, <1>7, <1>8, <1>9 DEF Next

-----------------------------------------------------------------------------
(* Processes and requests.                                                  *)

LEMMA LifeStart == Init => LifeInv
BY DEF Init, LifeInv

LEMMA LifeStep == LifeInv /\ [Next]_vars => LifeInv'
<1> SUFFICES ASSUME LifeInv, [Next]_vars PROVE LifeInv'
  OBVIOUS
<1>1. ASSUME NEW p \in Processes, Lifecycle(p) PROVE LifeInv'
  <2>1. CASE Sigterm(p) \/ ServerClosed(p) \/ Start(p)
    BY <2>1 DEF Sigterm, ServerClosed, Start, LifeInv
  <2>2. ASSUME NEW state \in {"stopped", "killed"}, Ends(p, state) PROVE LifeInv'
    BY <2>2, NoneIsNone DEF Ends, LifeInv
  <2>3. QED
    BY <1>1, <2>1, <2>2 DEF Lifecycle, Exit, ForcedExit, Crash
<1>2. ASSUME NEW q \in Requests, FinishRequest(q) \/ \E p \in Processes : StartRequest(q, p)
      PROVE  LifeInv'
  BY <1>2, NoneIsNone DEF FinishRequest, StartRequest, LifeInv
<1>3. CASE UNCHANGED <<process, serving, mix>>
  BY <1>3 DEF LifeInv
<1>4. ASSUME NEW e \in Events, WriteEvent(e) PROVE UNCHANGED <<process, serving, mix>>
  BY <1>4 DEF WriteEvent
<1>5. ASSUME NEW x \in Relays, RelayStep(x) \/ \E p \in Processes : RelayTick(x, p)
      PROVE  UNCHANGED <<process, serving, mix>>
  BY <1>5 DEF RelayStep, RelayEmit, RelayEnds, RelayMark, RelayRead, RelayFail, RelayTick
<1>6. ASSUME NEW j \in Jobs, JobStep(j) PROVE UNCHANGED <<process, serving, mix>>
  BY <1>6 DEF JobStep, SendCampaign, JobEnds, Stalled, DeadLetter, Mail, MailThrows, TakeJob
<1>7. ASSUME NEW s \in Signals, FeedStep(s) PROVE UNCHANGED <<process, serving, mix>>
  BY <1>7 DEF FeedStep, CreateSignal, CloseSignal, Publish, PublishFails
<1>8. ASSUME NEW p \in Processes, Deliver(p) PROVE UNCHANGED <<process, serving, mix>>
  BY <1>8 DEF Deliver
<1>9. ASSUME NEW c \in Clients, Disconnect(c) \/ \E p \in Processes : Connect(c, p)
      PROVE  UNCHANGED <<process, serving, mix>>
  BY <1>9 DEF Disconnect, Connect
<1>10. UNCHANGED vars => UNCHANGED <<process, serving, mix>>
  BY DEF vars
<1>11. QED
  BY <1>1, <1>2, <1>3, <1>4, <1>5, <1>6, <1>7, <1>8, <1>9, <1>10 DEF Next

-----------------------------------------------------------------------------
LEMMA Always == Spec => []IInv
<1>1. Init => IInv
  BY OutboxStart, JobsStart, FeedStart, LifeStart DEF IInv
<1>2. IInv /\ [Next]_vars => IInv'
  BY OutboxStep, JobsStep, FeedStepInv, LifeStep DEF IInv
<1>3. QED
  BY <1>1, <1>2, PTL DEF Spec

\* Every variable has its type in every state that can be reached.
THEOREM DeploymentTyped == Spec => []TypeOK
<1>1. IInv => TypeOK
  BY DEF IInv, OutboxInv, OutboxTyped, JobsInv, JobsTyped, FeedInv, FeedTyped, LifeInv, TypeOK
<1>2. QED
  BY <1>1, Always, PTL

\* claimPending: however many runs of the relay overlap, in however many
\* processes that crash and start again, no event is held by two of them.
THEOREM ClaimsDisjoint == Spec => []ClaimsAreDisjoint
<1>1. IInv => ClaimsAreDisjoint
  BY HeldIsClaimed DEF IInv, OutboxInv, HeldOnce, ClaimsAreDisjoint
<1>2. QED
  BY <1>1, Always, PTL

\* markFailed and markProcessed: each emission but the last is a retry.
THEOREM RetriesCounted == Spec => []RetriesAreCounted
<1>1. IInv => RetriesAreCounted
  <2> SUFFICES ASSUME IInv, NEW e \in Events
               PROVE  /\ emitted[e] <= event[e].retries + 1
                      /\ event[e].status \in {"PENDING", "FAILED"} => emitted[e] = event[e].retries
                      /\ event[e].status = "FAILED" => event[e].retries = MaxRetries + 1
                      /\ event[e].status = "PROCESSED" => emitted[e] > 0
    BY DEF RetriesAreCounted
  <2>1. OutboxTyped /\ EventInv(e)
    BY DEF IInv, OutboxInv
  <2>2. /\ event[e].status \in {"ABSENT", "PENDING", "PROCESSING", "PROCESSED", "FAILED"}
        /\ event[e].retries \in Nat /\ emitted[e] \in Nat
    BY <2>1, EventTyped DEF Event, EventStatuses
  <2>3. QED
    BY <2>1, <2>2 DEF EventInv
<1>2. QED
  BY <1>1, Always, PTL

\* sendBulk: a recipient is mailed at most once per run of the job, and a job
\* that is reported as complete has mailed somebody.
THEOREM MailedOnce == Spec => []MailedOncePerRun
<1>1. IInv => MailedOncePerRun
  BY DEF IInv, JobsInv, JobInv, MailedOncePerRun
<1>2. QED
  BY <1>1, Always, PTL

\* deliverToLocalClients: one copy, in order, with no hole while the
\* subscription lasts, for any number of processes and tabs.
THEOREM OneCopy == Spec => []OneCopyPerStream
<1>1. IInv => OneCopyPerStream
  BY DEF IInv, FeedInv, QueueInv, StreamInv, OneCopyPerStream
<1>2. QED
  BY <1>1, Always, PTL

\* gracefulShutdown: a process that stops by itself cuts nothing off.
THEOREM ExitsClean == Spec => CleanExit
<1> DEFINE Clean(p) == /\ \A q \in Requests : serving[q] # p
                       /\ \A c \in Clients : stream[c] # p
                       /\ \A j \in Jobs : job[j].process # p
           Stops(p) == process[p] # "stopped" /\ process'[p] = "stopped"
<1>1. IInv /\ [Next]_vars => [\A p \in Processes : Stops(p) => Clean(p)]_vars
  <2> SUFFICES ASSUME IInv, [Next]_vars, NEW p \in Processes, Stops(p)
               PROVE  Clean(p)
    OBVIOUS
  <2>1. LifeInv /\ \A c \in Clients : StreamInv(c, p)
    BY DEF IInv, FeedInv
  <2>2. ASSUME NEW r \in Processes, Lifecycle(r) PROVE Clean(p)
    <3>1. Exit(p)
      BY <2>1, <2>2 DEF Lifecycle, Sigterm, ServerClosed, Exit, ForcedExit, Crash, Start,
         Ends, LifeInv
    <3>2. process[p] = "draining" /\ \A j \in Jobs : job[j].process # p
      BY <3>1 DEF Exit
    <3>3. QED
      BY <2>1, <3>2 DEF LifeInv, StreamInv
  <2>3. process' # process
    OBVIOUS
  <2>4. ASSUME NEW x \in Relays, RelayStep(x) \/ \E r \in Processes : RelayTick(x, r)
        PROVE  FALSE
    BY <2>3, <2>4 DEF RelayStep, RelayEmit, RelayEnds, RelayMark, RelayRead, RelayFail, RelayTick
  <2>5. ASSUME NEW j \in Jobs, JobStep(j) PROVE FALSE
    BY <2>3, <2>5 DEF JobStep, SendCampaign, JobEnds, Stalled, DeadLetter, Mail, MailThrows, TakeJob
  <2>6. QED
    BY <2>2, <2>3, <2>4, <2>5 DEF Next, vars, WriteEvent, FeedStep, CreateSignal, CloseSignal,
       Publish, PublishFails, Deliver, Disconnect, Connect, FinishRequest, StartRequest
<1>2. QED
  BY <1>1, Always, PTL DEF Spec, CleanExit

-----------------------------------------------------------------------------
(* The outbox implements the ledger of events.                              *)

PhaseTable ==
    \A e \in Events :
       /\ event[e].status \in EventStatuses
       /\ event[e].status \in {"ABSENT", "PENDING"} => \A x \in Relays : ~Holds(x, e)
       /\ \A x \in Relays :
             /\ e \in relay[x].batch => PhaseOf(e) = "claimed"
             /\ Holds(x, e) /\ e \notin relay[x].batch => PhaseOf(e) = "emitted"
       /\ (\A x \in Relays : ~Holds(x, e))
          => /\ event[e].status = "ABSENT" => PhaseOf(e) = "unwritten"
             /\ event[e].status = "PENDING" => PhaseOf(e) = "waiting"
             /\ event[e].status = "PROCESSING" => PhaseOf(e) = "stranded"
             /\ event[e].status = "PROCESSED" => PhaseOf(e) = "done"
             /\ event[e].status = "FAILED" => PhaseOf(e) = "failed"

\* No two runs hold an event, so that its phase can be read off either.
LEMMA PhasesRead == OutboxInv => PhaseTable
<1> SUFFICES ASSUME OutboxInv, NEW e \in Events
             PROVE  PhaseTable!(e)
  BY DEF PhaseTable
<1>1. event[e].status \in EventStatuses
  BY DEF OutboxInv, OutboxTyped, Event
<1>2. ASSUME NEW x \in Relays, e \in relay[x].batch PROVE PhaseOf(e) = "claimed"
  BY <1>2 DEF PhaseOf
<1>3. ASSUME NEW x \in Relays, Holds(x, e), e \notin relay[x].batch
      PROVE  PhaseOf(e) = "emitted"
  <2>1. \A y \in Relays : e \notin relay[y].batch
    BY <1>3 DEF OutboxInv, HeldOnce, Holds
  <2>2. QED
    BY <1>3, <2>1 DEF PhaseOf
<1>4. ASSUME \A x \in Relays : ~Holds(x, e)
      PROVE  /\ event[e].status = "ABSENT" => PhaseOf(e) = "unwritten"
             /\ event[e].status = "PENDING" => PhaseOf(e) = "waiting"
             /\ event[e].status = "PROCESSING" => PhaseOf(e) = "stranded"
             /\ event[e].status = "PROCESSED" => PhaseOf(e) = "done"
             /\ event[e].status = "FAILED" => PhaseOf(e) = "failed"
  <2>1. \A x \in Relays : e \notin relay[x].batch
    BY <1>4 DEF Holds
  <2>2. QED
    BY <1>4, <2>1 DEF PhaseOf
<1>5. event[e].status \in {"ABSENT", "PENDING"} => \A x \in Relays : ~Holds(x, e)
  BY HeldIsClaimed
<1>6. QED
  BY <1>1, <1>2, <1>3, <1>4, <1>5

LEMMA PhasesReadNext == OutboxInv' => PhaseTable'
BY PhasesRead, PTL

\* An event that stays where it is keeps its phase, whatever becomes of the
\* row of one that a run still holds.
LEMMA PhaseKept ==
    ASSUME PhaseTable, PhaseTable', NEW e \in Events,
           event'[e].status = event[e].status \/ \E x \in Relays : Holds(x, e),
           \A x \in Relays : /\ Holds(x, e)' <=> Holds(x, e)
                             /\ e \in relay'[x].batch <=> e \in relay[x].batch
    PROVE  PhaseOf(e)' = PhaseOf(e)
<1>1. CASE \E x \in Relays : Holds(x, e)
  BY <1>1 DEF PhaseTable
<1>2. CASE \A x \in Relays : ~Holds(x, e)
  BY <1>2 DEF PhaseTable, EventStatuses
<1>3. QED
  BY <1>1, <1>2

Sees == Outbox!Next \/ UNCHANGED Outbox!vars

\* A step that neither takes an event nor lets one go is none of the ledger.
LEMMA LedgerStutters ==
    ASSUME OutboxInv, OutboxInv', emitted' = emitted,
           \A e \in Events :
              /\ event'[e].status = event[e].status \/ \E x \in Relays : Holds(x, e)
              /\ \A x \in Relays : /\ Holds(x, e)' <=> Holds(x, e)
                                   /\ e \in relay'[x].batch <=> e \in relay[x].batch
    PROVE  Sees
<1>1. PhaseTable /\ PhaseTable'
  BY PhasesRead, PhasesReadNext
<1>2. \A e \in Events : PhaseOf(e)' = PhaseOf(e)
  BY <1>1, PhaseKept
<1>3. QED
  BY <1>2 DEF Sees, Outbox!vars

\* createEvent.
LEMMA LedgerWrites ==
    ASSUME OutboxInv, OutboxInv', NEW e \in Events, WriteEvent(e)
    PROVE  Outbox!Write(e)
<1>1. PhaseTable /\ PhaseTable'
  BY PhasesRead, PhasesReadNext
<1>2. /\ event[e].status = "ABSENT" /\ event'[e].status = "PENDING"
      /\ \A d \in Events : d # e => event'[d] = event[d]
      /\ relay' = relay /\ emitted' = emitted
  BY DEF WriteEvent, OutboxInv, OutboxTyped, Event
<1>3. PhaseOf(e) = "unwritten" /\ PhaseOf(e)' = "waiting"
  BY <1>1, <1>2 DEF PhaseTable
<1>4. ASSUME NEW d \in Events, d # e PROVE PhaseOf(d)' = PhaseOf(d)
  BY <1>1, <1>2, <1>4, PhaseKept DEF Holds
<1>5. QED
  BY <1>2, <1>3, <1>4 DEF Outbox!Write

\* claimPending.
LEMMA LedgerClaims ==
    ASSUME OutboxInv, OutboxInv', NEW x \in Relays, NEW p \in Processes, RelayTick(x, p)
    PROVE  Outbox!Claim(Oldest) /\ Oldest \subseteq Events
<1>1. PhaseTable /\ PhaseTable'
  BY PhasesRead, PhasesReadNext
<1>2. /\ relay[x] = NoRun /\ emitted' = emitted
      /\ relay'[x].pc = "next" /\ relay'[x].batch = Oldest
      /\ \A y \in Relays : y # x => relay'[y] = relay[y]
      /\ \A e \in Events : e \notin Oldest => event'[e] = event[e]
  BY DEF RelayTick, Claims, OutboxInv, OutboxTyped, NoRun
<1>3. Oldest \subseteq Events /\ \A e \in Oldest : event[e].status = "PENDING"
  BY DEF Oldest, Pending
<1>4. ASSUME NEW e \in Oldest PROVE PhaseOf(e) = "waiting" /\ PhaseOf(e)' = "claimed"
  BY <1>1, <1>2, <1>3, <1>4 DEF PhaseTable
<1>5. ASSUME NEW e \in Events, e \notin Oldest PROVE PhaseOf(e)' = PhaseOf(e)
  BY <1>1, <1>2, <1>5, PhaseKept DEF Holds, NoRun
<1>6. QED
  BY <1>2, <1>3, <1>4, <1>5 DEF Outbox!Claim

\* The event bus gets an event, and none but that of this claim.
LEMMA LedgerEmits ==
    ASSUME OutboxInv, OutboxInv', NEW x \in Relays, NEW e \in Events, RelayEmit(x, e)
    PROVE  Outbox!Emit(e)
<1>1. PhaseTable /\ PhaseTable'
  BY PhasesRead, PhasesReadNext
<1>2. /\ relay[x].pc = "next" /\ e \in relay[x].batch /\ event' = event
      /\ relay'[x].pc = "mark" /\ relay'[x].event = e /\ relay'[x].batch = relay[x].batch \ {e}
      /\ \A y \in Relays : y # x => relay'[y] = relay[y]
  BY DEF RelayEmit, OutboxInv, OutboxTyped, Run
<1>3. emitted' = [emitted EXCEPT ![e] = @ + 1]
  <2>1. EventInv(e) /\ event[e].status = "PROCESSING" /\ emitted[e] = event[e].retries
    BY <1>2 DEF OutboxInv, RunInv
  <2>2. emitted[e] <= MaxRetries /\ emitted[e] \in Nat
    BY <2>1 DEF EventInv, OutboxInv, OutboxTyped
  <2>3. ~(emitted[e] > MaxRetries + 1)
    BY <2>2 DEF MaxRetries
  <2>4. QED
    BY <2>3 DEF RelayEmit
<1>4. PhaseOf(e) = "claimed" /\ PhaseOf(e)' = "emitted"
  BY <1>1, <1>2 DEF PhaseTable, Holds
<1>5. ASSUME NEW d \in Events, d # e PROVE PhaseOf(d)' = PhaseOf(d)
  BY <1>1, <1>2, <1>5, PhaseKept DEF Holds
<1>6. QED
  BY <1>3, <1>4, <1>5 DEF Outbox!Emit

\* Runs let go of the events of E: those that they have emitted go by their
\* rows, the others are stranded.
LEMMA LedgerLetsGo ==
    ASSUME OutboxInv, OutboxInv', emitted' = emitted, NEW E \in SUBSET Events,
           \A e \in E :
              /\ event'[e].status # "ABSENT"
              /\ \E x \in Relays : Holds(x, e) /\ (e \in relay[x].batch => event'[e] = event[e])
              /\ \A x \in Relays : ~Holds(x, e)',
           \A e \in Events \ E :
              /\ event'[e] = event[e]
              /\ \A x \in Relays : /\ Holds(x, e)' <=> Holds(x, e)
                                   /\ e \in relay'[x].batch <=> e \in relay[x].batch
    PROVE  Sees
<1>1. PhaseTable /\ PhaseTable'
  BY PhasesRead, PhasesReadNext
<1>2. ASSUME NEW e \in Events \ E PROVE PhaseOf(e)' = PhaseOf(e)
  BY <1>1, <1>2, PhaseKept
<1>3. ASSUME NEW e \in E
      PROVE  PhaseOf(e) \in {"claimed", "emitted"} /\ PhaseOf(e)' \in Outbox!Outcomes(e)
  <2>1. PICK x \in Relays : Holds(x, e) /\ (e \in relay[x].batch => event'[e] = event[e])
    BY <1>3
  <2>2. \A y \in Relays : ~Holds(y, e)'
    BY <1>3
  <2>3. CASE e \in relay[x].batch
    <3>1. event[e].status = "PROCESSING" /\ event'[e] = event[e]
      BY <2>1, <2>3 DEF OutboxInv, RunInv
    <3>2. PhaseOf(e) = "claimed" /\ PhaseOf(e)' = "stranded"
      BY <1>1, <2>2, <2>3, <3>1 DEF PhaseTable
    <3>3. QED
      BY <3>2 DEF Outbox!Outcomes
  <2>4. CASE e \notin relay[x].batch
    <3>1. PhaseOf(e) = "emitted"
      BY <1>1, <2>1, <2>4 DEF PhaseTable
    <3>2. /\ event'[e].status \in {"PENDING", "PROCESSING", "PROCESSED", "FAILED"}
          /\ EventInv(e)' /\ event'[e] \in Event /\ emitted'[e] \in Nat
      BY <1>1, <1>3 DEF PhaseTable, EventStatuses, OutboxInv, OutboxTyped
    <3>3. event'[e].retries \in Nat
      BY <3>2 DEF Event
    <3>4. CASE event'[e].status = "PENDING"
      <4>1. PhaseOf(e)' = "waiting"
        BY <1>1, <2>2, <3>4 DEF PhaseTable
      <4>2. ~(emitted[e] > MaxRetries)
        BY <3>2, <3>3, <3>4 DEF EventInv, MaxRetries
      <4>3. QED
        BY <3>1, <4>1, <4>2 DEF Outbox!Outcomes
    <3>5. CASE event'[e].status = "FAILED"
      <4>1. PhaseOf(e)' = "failed"
        BY <1>1, <2>2, <3>5 DEF PhaseTable
      <4>2. emitted[e] > MaxRetries
        BY <3>2, <3>3, <3>5 DEF EventInv, MaxRetries
      <4>3. QED
        BY <3>1, <4>1, <4>2 DEF Outbox!Outcomes
    <3>6. CASE event'[e].status \in {"PROCESSING", "PROCESSED"}
      <4>1. PhaseOf(e)' \in {"stranded", "done"}
        BY <1>1, <2>2, <3>6 DEF PhaseTable
      <4>2. QED
        BY <3>1, <4>1 DEF Outbox!Outcomes
    <3>7. QED
      BY <3>2, <3>4, <3>5, <3>6
  <2>5. QED
    BY <2>3, <2>4
<1>4. [e \in Events |-> PhaseOf(e)]' \in [Events -> Outbox!Phases]
  <2>1. \A e \in Events : PhaseOf(e)' \in Outbox!Phases
    <3> SUFFICES ASSUME NEW e \in Events PROVE PhaseOf(e)' \in Outbox!Phases
      OBVIOUS
    <3>1. CASE \E x \in Relays : Holds(x, e)'
      BY <1>1, <3>1 DEF PhaseTable, Outbox!Phases
    <3>2. CASE \A x \in Relays : ~Holds(x, e)'
      BY <1>1, <3>2 DEF PhaseTable, EventStatuses, Outbox!Phases
    <3>3. QED
      BY <3>1, <3>2
  <2>2. QED
    BY <2>1
<1>5. Outbox!LetGo(E)
  BY <1>2, <1>3, <1>4 DEF Outbox!LetGo
<1>6. QED
  BY <1>5 DEF Sees, Outbox!Next

\* A run that ends lets go of all that it holds, of what it has emitted with
\* whatever it has written of it.
LEMMA LedgerRunEnds ==
    ASSUME OutboxInv, OutboxInv', NEW x \in Relays, relay' = [relay EXCEPT ![x] = NoRun],
           emitted' = emitted,
           \A e \in Events :
              \/ event'[e] = event[e]
              \/ Holds(x, e) /\ e \notin relay[x].batch /\ event'[e].status # "ABSENT"
    PROVE  Sees
<1> DEFINE E == {e \in Events : Holds(x, e)}
<1>1. relay'[x] = NoRun /\ \A y \in Relays : y # x => relay'[y] = relay[y]
  BY DEF OutboxInv, OutboxTyped
<1>2. \A e \in Events : ~Holds(x, e)' /\ e \notin relay'[x].batch
  BY <1>1 DEF Holds, NoRun
<1>3. \A y \in Relays, e \in Events : y # x => /\ Holds(y, e)' <=> Holds(y, e)
                                               /\ e \in relay'[y].batch <=> e \in relay[y].batch
  BY <1>1 DEF Holds
<1>4. ASSUME NEW e \in E
      PROVE  /\ event'[e].status # "ABSENT"
             /\ \E y \in Relays : Holds(y, e) /\ (e \in relay[y].batch => event'[e] = event[e])
             /\ \A y \in Relays : ~Holds(y, e)'
  <2>1. event[e].status \in {"PROCESSING", "PROCESSED"}
    BY <1>4, HeldIsClaimed
  <2>2. \A y \in Relays : y # x => ~Holds(y, e)
    BY <1>4 DEF OutboxInv, HeldOnce
  <2>3. QED
    BY <1>2, <1>3, <1>4, <2>1, <2>2
<1>5. ASSUME NEW e \in Events \ E
      PROVE  /\ event'[e] = event[e]
             /\ \A y \in Relays : /\ Holds(y, e)' <=> Holds(y, e)
                                  /\ e \in relay'[y].batch <=> e \in relay[y].batch
  <2>1. e \in Events /\ ~Holds(x, e) /\ e \notin relay[x].batch
    BY <1>5 DEF Holds
  <2>2. QED
    BY <1>2, <1>3, <2>1
<1> HIDE DEF E
<1>6. E \in SUBSET Events
  BY DEF E
<1>7. QED
  BY <1>4, <1>5, <1>6, LedgerLetsGo

\* A run goes on to another event, and lets go of the one it has written of.
LEMMA LedgerRunGoesOn ==
    ASSUME OutboxInv, OutboxInv', NEW x \in Relays, RelayGoto(x, "next"),
           relay[x].pc \in {"mark", "fail"}, emitted' = emitted,
           event'[relay[x].event].status # "ABSENT",
           \A e \in Events : e # relay[x].event => event'[e] = event[e]
    PROVE  Sees
<1>1. PICK d \in Events : d = relay[x].event /\ Holds(x, d) /\ d \notin relay[x].batch
  BY RunTyped
<1>2. /\ relay'[x].pc = "next" /\ relay'[x].batch = relay[x].batch
      /\ \A y \in Relays : y # x => relay'[y] = relay[y]
  BY DEF RelayGoto, OutboxInv, OutboxTyped, Run
<1>3. \A y \in Relays : ~Holds(y, d)'
  <2>1. \A y \in Relays : y # x => ~Holds(y, d)
    BY <1>1 DEF OutboxInv, HeldOnce
  <2>2. QED
    BY <1>1, <1>2, <2>1 DEF Holds
<1>4. \A e \in Events \ {d} : \A y \in Relays :
         /\ Holds(y, e)' <=> Holds(y, e)
         /\ e \in relay'[y].batch <=> e \in relay[y].batch
  BY <1>1, <1>2 DEF Holds
<1>5. {d} \in SUBSET Events
  BY <1>1
<1>6. QED
  BY <1>1, <1>3, <1>4, <1>5, LedgerLetsGo

\* markProcessed.
LEMMA LedgerMarks ==
    ASSUME OutboxInv, OutboxInv', NEW x \in Relays, RelayMark(x)
    PROVE  Sees
<1>1. /\ relay[x].pc = "mark" /\ emitted' = emitted /\ relay[x].event \in Events
      /\ Holds(x, relay[x].event) /\ relay[x].event \notin relay[x].batch
  BY RunTyped DEF RelayMark
<1>2. \A e \in Events : e # relay[x].event => event'[e] = event[e]
  BY <1>1 DEF RelayMark, OutboxInv, OutboxTyped
<1>3. CASE RelayGoto(x, "next") /\ event' = [event EXCEPT ![relay[x].event].status = "PROCESSED"]
  <2>1. event'[relay[x].event].status = "PROCESSED"
    BY <1>1, <1>3 DEF OutboxInv, OutboxTyped, Event
  <2>2. QED
    BY <1>1, <1>2, <1>3, <2>1, LedgerRunGoesOn
<1>4. CASE RelayGoto(x, "read")
  <2>1. /\ relay'[x].pc = "read" /\ relay'[x].batch = relay[x].batch
        /\ relay'[x].event = relay[x].event
        /\ \A y \in Relays : y # x => relay'[y] = relay[y]
    BY <1>4 DEF RelayGoto, OutboxInv, OutboxTyped, Run
  <2>2. \A y \in Relays, e \in Events : /\ Holds(y, e)' <=> Holds(y, e)
                                        /\ e \in relay'[y].batch <=> e \in relay[y].batch
    BY <1>1, <2>1 DEF Holds
  <2>3. QED
    BY <1>1, <1>2, <2>2, LedgerStutters
<1>5. QED
  BY <1>3, <1>4 DEF RelayMark

\* markFailed reads the row, or is itself refused.
LEMMA LedgerReads ==
    ASSUME OutboxInv, OutboxInv', NEW x \in Relays, RelayRead(x)
    PROVE  Sees
<1>1. relay[x].pc = "read" /\ emitted' = emitted /\ event' = event
  BY DEF RelayRead
<1>2. CASE relay' = [relay EXCEPT ![x] = NoRun]
  BY <1>1, <1>2, LedgerRunEnds
<1>3. CASE relay' = [relay EXCEPT ![x] = [@ EXCEPT !.pc = "fail",
                                            !.retries = event[relay[x].event].retries]]
  <2>1. /\ relay'[x].pc = "fail" /\ relay'[x].batch = relay[x].batch
        /\ relay'[x].event = relay[x].event
        /\ \A y \in Relays : y # x => relay'[y] = relay[y]
    BY <1>3 DEF OutboxInv, OutboxTyped, Run
  <2>2. \A y \in Relays, e \in Events : /\ Holds(y, e)' <=> Holds(y, e)
                                        /\ e \in relay'[y].batch <=> e \in relay[y].batch
    BY <1>1, <2>1 DEF Holds
  <2>3. QED
    BY <1>1, <2>2, LedgerStutters
<1>4. QED
  BY <1>2, <1>3 DEF RelayRead

\* markFailed writes it.
LEMMA LedgerFails ==
    ASSUME OutboxInv, OutboxInv', NEW x \in Relays, RelayFail(x)
    PROVE  Sees
<1>1. /\ relay[x].pc = "fail" /\ emitted' = emitted /\ relay[x].event \in Events
      /\ Holds(x, relay[x].event) /\ relay[x].event \notin relay[x].batch
  BY RunTyped DEF RelayFail
<1> DEFINE d == relay[x].event
           new == [status |-> IF relay[x].retries >= MaxRetries THEN "FAILED" ELSE "PENDING",
                   retries |-> event[d].retries + 1]
           written == [event EXCEPT ![d] = new]
<1>2. /\ event' \in {event, written}
      /\ \/ event' = written /\ RelayGoto(x, "next")
         \/ relay' = [relay EXCEPT ![x] = NoRun]
  BY DEF RelayFail
<1>3. written[d].status # "ABSENT" /\ \A e \in Events : e # d => written[e] = event[e]
  BY <1>1 DEF OutboxInv, OutboxTyped
<1> HIDE DEF written
<1>4. CASE event' = written /\ RelayGoto(x, "next")
  BY <1>1, <1>3, <1>4, LedgerRunGoesOn
<1>5. CASE relay' = [relay EXCEPT ![x] = NoRun]
  BY <1>1, <1>2, <1>3, <1>5, LedgerRunEnds
<1>6. QED
  BY <1>2, <1>4, <1>5

\* A process that ends lets go of what its runs hold.
LEMMA LedgerProcessEnds ==
    ASSUME OutboxInv, OutboxInv', NEW p \in Processes, NEW state, Ends(p, state)
    PROVE  Sees
<1> DEFINE Gone(x) == relay[x].process = p
           E == {e \in Events : \E x \in Relays : Gone(x) /\ Holds(x, e)}
<1>1. /\ relay' = [x \in Relays |-> IF Gone(x) THEN NoRun ELSE relay[x]]
      /\ event' = event /\ emitted' = emitted
  BY DEF Ends
<1>2. \A x \in Relays, e \in Events : /\ Gone(x) => ~Holds(x, e)' /\ e \notin relay'[x].batch
                                      /\ ~Gone(x) => relay'[x] = relay[x]
  BY <1>1 DEF Holds, NoRun
<1>3. \A x \in Relays, e \in Events : ~Gone(x) => /\ Holds(x, e)' <=> Holds(x, e)
                                                  /\ e \in relay'[x].batch <=> e \in relay[x].batch
  BY <1>2 DEF Holds
<1>4. ASSUME NEW e \in E
      PROVE  /\ event'[e].status # "ABSENT"
             /\ \E x \in Relays : Holds(x, e) /\ (e \in relay[x].batch => event'[e] = event[e])
             /\ \A x \in Relays : ~Holds(x, e)'
  <2>1. PICK x \in Relays : Gone(x) /\ Holds(x, e) /\ e \in Events
    BY <1>4
  <2>2. event[e].status \in {"PROCESSING", "PROCESSED"}
    BY <2>1, HeldIsClaimed
  <2>3. \A y \in Relays : y # x => ~Holds(y, e)
    BY <2>1 DEF OutboxInv, HeldOnce
  <2>4. QED
    BY <1>1, <1>2, <1>3, <2>1, <2>2, <2>3
<1>5. ASSUME NEW e \in Events \ E, NEW x \in Relays
      PROVE  /\ Holds(x, e)' <=> Holds(x, e)
             /\ e \in relay'[x].batch <=> e \in relay[x].batch
  <2>1. CASE Gone(x)
    <3>1. ~Holds(x, e) /\ e \notin relay[x].batch
      BY <1>5, <2>1 DEF Holds
    <3>2. QED
      BY <1>2, <2>1, <3>1
  <2>2. CASE ~Gone(x)
    BY <1>3, <2>2
  <2>3. QED
    BY <2>1, <2>2
<1>6. E \in SUBSET Events
  OBVIOUS
<1> HIDE DEF E
<1>7. QED
  BY <1>1, <1>4, <1>5, <1>6, LedgerLetsGo

LEMMA LedgerRunStep ==
    ASSUME OutboxInv, OutboxInv', NEW x \in Relays,
           RelayStep(x) \/ \E p \in Processes : RelayTick(x, p)
    PROVE  Sees
<1>1. ASSUME NEW p \in Processes, RelayTick(x, p) PROVE Sees
  BY <1>1, LedgerClaims DEF Sees, Outbox!Next
<1>2. ASSUME NEW e \in Events, RelayEmit(x, e) PROVE Sees
  BY <1>2, LedgerEmits DEF Sees, Outbox!Next
<1>3. CASE RelayEnds(x)
  <2>1. relay' = [relay EXCEPT ![x] = NoRun] /\ emitted' = emitted /\ event' = event
    BY <1>3 DEF RelayEnds
  <2>2. QED
    BY <2>1, LedgerRunEnds
<1>4. QED
  BY <1>1, <1>2, <1>3, LedgerMarks, LedgerReads, LedgerFails DEF RelayStep

\* The outbox, with its runs, crashes and half-written outcomes, implements
\* EventLedger: whatever interleaving, an event is emitted once per claim and
\* MaxRetries + 1 times at most, and a settled or stranded event stays so.
THEOREM RefinesOutbox == Spec => ImplementsOutbox
<1>1. Init => Outbox!Init
  <2> SUFFICES ASSUME Init PROVE Outbox!Init
    OBVIOUS
  <2>1. PhaseTable
    BY OutboxStart, PhasesRead
  <2>2. \A e \in Events : event[e].status = "ABSENT" /\ \A x \in Relays : ~Holds(x, e)
    BY DEF Init, Holds, NoRun
  <2>3. \A e \in Events : PhaseOf(e) = "unwritten"
    BY <2>1, <2>2 DEF PhaseTable
  <2>4. QED
    BY <2>3 DEF Outbox!Init, Init
<1>2. IInv /\ [Next]_vars => [Outbox!Next]_(Outbox!vars)
  <2> SUFFICES ASSUME IInv, [Next]_vars PROVE Sees
    BY DEF Sees
  <2>1. OutboxInv /\ OutboxInv'
    BY OutboxStep DEF IInv
  <2>2. ASSUME NEW e \in Events, WriteEvent(e) PROVE Sees
    BY <2>1, <2>2, LedgerWrites DEF Sees, Outbox!Next
  <2>3. ASSUME NEW x \in Relays, RelayStep(x) \/ \E p \in Processes : RelayTick(x, p)
        PROVE  Sees
    BY <2>1, <2>3, LedgerRunStep
  <2>4. ASSUME NEW p \in Processes, NEW state, Ends(p, state) PROVE Sees
    BY <2>1, <2>4, LedgerProcessEnds
  <2>5. CASE UNCHANGED outboxVars
    <3>1. event' = event /\ relay' = relay /\ emitted' = emitted
      BY <2>5 DEF outboxVars
    <3>2. QED
      BY <2>1, <3>1, LedgerStutters DEF Holds
  <2>6. ASSUME NEW j \in Jobs, JobStep(j) PROVE UNCHANGED outboxVars
    BY <2>6 DEF JobStep, SendCampaign, JobEnds, Stalled, DeadLetter, Mail, MailThrows, TakeJob
  <2>7. ASSUME NEW s \in Signals, FeedStep(s) PROVE UNCHANGED outboxVars
    BY <2>7 DEF FeedStep, CreateSignal, CloseSignal, Publish, PublishFails
  <2>8. ASSUME NEW p \in Processes, Lifecycle(p) \/ Deliver(p) PROVE Sees
    BY <2>4, <2>5, <2>8 DEF Lifecycle, Deliver, Sigterm, ServerClosed, Exit, ForcedExit, Crash, Start
  <2>9. ASSUME NEW c \in Clients, Disconnect(c) \/ \E p \in Processes : Connect(c, p)
        PROVE  UNCHANGED outboxVars
    BY <2>9 DEF Disconnect, Connect
  <2>10. ASSUME NEW q \in Requests, FinishRequest(q) \/ \E p \in Processes : StartRequest(q, p)
         PROVE  UNCHANGED outboxVars
    BY <2>10 DEF FinishRequest, StartRequest
  <2>11. UNCHANGED vars => UNCHANGED outboxVars
    BY DEF vars
  <2>12. QED
    BY <2>2, <2>3, <2>5, <2>6, <2>7, <2>8, <2>9, <2>10, <2>11 DEF Next
<1>3. QED
  BY <1>1, <1>2, Always, PTL DEF Spec, Outbox!Spec, ImplementsOutbox
=============================================================================
