----------------------------- MODULE Storefront -----------------------------
(***************************************************************************)
(* One browser and the edge of the API: the pages of a list, that the      *)
(* dashboards walk with a stack of cursors; the payment call, which may    *)
(* carry an idempotency key; and the limit on the requests of one address, *)
(* that every one of them passes first.                                    *)
(*                                                                         *)
(* Rows are numbered as they are created and listed newest first. What the *)
(* filter of a list asks is one bit per row: thirteen lists of the code    *)
(* differ in nothing else. TanStack Query, Prisma's cursor and Redis are   *)
(* modelled from how the code uses them.                                   *)
(***************************************************************************)
EXTENDS Naturals, Sequences, FiniteSets

CONSTANTS
    MaxRows,    \* rows that may be created (a bound)
    Rows0,      \* rows that are there at first
    PageLimit,  \* rows on a page; 20 in the code
    RateLimit,  \* requests in one window; 300 in the code
    MaxVisits,  \* visits, presses of Previous and second readings of a page (a bound)
    MaxRuns,    \* runs of the handler under one key (a bound)
    Tabs,       \* tabs that show the list
    Keys,       \* idempotency keys
    Requests,   \* requests in progress at once (a bound)
    Mixes,      \* activities that run beside each other (a bound)
    None

Rows == 1..MaxRows

Cursors == Rows \cup {None}

ASSUME BoundsAssumption == MaxRows \in Nat /\ Rows0 \in Nat /\ MaxVisits \in Nat /\ MaxRuns \in Nat
\* The schema allows a page of one row, which no page of the site asks for: its
\* next page would be itself.
ASSUME PageLimitAssumption == PageLimit \in Nat /\ PageLimit > 1
ASSUME RateLimitAssumption == RateLimit \in Nat \ {0}
ASSUME NoneAssumption == None \notin Nat \cup Tabs \cup Keys
ASSUME MixesAssumption == Mixes \subseteq SUBSET {"pages", "edits", "keys", "limit", "failures"}

VARIABLES
    row,     \* row[n]: is the n-th row there, and does the filter pass it?
    tab,     \* tab[t]: the cursor stack and the query cache of a tab
    req,     \* req[r]: a request in progress and its local variables
    counter, \* the key ratelimit:global:ip in Redis; stranded: the request that
             \* counted first ended before it set the time to live (history)
    stored,  \* stored[k]: the answer kept under an idempotency key
    runs,    \* runs[k]: how often the handler ran for k (history)
    unsure,  \* unsure[k]: did two calls of k overlap, or did one fail? (history)
    mix      \* the activities of this behaviour

vars == <<row, tab, req, counter, stored, runs, unsure, mix>>

-----------------------------------------------------------------------------
NoPage == [state |-> "none", items |-> {}, next |-> None]

Page == [state: {"none", "failed", "shown"}, items: SUBSET Rows, next: Cursors]

\* seen: rows on pages left by Next or Previous since the list was opened;
\* steady: rows listed since the first page was read.
Tab == [open: BOOLEAN, stack: Seq(Cursors), cache: [Cursors -> Page],
        visits: 0..MaxVisits, seen: SUBSET Rows, steady: SUBSET Rows]

Idle == [pc |-> "idle", tab |-> None, cursor |-> None, key |-> None,
         tries |-> 0, answer |-> 0]

Call == [pc: {"idle", "incr", "expire", "fetch", "get", "run", "set"},
         tab: Tabs \cup {None}, cursor: Cursors, key: Keys \cup {None},
         tries: 0..2, answer: 0..MaxRuns]

TypeOK ==
    /\ row \in [Rows -> {"absent", "listed", "hidden"}]
    /\ tab \in [Tabs -> Tab]
    /\ req \in [Requests -> Call]
    /\ counter \in [count: 0..RateLimit + 1, expires: BOOLEAN, stranded: BOOLEAN]
    /\ stored \in [Keys -> 0..MaxRuns]
    /\ runs \in [Keys -> 0..MaxRuns]
    /\ unsure \in [Keys -> BOOLEAN]
    /\ mix \in Mixes

Init ==
    /\ row = [n \in Rows |-> IF n <= Rows0 THEN "listed" ELSE "absent"]
    /\ tab = [t \in Tabs |-> [open |-> FALSE, stack |-> <<None>>,
                              cache |-> [c \in Cursors |-> NoPage], visits |-> 0,
                              seen |-> {}, steady |-> {}]]
    /\ req = [r \in Requests |-> Idle]
    /\ counter = [count |-> 0, expires |-> FALSE, stranded |-> FALSE]
    /\ stored = [k \in Keys |-> 0]
    /\ runs = [k \in Keys |-> 0]
    /\ unsure = [k \in Keys |-> FALSE]
    /\ mix \in Mixes

\* Where a request begins: without "limit", the requests of a behaviour stay
\* far below the limit, and are not counted.
Enter(r, call, handler) ==
    req' = [req EXCEPT ![r] =
        [call EXCEPT !.pc = IF "limit" \in mix THEN "incr" ELSE handler]]

Return(r) == req' = [req EXCEPT ![r] = Idle]

Goto(r, pc) == req' = [req EXCEPT ![r].pc = pc]

-----------------------------------------------------------------------------
(* The rows. *)

CreateRow(n) ==
    /\ "edits" \in mix
    /\ row[n] = "absent"
    /\ \A m \in 1..n - 1 : row[m] # "absent"
    /\ row' = [row EXCEPT ![n] = "listed"]
    /\ UNCHANGED <<tab, req, counter, stored, runs, unsure, mix>>

\* The row leaves the list: by its status, its assignment, a soft delete; or by
\* being deleted, after which it does not come back.
LeaveList(n) ==
    /\ "edits" \in mix
    /\ row[n] = "listed"
    /\ row' = [row EXCEPT ![n] = "hidden"]
    /\ tab' = [t \in Tabs |-> [tab[t] EXCEPT !.steady = @ \ {n}]]
    /\ UNCHANGED <<req, counter, stored, runs, unsure, mix>>

JoinList(n) ==
    /\ "edits" \in mix
    /\ row[n] = "hidden"
    /\ row' = [row EXCEPT ![n] = "listed"]
    /\ UNCHANGED <<tab, req, counter, stored, runs, unsure, mix>>

Listed == {n \in Rows : row[n] = "listed"}

-----------------------------------------------------------------------------
(* A page of a list. *)

\* The newest rows of a set.
Newest(S, count) == {n \in S : Cardinality({m \in S : m > n}) < count}

Oldest(S) == CHOOSE n \in S : \A m \in S : n <= m

\* findMany with a cursor: the cursor's own row is the first of the page. If
\* the row is not listed the answer is empty, or begins with the next one.
Found(cursor) ==
    IF cursor = None THEN {Newest(Listed, PageLimit + 1)}
    ELSE LET rest == Newest({n \in Listed : n <= cursor}, PageLimit + 1) IN
         IF cursor \in Listed THEN {rest} ELSE {{}, rest}

\* Faulty variant: the next page is said to begin with the row that was asked
\* for in addition, without it.
PageSkipping(found) ==
    LET hasMore == Cardinality(found) > PageLimit IN
    [state |-> "shown",
     items |-> IF hasMore THEN Newest(found, PageLimit - 1) ELSE found,
     next |-> IF hasMore THEN Oldest(found) ELSE None]

\* createCursorPagination: one row more than a page is asked for.
PageOf(found) ==
    LET hasMore == Cardinality(found) > PageLimit
        items == Newest(found, PageLimit)
    IN
    [state |-> "shown", items |-> items,
     next |-> IF hasMore THEN Oldest(items) ELSE None]

-----------------------------------------------------------------------------
(* A tab: useCursorPagination and the query of the current cursor. *)

Cursor(t) == tab[t].stack[Len(tab[t].stack)]

Current(t) == tab[t].cache[Cursor(t)]

\* The list is shown, perhaps again: pages that failed are asked for again.
Open(t) ==
    /\ "pages" \in mix
    /\ tab[t].visits < MaxVisits
    /\ tab' = [tab EXCEPT ![t] =
          [tab[t] EXCEPT !.open = TRUE, !.stack = <<None>>, !.visits = @ + 1, !.seen = {},
              !.cache = [c \in Cursors |-> IF tab[t].cache[c].state = "failed" THEN NoPage
                                           ELSE tab[t].cache[c]]]]
    /\ UNCHANGED <<row, req, counter, stored, runs, unsure, mix>>

\* The table has its buttons only while it has rows.
HasButtons(t) == tab[t].open /\ Current(t).items # {}

GoNext(t) ==
    /\ HasButtons(t)
    /\ Current(t).next # None
    /\ tab' = [tab EXCEPT ![t] =
          [tab[t] EXCEPT !.stack = Append(@, Current(t).next),
                         !.seen = @ \cup Current(t).items]]
    /\ UNCHANGED <<row, req, counter, stored, runs, unsure, mix>>

GoPrev(t) ==
    /\ HasButtons(t)
    /\ Len(tab[t].stack) > 1
    /\ tab[t].visits < MaxVisits
    /\ tab' = [tab EXCEPT ![t] =
          [tab[t] EXCEPT !.stack = SubSeq(@, 1, Len(@) - 1), !.visits = @ + 1,
                         !.seen = @ \cup Current(t).items]]
    /\ UNCHANGED <<row, req, counter, stored, runs, unsure, mix>>

\* The query of a cursor runs once at a time, when there is no page.
FetchBegin(r, t) ==
    /\ tab[t].open
    /\ Current(t) = NoPage
    /\ req[r] = Idle
    /\ \A q \in Requests : ~(req[q].tab = t /\ req[q].cursor = Cursor(t))
    /\ Enter(r, [Idle EXCEPT !.tab = t, !.cursor = Cursor(t)], "fetch")
    /\ UNCHANGED <<row, tab, counter, stored, runs, unsure, mix>>

\* The page is stale after 5 min, or a mutation of the tab has invalidated it:
\* it is read again, and shown until then.
Refetch(r, t) ==
    /\ tab[t].open
    /\ Current(t).state = "shown"
    /\ tab[t].visits < MaxVisits
    /\ req[r] = Idle
    /\ \A q \in Requests : ~(req[q].tab = t /\ req[q].cursor = Cursor(t))
    /\ Enter(r, [Idle EXCEPT !.tab = t, !.cursor = Cursor(t)], "fetch")
    /\ tab' = [tab EXCEPT ![t].visits = @ + 1]
    /\ UNCHANGED <<row, counter, stored, runs, unsure, mix>>

Fetch(r) ==
    LET t == req[r].tab
        c == req[r].cursor
        first == \A d \in Cursors : tab[t].cache[d] = NoPage
    IN
    /\ req[r].pc = "fetch"
    /\ \E found \in Found(c) :
          tab' = [tab EXCEPT ![t] =
             [tab[t] EXCEPT !.cache = [tab[t].cache EXCEPT ![c] = PageOf(found)],
                       !.steady = IF first THEN Listed ELSE @]]
    /\ Return(r)
    /\ UNCHANGED <<row, counter, stored, runs, unsure, mix>>

\* Faulty variant: the query is asked for again until it is answered.
UnansweredForever(r) ==
    /\ Enter(r, [req[r] EXCEPT !.tries = 2], "fetch")
    /\ UNCHANGED tab

\* Faulty variant: one time too many.
UnansweredOften(r) ==
    LET t == req[r].tab
        c == req[r].cursor
    IN
    IF req[r].tries <= 2
    THEN /\ Enter(r, [req[r] EXCEPT !.tries = @ + 1], "fetch")
         /\ UNCHANGED tab
    ELSE /\ Return(r)
         /\ tab' = [tab EXCEPT ![t].cache = [@ EXCEPT ![c].state = "failed"]]

\* retry: twice more; a page that was there stays.
Unanswered(r) ==
    LET t == req[r].tab
        c == req[r].cursor
    IN
    IF req[r].tries < 2
    THEN /\ Enter(r, [req[r] EXCEPT !.tries = @ + 1], "fetch")
         /\ UNCHANGED tab
    ELSE /\ Return(r)
         /\ tab' = IF tab[t].cache[c] # NoPage THEN tab
                   ELSE [tab EXCEPT ![t].cache =
                            [tab[t].cache EXCEPT ![c] = [NoPage EXCEPT !.state = "failed"]]]

-----------------------------------------------------------------------------
(* The limit on requests. *)

\* What an admitted request does first.
Handler(r) == IF req[r].tab # None THEN "fetch" ELSE "get"

Refuse(r) ==
    IF req[r].tab # None THEN Unanswered(r) ELSE Return(r) /\ UNCHANGED tab

Incr(r) ==
    /\ req[r].pc = "incr"
    /\ counter' = [counter EXCEPT !.count = IF @ > RateLimit THEN @ ELSE @ + 1]
    /\ IF counter.count >= RateLimit THEN Refuse(r)
       ELSE /\ Goto(r, IF counter.count = 0 THEN "expire" ELSE Handler(r))
            /\ UNCHANGED tab
    /\ UNCHANGED <<row, stored, runs, unsure, mix>>

\* Faulty variant: the first request sets no time to live.
ExpireNever(r) ==
    /\ req[r].pc = "expire"
    /\ Goto(r, Handler(r))
    /\ UNCHANGED <<row, tab, counter, stored, runs, unsure, mix>>

Expire(r) ==
    /\ req[r].pc = "expire"
    /\ counter' = [counter EXCEPT !.expires = TRUE]
    /\ Goto(r, Handler(r))
    /\ UNCHANGED <<row, tab, stored, runs, unsure, mix>>

\* Redis: the window of 60 s is over.
WindowEnds ==
    /\ counter.expires
    /\ counter' = [counter EXCEPT !.count = 0, !.expires = FALSE]
    /\ UNCHANGED <<row, tab, req, stored, runs, unsure, mix>>

-----------------------------------------------------------------------------
(* The payment call. *)

Calls(k) == {r \in Requests : req[r].key = k}

KeyBegin(r, k) ==
    /\ "keys" \in mix
    /\ req[r] = Idle
    /\ Enter(r, [Idle EXCEPT !.key = k], "get")
    /\ unsure' = [unsure EXCEPT ![k] = @ \/ Calls(k) # {}]
    /\ UNCHANGED <<row, tab, counter, stored, runs, mix>>

\* withIdempotencyKey: an answer that is kept is given again.
KeyGet(r) ==
    /\ req[r].pc = "get"
    /\ IF stored[req[r].key] # 0 THEN Return(r) ELSE Goto(r, "run")
    /\ UNCHANGED <<row, tab, counter, stored, runs, unsure, mix>>

\* initiatePayment: a checkout session, or an error that is kept as well.
KeyRun(r) ==
    LET k == req[r].key IN
    /\ req[r].pc = "run"
    /\ runs[k] < MaxRuns
    /\ runs' = [runs EXCEPT ![k] = @ + 1]
    /\ req' = [req EXCEPT ![r] = [req[r] EXCEPT !.pc = "set", !.answer = runs[k] + 1]]
    /\ UNCHANGED <<row, tab, counter, stored, unsure, mix>>

\* Faulty variant: the answer is not kept.
KeySetNothing(r) ==
    /\ req[r].pc = "set"
    /\ Return(r)
    /\ UNCHANGED <<row, tab, counter, stored, runs, unsure, mix>>

KeySet(r) ==
    /\ req[r].pc = "set"
    /\ stored' = [stored EXCEPT ![req[r].key] = req[r].answer]
    /\ Return(r)
    /\ UNCHANGED <<row, tab, counter, runs, unsure, mix>>

\* Redis: the 24 h are over.
KeyEnds(k) ==
    /\ stored[k] # 0
    /\ stored' = [stored EXCEPT ![k] = 0]
    /\ runs' = [runs EXCEPT ![k] = 0]
    /\ unsure' = [unsure EXCEPT ![k] = Calls(k) # {}]
    /\ UNCHANGED <<row, tab, req, counter, mix>>

\* An await rejects or the process dies: the client hears of an error.
Throw(r) ==
    /\ "failures" \in mix
    /\ req[r] # Idle
    /\ Refuse(r)
    /\ unsure' = [k \in Keys |-> unsure[k] \/ k = req[r].key]
    /\ counter' = [counter EXCEPT !.stranded = @ \/ req[r].pc = "expire"]
    /\ UNCHANGED <<row, stored, runs, mix>>

-----------------------------------------------------------------------------
Step(r) ==
    \/ Incr(r) \/ Expire(r) \/ Fetch(r) \/ KeyGet(r) \/ KeyRun(r) \/ KeySet(r)

Next ==
    \/ \E n \in Rows : CreateRow(n) \/ LeaveList(n) \/ JoinList(n)
    \/ \E t \in Tabs : Open(t) \/ GoNext(t) \/ GoPrev(t)
    \/ \E r \in Requests :
          \/ Step(r) \/ Throw(r)
          \/ \E t \in Tabs : FetchBegin(r, t) \/ Refetch(r, t)
          \/ \E k \in Keys : KeyBegin(r, k)
    \/ WindowEnds
    \/ \E k \in Keys : KeyEnds(k)

Spec == Init /\ [][Next]_vars

\* Requests go from await to await, Redis forgets, the query of a page that is
\* shown is sent; and a reader who presses Next until there is no more.
Fairness ==
    /\ \A r \in Requests : WF_vars(Step(r))
    /\ WF_vars(WindowEnds)
    /\ \A t \in Tabs :
          /\ SF_vars(\E r \in Requests : FetchBegin(r, t))
          /\ WF_vars(GoNext(t))

FairSpec == Spec /\ Fairness

-----------------------------------------------------------------------------
\* A row that stays in the list is on a page by the time the reader has passed
\* its place, whatever comes and goes, the rows that pages begin with included:
\* no page with rows on it leaves a gap behind or before it. The one way to miss
\* rows is to be shown a page without any, and then the row that it began with
\* has left the list.
NothingIsSkipped ==
    \A t \in Tabs :
        tab[t].open /\ Current(t).state = "shown"
        => \A n \in tab[t].steady :
              \/ n \in tab[t].seen \cup Current(t).items
              \/ Current(t).next # None /\ n < Current(t).next
              \/ /\ Current(t).items = {}
                 /\ Cursor(t) \in Rows \ tab[t].steady
                 /\ n < Cursor(t)

\* Next goes down the list, whatever is created and hidden between two pages:
\* no page begins where one above it began, and a walk is no longer than the
\* list. A reader who presses Next is never led in a circle.
WalkGoesDown ==
    \A t \in Tabs :
        LET stack == tab[t].stack IN
        /\ Len(stack) <= MaxRows + 1
        /\ \A i, j \in 2..Len(stack) : i < j => stack[j] < stack[i]

\* A reader who goes on comes to the last page, to an empty one or to an error,
\* whatever is created, hidden and refused meanwhile.
WalkEnds ==
    \A t \in Tabs :
        tab[t].open
        ~> Current(t).state = "failed"
           \/ (Current(t).state = "shown" /\ Current(t).next = None)

\* A limit that is exceeded is forgotten, whoever counts, is refused, or fails
\* beside the request that set its time to live; but not when the request that
\* counted first ended before it did, which LimitEnds does not except.
LimitIsForgotten ==
    counter.count > RateLimit
    ~> counter.count <= RateLimit \/ counter.stranded

\* Calls of one key that follow each other, and do not fail, run the handler
\* once, and it is their answer that is kept, until Redis forgets it: KeyRunsOnce
\* has neither condition.
ReplaysTheAnswer ==
    \A k \in Keys :
        ~unsure[k]
        => /\ runs[k] <= 1
           /\ runs[k] = 1 /\ Calls(k) = {} => stored[k] = 1

-----------------------------------------------------------------------------
(* What a comment and a message of the code say, and the code does not do. *)

\* "double-click 'Pay Now' [...] replays the cached response instead of
\* re-running the handler": while an answer is to be kept, one run is all.
KeyRunsOnce == \A k \in Keys : runs[k] <= 1

\* "Rate limit exceeded. Retry in ${ttl} seconds.": there is such a time.
LimitEnds == counter.count > RateLimit ~> counter.count <= RateLimit
=============================================================================
