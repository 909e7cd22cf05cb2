-------------------------- MODULE StorefrontProofs --------------------------
(***************************************************************************)
(* Safety of the storefront for lists of any length, pages of any size and *)
(* any number of tabs, keys and requests.                                  *)
(***************************************************************************)
EXTENDS Storefront, FiniteSetTheorems, SequenceTheorems, WellFoundedInduction, TLAPS

(***************************************************************************)
(* Finite sets of rows have a newest and an oldest row, and a page of them *)
(* is cut where createCursorPagination says.                               *)
(***************************************************************************)
LEMMA RowsAreNat == Rows \subseteq Nat /\ IsFiniteSet(Rows)
<1>1. MaxRows \in Nat
  BY BoundsAssumption
<1>2. Rows \subseteq Nat
  BY <1>1 DEF Rows
<1>3. IsFiniteSet(Rows)
  BY <1>1, FS_Interval DEF Rows
<1>4. QED
  BY <1>2, <1>3

LEMMA LeastRow ==
    ASSUME NEW S \in SUBSET Nat, S # {}
    PROVE  \E n \in S : \A m \in S : n <= m
<1>1. PICK n \in S : \A m \in S : <<m, n>> \notin OpToRel(<, Nat)
  BY NatLessThanWellFounded, WFMin
<1>2. ASSUME NEW m \in S PROVE n <= m
  <2>1. m \in Nat /\ n \in Nat
    OBVIOUS
  <2>2. ~(m < n)
    <3>1. <<m, n>> \in Nat \X Nat
      BY <2>1
    <3>2. <<m, n>>[1] = m /\ <<m, n>>[2] = n
      OBVIOUS
    <3>3. m < n => <<m, n>> \in OpToRel(<, Nat)
      BY <3>1, <3>2 DEF OpToRel
    <3>4. QED
      BY <3>3, <1>1
  <2>3. QED
    BY <2>1, <2>2
<1>3. QED
  BY <1>2

LEMMA GreatestRow ==
    ASSUME NEW S \in SUBSET Rows, S # {}
    PROVE  \E n \in S : \A m \in S : m <= n
<1> DEFINE T == {MaxRows - n : n \in S}
<1>1. MaxRows \in Nat
  BY BoundsAssumption
<1>2. T \in SUBSET Nat /\ T # {}
  <2>1. ASSUME NEW n \in S PROVE MaxRows - n \in Nat
    <3>1. n \in 1..MaxRows
      BY DEF Rows
    <3>2. QED
      BY <1>1, <3>1
  <2>2. QED
    BY <2>1
<1>3. PICK x \in T : \A y \in T : x <= y
  <2> HIDE DEF T
  <2>1. QED
    BY <1>2, LeastRow
<1>4. PICK n \in S : x = MaxRows - n
  BY DEF T
<1>5. ASSUME NEW m \in S PROVE m <= n
  <2>1. MaxRows - m \in T
    OBVIOUS
  <2>2. MaxRows - n <= MaxRows - m
    BY <2>1, <1>3, <1>4
  <2>3. m \in Nat /\ n \in Nat
    BY RowsAreNat
  <2>4. QED
    BY <1>1, <2>2, <2>3
<1>6. QED
  BY <1>5

LEMMA OldestIsLeast ==
    ASSUME NEW S \in SUBSET Rows, S # {}
    PROVE  Oldest(S) \in S /\ \A m \in S : Oldest(S) <= m
<1>1. \E n \in S : \A m \in S : n <= m
  BY LeastRow, RowsAreNat
<1>2. QED
  BY <1>1 DEF Oldest

\* The rows above a row.
Above(S, n) == {m \in S : m > n}

LEMMA NewestIsUpward ==
    ASSUME NEW S \in SUBSET Rows, NEW count \in Nat,
           NEW n \in Newest(S, count), NEW m \in S, m > n
    PROVE  m \in Newest(S, count)
<1>1. n \in Nat /\ m \in Nat /\ S \subseteq Nat
  BY RowsAreNat DEF Newest
<1>2. Above(S, m) \in SUBSET Above(S, n)
  <2>1. ASSUME NEW k \in S, k > m PROVE k > n
    <3>1. k \in Nat
      BY <1>1
    <3>2. QED
      BY <1>1, <2>1, <3>1
  <2>2. QED
    BY <2>1 DEF Above
<1>3. IsFiniteSet(Above(S, n))
  BY RowsAreNat, FS_Subset DEF Above
<1>4. /\ Cardinality(Above(S, m)) <= Cardinality(Above(S, n))
      /\ Cardinality(Above(S, m)) \in Nat /\ Cardinality(Above(S, n)) \in Nat
  BY <1>2, <1>3, FS_Subset, FS_CardinalityType
<1>5. Cardinality(Above(S, n)) < count
  BY DEF Newest, Above
<1>6. Cardinality(Above(S, m)) < count
  BY <1>4, <1>5
<1>7. QED
  BY <1>6 DEF Newest, Above

\* A row that is left out of a page of found rows is older than every row on
\* it, and one row more than a page was found.
LEMMA LeftOutIsOlder ==
    ASSUME NEW S \in SUBSET Rows,
           NEW n \in S, n \notin Newest(Newest(S, PageLimit + 1), PageLimit)
    PROVE  /\ Cardinality(Newest(S, PageLimit + 1)) > PageLimit
           /\ \A i \in Newest(Newest(S, PageLimit + 1), PageLimit) : n < i
<1> DEFINE found == Newest(S, PageLimit + 1)
           items == Newest(found, PageLimit)
<1>1. PageLimit \in Nat /\ PageLimit + 1 \in Nat
  BY PageLimitAssumption
<1>2. found \in SUBSET Rows /\ found \subseteq S /\ items \subseteq found
  BY DEF Newest
<1>3. IsFiniteSet(found)
  BY <1>2, RowsAreNat, FS_Subset
<1>4. Cardinality(found) \in Nat
  BY <1>3, FS_CardinalityType
<1>5. CASE n \in found
  <2>1. ~(Cardinality(Above(found, n)) < PageLimit)
    BY <1>5 DEF Newest, Above
  <2>2. IsFiniteSet(Above(found, n)) /\ Above(found, n) \cup {n} \in SUBSET found
    BY <1>3, <1>5, FS_Subset DEF Above
  <2>3. n \notin Above(found, n)
    BY RowsAreNat DEF Above
  <2>4. Cardinality(Above(found, n) \cup {n}) = Cardinality(Above(found, n)) + 1
    BY <2>2, <2>3, FS_AddElement
  <2>5. Cardinality(Above(found, n) \cup {n}) <= Cardinality(found)
    BY <1>3, <2>2, FS_Subset
  <2>6. Cardinality(Above(found, n)) \in Nat
    BY <2>2, FS_CardinalityType
  <2>7. Cardinality(found) > PageLimit
    BY <1>1, <1>4, <2>1, <2>4, <2>5, <2>6
  <2>8. ASSUME NEW i \in items PROVE n < i
    <3>1. n > i => n \in items
      <4> HIDE DEF found
      <4>1. QED
        BY <1>1, <1>2, <1>5, NewestIsUpward
    <3>2. n # i
      OBVIOUS
    <3>3. n \in Nat /\ i \in Nat
      BY <1>2, RowsAreNat
    <3>4. QED
      BY <3>1, <3>2, <3>3
  <2>9. QED
    BY <2>7, <2>8
<1>6. CASE n \notin found
  <2>1. PICK k \in S \ found : \A m \in S \ found : m <= k
    BY <1>6, GreatestRow
  <2>2. Above(S, k) \subseteq found
    <3>1. ASSUME NEW m \in S, m > k PROVE m \in found
      <4>1. m \in Nat /\ k \in Nat
        BY RowsAreNat
      <4>2. QED
        BY <2>1, <3>1, <4>1
    <3>2. QED
      BY <3>1 DEF Above
  <2>3. ~(Cardinality(Above(S, k)) < PageLimit + 1)
    BY <2>1 DEF Newest, Above
  <2>4. Cardinality(Above(S, k)) <= Cardinality(found) /\ Cardinality(Above(S, k)) \in Nat
    BY <1>3, <2>2, FS_Subset, FS_CardinalityType
  <2>5. Cardinality(found) > PageLimit
    BY <1>1, <1>4, <2>3, <2>4
  <2>6. ASSUME NEW i \in items PROVE n < i
    <3>1. i \in found
      BY <1>2
    <3>2. n > i => n \in found
      BY <1>1, <3>1, NewestIsUpward
    <3>3. n # i
      BY <1>6, <3>1
    <3>4. n \in Nat /\ i \in Nat
      BY <1>2, <3>1, RowsAreNat
    <3>5. QED
      BY <1>6, <3>2, <3>3, <3>4
  <2>7. QED
    BY <2>5, <2>6
<1>7. QED
  BY <1>5, <1>6

\* A page of more rows than fit is not empty.
LEMMA FullPage ==
    ASSUME NEW found \in SUBSET Rows, Cardinality(found) > PageLimit
    PROVE  Newest(found, PageLimit) # {}
<1>1. PageLimit \in Nat /\ PageLimit > 0
  BY PageLimitAssumption
<1>2. found # {}
  BY <1>1, FS_EmptySet
<1>3. PICK k \in found : \A m \in found : m <= k
  BY <1>2, GreatestRow
<1>4. Above(found, k) = {}
  <2>1. ASSUME NEW m \in found PROVE ~(m > k)
    <3>1. m \in Nat /\ k \in Nat
      BY RowsAreNat
    <3>2. QED
      BY <1>3, <3>1
  <2>2. QED
    BY <2>1 DEF Above
<1>5. Cardinality(Above(found, k)) = 0
  BY <1>4, FS_EmptySet
<1>6. k \in Newest(found, PageLimit)
  BY <1>1, <1>5 DEF Newest, Above
<1>7. QED
  BY <1>6

-----------------------------------------------------------------------------
(* What a request carries at each await.                                    *)
CallInv(call) ==
    /\ call.pc = "idle" => call = Idle
    /\ call.pc = "fetch" => call.tab \in Tabs
    /\ call.pc \in {"get", "run", "set"} => call.tab = None
    /\ call.pc # "idle"
       => \/ call.tab \in Tabs /\ call.key = None
          \/ call.tab = None /\ call.key \in Keys

JobInv(r) == CallInv(req[r])

(* A page that is kept for a cursor begins at or below it, says where the   *)
(* next one begins, and has every steady row between the two; or it is      *)
(* empty, and the row of its cursor has left the list.                      *)
Covers(page, c, steady) ==
    \A n \in steady :
        c = None \/ n <= c
        => n \in page.items \/ (page.next # None /\ n < page.next)

Blank(page, c, steady) == page.items = {} /\ c \in Rows \ steady

PageInv(t, c) ==
    LET page == tab[t].cache[c] IN
    /\ page.state # "shown" => page.items = {} /\ page.next = None
    /\ c # None => \A i \in page.items : i <= c
    /\ page.next # None => page.next \in page.items
    /\ page.state = "shown"
       => \/ Covers(page, c, tab[t].steady)
          \/ Blank(page, c, tab[t].steady)

(* The stack goes down the list; what is above its top has been seen.       *)
StackInv(t) ==
    LET stack == tab[t].stack IN
    /\ Len(stack) > 0 /\ stack[1] = None
    /\ \A i \in 2..Len(stack) : stack[i] \in Rows
    /\ \A i \in 2..Len(stack) - 1 : stack[i + 1] <= stack[i]
    /\ Len(stack) > 1 => \E c \in Cursors : tab[t].cache[c].state = "shown"
    /\ \A n \in tab[t].steady :
          n \in tab[t].seen \/ Cursor(t) = None \/ n <= Cursor(t)

TabInv(t) ==
    /\ StackInv(t)
    /\ \A c \in Cursors : PageInv(t, c)
    /\ tab[t].steady \subseteq Listed

(* Under a key whose calls follow each other and do not fail there is one   *)
(* call at a time, and an answer as soon as the handler has run.            *)
KeyInv(k) ==
    ~unsure[k]
    => /\ \A q, r \in Calls(k) : q = r
       /\ runs[k] <= 1
       /\ stored[k] # 0 => stored[k] = 1 /\ runs[k] = 1
       /\ Calls(k) = {} /\ runs[k] = 1 => stored[k] = 1
       /\ \A r \in Calls(k) :
             /\ req[r].pc \in {"incr", "expire", "get"} /\ runs[k] = 1 => stored[k] = 1
             /\ req[r].pc = "run" => runs[k] = 0
             /\ req[r].pc = "set" => runs[k] = 1 /\ stored[k] = 0 /\ req[r].answer = 1

IInv ==
    /\ TypeOK
    /\ \A r \in Requests : JobInv(r)
    /\ \A t \in Tabs : TabInv(t)
    /\ \A k \in Keys : KeyInv(k)

-----------------------------------------------------------------------------
LEMMA IdleCall == Idle \in Call
  BY BoundsAssumption DEF Idle, Call, Cursors

LEMMA NoneIsNone == None \notin Rows /\ None \notin Tabs /\ None \notin Keys
  BY NoneAssumption, RowsAreNat

LEMMA PageTyped ==
    ASSUME NEW found \in SUBSET Rows
    PROVE  PageOf(found) \in Page
<1> DEFINE items == Newest(found, PageLimit)
<1>1. items \in SUBSET Rows
  BY DEF Newest
<1>2. Cardinality(found) > PageLimit => Oldest(items) \in Rows
  <2>1. CASE Cardinality(found) > PageLimit
    <3>1. items # {}
      BY <2>1, FullPage
    <3> HIDE DEF items
    <3>2. QED
      BY <1>1, <3>1, OldestIsLeast
  <2>2. QED
    BY <2>1
<1> HIDE DEF items
<1>3. [state |-> "shown", items |-> items,
       next |-> IF Cardinality(found) > PageLimit THEN Oldest(items) ELSE None] \in Page
  BY <1>1, <1>2 DEF Page, Cursors
<1>4. QED
  BY <1>3 DEF PageOf, items

LEMMA FoundAreRows ==
    ASSUME NEW c \in Cursors, NEW found \in Found(c)
    PROVE  /\ found \in SUBSET Rows /\ found \subseteq Listed
           /\ c # None => \A n \in found : n <= c
<1>1. Listed \subseteq Rows
  BY DEF Listed
<1>2. CASE c = None
  BY <1>1, <1>2 DEF Found, Newest
<1>3. CASE c # None
  <2>1. found \in {{}, Newest({n \in Listed : n <= c}, PageLimit + 1)}
    BY <1>3 DEF Found
  <2>2. QED
    BY <1>1, <2>1 DEF Newest
<1>4. QED
  BY <1>2, <1>3

LEMMA InitInv == Init => IInv
<1> SUFFICES ASSUME Init PROVE IInv
  OBVIOUS
<1>1. TypeOK
  <2>1. [open |-> FALSE, stack |-> <<None>>, cache |-> [c \in Cursors |-> NoPage],
         visits |-> 0, seen |-> {}, steady |-> {}] \in Tab
    <3>1. NoPage \in Page
      BY DEF NoPage, Page, Cursors
    <3>2. <<None>> \in Seq(Cursors)
      BY DEF Cursors
    <3>3. 0 \in 0..MaxVisits
      BY BoundsAssumption
    <3>4. QED
      BY <3>1, <3>2, <3>3 DEF Tab
  <2>2. tab \in [Tabs -> Tab]
    BY <2>1 DEF Init
  <2>3. row \in [Rows -> {"absent", "listed", "hidden"}]
    BY DEF Init
  <2>4. req \in [Requests -> Call]
    BY IdleCall DEF Init
  <2>5. counter \in [count: 0..RateLimit + 1, expires: BOOLEAN, stranded: BOOLEAN]
    BY RateLimitAssumption DEF Init
  <2>6. stored \in [Keys -> 0..MaxRuns] /\ runs \in [Keys -> 0..MaxRuns]
    BY BoundsAssumption DEF Init
  <2>7. unsure \in [Keys -> BOOLEAN] /\ mix \in Mixes
    BY DEF Init
  <2>8. QED
    BY <2>2, <2>3, <2>4, <2>5, <2>6, <2>7 DEF TypeOK
<1>2. ASSUME NEW r \in Requests PROVE JobInv(r)
  BY DEF Init, JobInv, CallInv, Idle
<1>3. ASSUME NEW t \in Tabs PROVE TabInv(t)
  <2>1. /\ tab[t].stack = <<None>> /\ tab[t].steady = {}
        /\ \A c \in Cursors : tab[t].cache[c] = NoPage
    BY DEF Init
  <2>2. StackInv(t)
    BY <2>1 DEF StackInv
  <2>3. \A c \in Cursors : PageInv(t, c)
    BY <2>1 DEF PageInv, NoPage
  <2>4. QED
    BY <2>1, <2>2, <2>3 DEF TabInv
<1>4. ASSUME NEW k \in Keys PROVE KeyInv(k)
  <2>1. Calls(k) = {}
    BY NoneIsNone DEF Init, Calls, Idle
  <2>2. QED
    BY <2>1 DEF Init, KeyInv
<1>5. QED
  BY <1>1, <1>2, <1>3, <1>4 DEF IInv

-----------------------------------------------------------------------------
(* What a step leaves alone.                                                *)

LEMMA TabsKept ==
    ASSUME IInv, tab' = tab, row' = row
    PROVE  \A t \in Tabs : TabInv(t)'
<1>1. ASSUME NEW t \in Tabs PROVE TabInv(t)'
  <2>1. TabInv(t)
    BY DEF IInv
  <2>2. Listed' = Listed
    BY DEF Listed
  <2>3. QED
    BY <2>1, <2>2 DEF TabInv, StackInv, PageInv, Cursor
<1>2. QED
  BY <1>1

\* A tab that is not changed, while no steady row leaves the list.
LEMMA TabKept ==
    ASSUME IInv, NEW t \in Tabs, tab'[t] = tab[t],
           \A n \in tab[t].steady : row[n] = "listed" => row'[n] = "listed"
    PROVE  TabInv(t)'
<1>1. TabInv(t)
  BY DEF IInv
<1>2. tab[t].steady \subseteq Listed'
  BY <1>1 DEF TabInv, Listed
<1>3. QED
  BY <1>1, <1>2 DEF TabInv, StackInv, PageInv, Cursor

LEMMA JobKept ==
    ASSUME IInv, NEW q \in Requests, req'[q] = req[q]
    PROVE  JobInv(q)'
<1>1. JobInv(q)
  BY DEF IInv
<1>2. QED
  BY <1>1 DEF JobInv, CallInv

LEMMA KeysKept ==
    ASSUME IInv, req' = req, stored' = stored, runs' = runs, unsure' = unsure
    PROVE  \A k \in Keys : KeyInv(k)'
<1>1. ASSUME NEW k \in Keys PROVE KeyInv(k)'
  <2>1. KeyInv(k)
    BY DEF IInv
  <2>2. QED
    BY <2>1 DEF KeyInv, Calls
<1>2. QED
  BY <1>1

\* The step of a request that has another key, or none.
LEMMA KeyAside ==
    ASSUME IInv, NEW r \in Requests, \A q \in Requests : q # r => req'[q] = req[q],
           NEW k \in Keys, req[r].key # k, req'[r].key # k,
           stored'[k] = stored[k], runs'[k] = runs[k], unsure[k] => unsure'[k]
    PROVE  KeyInv(k)'
<1>1. KeyInv(k)
  BY DEF IInv
<1>2. Calls(k)' = Calls(k) /\ \A q \in Calls(k) : req'[q] = req[q]
  BY DEF Calls
<1>3. QED
  BY <1>1, <1>2 DEF KeyInv

\* The call of k ends.
LEMMA KeyReturns ==
    ASSUME IInv, NEW r \in Requests, Return(r), NEW k \in Keys, req[r].key = k,
           runs'[k] = runs[k], unsure[k] => unsure'[k], runs[k] \in Nat,
           ~unsure'[k] => stored'[k] \in {0, 1} /\ (stored'[k] = 1 <=> runs[k] = 1)
    PROVE  KeyInv(k)'
<1>1. KeyInv(k)
  BY DEF IInv
<1>2. CASE unsure'[k]
  BY <1>2 DEF KeyInv
<1>3. CASE ~unsure'[k]
  <2>1. ~unsure[k] /\ Calls(k) = {r}
    BY <1>1, <1>3 DEF KeyInv, Calls
  <2>2. \A q \in Requests : req'[q] = IF q = r THEN Idle ELSE req[q]
    BY DEF Return, IInv, TypeOK
  <2>3. Calls(k)' = {}
    BY <2>1, <2>2, NoneIsNone DEF Calls, Idle
  <2>4. QED
    BY <1>1, <1>3, <2>1, <2>3 DEF KeyInv
<1>4. QED
  BY <1>2, <1>3

\* The call of k goes on.
LEMMA KeyGoesOn ==
    ASSUME IInv, NEW r \in Requests, \A q \in Requests : q # r => req'[q] = req[q],
           NEW k \in Keys, req[r].key = k, req'[r].key = k,
           unsure' = unsure,
           ~unsure[k]
           => /\ runs'[k] <= 1
              /\ stored'[k] # 0 => stored'[k] = 1 /\ runs'[k] = 1
              /\ req'[r].pc \in {"incr", "expire", "get"} /\ runs'[k] = 1 => stored'[k] = 1
              /\ req'[r].pc = "run" => runs'[k] = 0
              /\ req'[r].pc = "set" => runs'[k] = 1 /\ stored'[k] = 0 /\ req'[r].answer = 1
    PROVE  KeyInv(k)'
<1>1. KeyInv(k)
  BY DEF IInv
<1>2. CASE unsure[k]
  BY <1>2 DEF KeyInv
<1>3. CASE ~unsure[k]
  <2>1. Calls(k) = {r}
    BY <1>1, <1>3 DEF KeyInv, Calls
  <2>2. Calls(k)' = {r}
    BY <2>1 DEF Calls
  <2>3. QED
    BY <1>3, <2>2 DEF KeyInv
<1>4. QED
  BY <1>2, <1>3

-----------------------------------------------------------------------------
(* The rows.                                                                *)

LEMMA CreateRowKeeps ==
    ASSUME IInv, NEW n \in Rows, CreateRow(n) \/ JoinList(n)
    PROVE  IInv'
<1>1. /\ row' = [row EXCEPT ![n] = "listed"]
      /\ UNCHANGED <<tab, req, counter, stored, runs, unsure, mix>>
  BY DEF CreateRow, JoinList
<1>2. TypeOK'
  BY <1>1 DEF IInv, TypeOK
<1>3. ASSUME NEW r \in Requests PROVE JobInv(r)'
  BY <1>1, JobKept
<1>4. ASSUME NEW t \in Tabs PROVE TabInv(t)'
  <2>1. \A m \in Rows : row[m] = "listed" => row'[m] = "listed"
    BY <1>1 DEF IInv, TypeOK
  <2>2. tab[t].steady \subseteq Rows
    BY DEF IInv, TabInv, Listed
  <2>3. QED
    BY <1>1, <2>1, <2>2, TabKept
<1>5. \A k \in Keys : KeyInv(k)'
  BY <1>1, KeysKept
<1>6. QED
  BY <1>2, <1>3, <1>4, <1>5 DEF IInv

LEMMA LeaveListKeeps ==
    ASSUME IInv, NEW n \in Rows, LeaveList(n)
    PROVE  IInv'
<1>1. /\ row' = [row EXCEPT ![n] = "hidden"]
      /\ tab' = [t \in Tabs |-> [tab[t] EXCEPT !.steady = @ \ {n}]]
      /\ UNCHANGED <<req, counter, stored, runs, unsure, mix>>
  BY DEF LeaveList
<1>2. \A t \in Tabs : tab[t] \in Tab
  BY DEF IInv, TypeOK
<1>3. TypeOK'
  <2>1. \A t \in Tabs : tab'[t] \in Tab
    BY <1>1, <1>2 DEF Tab
  <2>2. tab' \in [Tabs -> Tab]
    BY <1>1, <2>1
  <2>3. QED
    BY <1>1, <2>2 DEF IInv, TypeOK
<1>4. ASSUME NEW r \in Requests PROVE JobInv(r)'
  BY <1>1, JobKept
<1>5. ASSUME NEW t \in Tabs PROVE TabInv(t)'
  <2>1. TabInv(t)
    BY DEF IInv
  <2>2. /\ tab'[t].stack = tab[t].stack /\ tab'[t].cache = tab[t].cache
        /\ tab'[t].seen = tab[t].seen
        /\ tab'[t].steady = tab[t].steady \ {n}
    BY <1>1, <1>2 DEF Tab
  <2>3. tab'[t].steady \subseteq Listed'
    BY <1>1, <2>1, <2>2 DEF TabInv, Listed, IInv, TypeOK
  <2>4. StackInv(t)'
    BY <2>1, <2>2 DEF TabInv, StackInv, Cursor
  <2>5. ASSUME NEW c \in Cursors PROVE PageInv(t, c)'
    <3>1. PageInv(t, c)
      BY <2>1 DEF TabInv
    <3>2. QED
      BY <2>2, <3>1 DEF PageInv, Covers, Blank
  <2>6. QED
    BY <2>3, <2>4, <2>5 DEF TabInv
<1>6. \A k \in Keys : KeyInv(k)'
  BY <1>1, KeysKept
<1>7. QED
  BY <1>3, <1>4, <1>5, <1>6 DEF IInv

-----------------------------------------------------------------------------
(* A tab.                                                                   *)

\* What a page that was just read says.
LEMMA FetchedPage ==
    ASSUME NEW c \in Cursors, NEW found \in Found(c)
    PROVE  LET page == PageOf(found) IN
           /\ page \in Page /\ page.state = "shown"
           /\ c # None => \A i \in page.items : i <= c
           /\ page.next # None => page.next \in page.items
           /\ Covers(page, c, Listed) \/ Blank(page, c, Listed)
<1> DEFINE page == PageOf(found)
           items == Newest(found, PageLimit)
           hasMore == Cardinality(found) > PageLimit
<1>1. page = [state |-> "shown", items |-> items,
              next |-> IF hasMore THEN Oldest(items) ELSE None]
  BY DEF PageOf
<1>2. page.state = "shown" /\ page.items = items
      /\ page.next = IF hasMore THEN Oldest(items) ELSE None
  BY <1>1
<1>3. found \in SUBSET Rows /\ found \subseteq Listed
  BY FoundAreRows
<1>4. page \in Page
  BY <1>3, PageTyped
<1>5. items \subseteq found
  BY DEF Newest
<1>6. c # None => \A i \in items : i <= c
  BY <1>5, FoundAreRows
<1>7. hasMore => /\ items # {} /\ Oldest(items) \in items
                 /\ \A i \in items : Oldest(items) <= i
  <2>1. hasMore => items # {}
    BY <1>3, FullPage
  <2>2. items \in SUBSET Rows
    BY <1>3, <1>5
  <2> HIDE DEF items
  <2>3. QED
    BY <2>1, <2>2, OldestIsLeast
<1> DEFINE S == IF c = None THEN Listed ELSE {m \in Listed : m <= c}
<1>8. ASSUME found = Newest(S, PageLimit + 1), NEW n \in Listed, c = None \/ n <= c
      PROVE  n \in items \/ (hasMore /\ n < Oldest(items))
  <2>1. S \in SUBSET Rows /\ n \in S
    BY <1>8 DEF Listed
  <2>3. n \notin items => hasMore /\ \A i \in items : n < i
    <3> HIDE DEF S
    <3>1. QED
      BY <2>1, <1>8, LeftOutIsOlder
  <2>4. QED
    BY <2>3, <1>7
<1>0. found = Newest(S, PageLimit + 1) \/ (found = {} /\ c \in Rows \ Listed)
  BY DEF Found, Cursors
<1>9. None \notin items
  BY <1>3, <1>5, NoneIsNone
<1> HIDE DEF page, items, hasMore, S
<1>10. page.next # None => page.next \in page.items
  BY <1>2, <1>7
<1>11. Covers(page, c, Listed) \/ Blank(page, c, Listed)
  <2>1. CASE found = Newest(S, PageLimit + 1)
    BY <1>2, <1>7, <1>8, <1>9, <2>1 DEF Covers
  <2>2. CASE found = {} /\ c \in Rows \ Listed
    BY <1>2, <1>5, <2>2 DEF Blank
  <2>3. QED
    BY <1>0, <2>1, <2>2
<1>12. QED
  BY <1>2, <1>4, <1>6, <1>10, <1>11 DEF page

LEMMA CursorTyped ==
    ASSUME IInv, NEW t \in Tabs
    PROVE  /\ Cursor(t) \in Cursors
           /\ tab[t] \in Tab
           /\ Current(t) \in Page
           /\ Len(tab[t].stack) \in Nat \ {0}
<1>1. tab[t] \in Tab /\ StackInv(t)
  BY DEF IInv, TypeOK, TabInv
<1>2. tab[t].stack \in Seq(Cursors) /\ tab[t].cache \in [Cursors -> Page]
  BY <1>1 DEF Tab
<1>3. Len(tab[t].stack) \in Nat \ {0}
  BY <1>1, <1>2 DEF StackInv
<1>4. tab[t].stack[Len(tab[t].stack)] \in Cursors
  BY <1>2, <1>3
<1>5. QED
  BY <1>1, <1>2, <1>3, <1>4 DEF Cursor, Current

\* A step of one tab alone.
LEMMA TabStep ==
    ASSUME IInv, NEW t \in Tabs, tab'[t] \in Tab, tab' = [tab EXCEPT ![t] = tab'[t]],
           TabInv(t)', UNCHANGED <<row, req, counter, stored, runs, unsure, mix>>
    PROVE  IInv'
<1>1. TypeOK'
  BY DEF IInv, TypeOK
<1>2. ASSUME NEW r \in Requests PROVE JobInv(r)'
  BY JobKept
<1>3. ASSUME NEW u \in Tabs PROVE TabInv(u)'
  <2>1. CASE u = t
    BY <2>1
  <2>2. CASE u # t
    <3>1. tab'[u] = tab[u]
      BY <2>2 DEF IInv, TypeOK
    <3>2. QED
      BY <3>1, TabKept
  <2>3. QED
    BY <2>1, <2>2
<1>4. \A k \in Keys : KeyInv(k)'
  BY KeysKept
<1>5. QED
  BY <1>1, <1>2, <1>3, <1>4 DEF IInv

LEMMA OpenKeeps ==
    ASSUME IInv, NEW t \in Tabs, Open(t)
    PROVE  IInv'
<1> DEFINE cache == [c \in Cursors |->
                        IF tab[t].cache[c].state = "failed" THEN NoPage ELSE tab[t].cache[c]]
<1>1. /\ tab[t].visits < MaxVisits
      /\ UNCHANGED <<row, req, counter, stored, runs, unsure, mix>>
  BY DEF Open
<1>2. tab[t] \in Tab /\ TabInv(t) /\ tab \in [Tabs -> Tab]
  BY CursorTyped DEF IInv, TypeOK
<1>3. cache \in [Cursors -> Page]
  BY <1>2 DEF Tab, NoPage, Page, Cursors
<1>4. /\ tab'[t] = [tab[t] EXCEPT !.open = TRUE, !.stack = <<None>>, !.visits = @ + 1,
                                   !.seen = {}, !.cache = cache]
      /\ tab' = [tab EXCEPT ![t] = tab'[t]]
  BY <1>2 DEF Open
<1> HIDE DEF cache
<1>5. /\ tab'[t] \in Tab
      /\ tab'[t].stack = <<None>> /\ tab'[t].cache = cache
      /\ tab'[t].steady = tab[t].steady
  <2>1. <<None>> \in Seq(Cursors) /\ tab[t].visits + 1 \in 0..MaxVisits
    BY <1>1, <1>2, BoundsAssumption DEF Tab, Cursors
  <2>2. QED
    BY <1>2, <1>3, <1>4, <2>1 DEF Tab
<1> USE DEF cache
<1>6. TabInv(t)'
  <2>1. StackInv(t)'
    BY <1>5 DEF StackInv, Cursor
  <2>2. ASSUME NEW c \in Cursors PROVE PageInv(t, c)'
    <3>1. PageInv(t, c)
      BY <1>2 DEF TabInv
    <3>2. CASE tab[t].cache[c].state = "failed"
      BY <1>5, <3>2 DEF PageInv, NoPage
    <3>3. CASE tab[t].cache[c].state # "failed"
      <4>1. tab'[t].cache[c] = tab[t].cache[c]
        BY <1>5, <3>3
      <4>2. QED
        BY <1>5, <3>1, <4>1 DEF PageInv
    <3>4. QED
      BY <3>2, <3>3
  <2>3. tab'[t].steady \subseteq Listed'
    BY <1>1, <1>2, <1>5 DEF TabInv, Listed
  <2>4. QED
    BY <2>1, <2>2, <2>3 DEF TabInv
<1>7. QED
  BY <1>1, <1>4, <1>5, <1>6, TabStep

\* Forward and back: what matters of the pages stays as it is.
LEMMA PagesStay ==
    ASSUME IInv, NEW t \in Tabs, row' = row,
           tab'[t].cache = tab[t].cache, tab'[t].steady = tab[t].steady,
           StackInv(t)'
    PROVE  TabInv(t)'
<1>1. TabInv(t)
  BY DEF IInv
<1>2. ASSUME NEW c \in Cursors PROVE PageInv(t, c)'
  <2>1. PageInv(t, c)
    BY <1>1 DEF TabInv
  <2>2. QED
    BY <2>1 DEF PageInv
<1>3. tab'[t].steady \subseteq Listed'
  BY <1>1 DEF TabInv, Listed
<1>4. QED
  BY <1>2, <1>3 DEF TabInv

LEMMA GoNextKeeps ==
    ASSUME IInv, NEW t \in Tabs, GoNext(t)
    PROVE  IInv'
<1> DEFINE stack == tab[t].stack
           page == Current(t)
<1>1. /\ page.items # {} /\ page.next # None
      /\ UNCHANGED <<row, req, counter, stored, runs, unsure, mix>>
  BY DEF GoNext, HasButtons
<1>2. /\ tab[t] \in Tab /\ TabInv(t) /\ Cursor(t) \in Cursors
      /\ page \in Page /\ Len(stack) \in Nat \ {0}
  BY CursorTyped DEF IInv
<1>3. PageInv(t, Cursor(t)) /\ page = tab[t].cache[Cursor(t)]
  BY <1>2 DEF TabInv, Current
<1>4. stack \in Seq(Cursors) /\ page.next \in Rows /\ page.items \subseteq Rows
  BY <1>1, <1>2 DEF Tab, Page, Cursors
<1>0. /\ tab'[t] = [tab[t] EXCEPT !.stack = Append(stack, page.next),
                                   !.seen = @ \cup page.items]
      /\ tab' = [tab EXCEPT ![t] = tab'[t]]
  BY DEF GoNext, IInv, TypeOK
<1> HIDE DEF page
<1>5. /\ Append(stack, page.next) \in Seq(Cursors)
      /\ Len(Append(stack, page.next)) = Len(stack) + 1
      /\ \A i \in 1..Len(stack) : Append(stack, page.next)[i] = stack[i]
      /\ Append(stack, page.next)[Len(stack) + 1] = page.next
  BY <1>4, AppendProperties DEF Cursors
<1>6. tab'[t] \in Tab
  BY <1>0, <1>2, <1>4, <1>5 DEF Tab
<1>7. /\ tab'[t].stack = Append(stack, page.next) /\ tab'[t].seen = tab[t].seen \cup page.items
      /\ tab'[t].cache = tab[t].cache /\ tab'[t].steady = tab[t].steady
  BY <1>0, <1>2 DEF Tab
<1>8. page.state = "shown"
  BY <1>1, <1>3 DEF PageInv
<1>9. StackInv(t)
  BY <1>2 DEF TabInv
<1>10. Cursor(t)' = page.next
  BY <1>2, <1>5, <1>7 DEF Cursor
<1>11. ASSUME NEW n \in tab[t].steady
       PROVE  n \in tab[t].seen \cup page.items \/ n <= page.next
  <2>1. n \in Rows /\ page.next \in Nat /\ n \in Nat
    BY <1>2, <1>4, RowsAreNat DEF Tab
  <2>2. n \in tab[t].seen \/ Cursor(t) = None \/ n <= Cursor(t)
    BY <1>9, <1>11 DEF StackInv
  <2>3. Cursor(t) = None \/ n <= Cursor(t) => n \in page.items \/ n < page.next
    BY <1>1, <1>3, <1>8, <1>11 DEF PageInv, Covers, Blank
  <2>4. QED
    BY <2>1, <2>2, <2>3
<1>12. StackInv(t)'
  <2>1. Len(tab'[t].stack) > 0 /\ tab'[t].stack[1] = None
    BY <1>2, <1>5, <1>7, <1>9 DEF StackInv
  <2>2. ASSUME NEW i \in 2..Len(tab'[t].stack) PROVE tab'[t].stack[i] \in Rows
    <3>1. CASE i = Len(stack) + 1
      BY <1>4, <1>5, <1>7, <3>1
    <3>2. CASE i # Len(stack) + 1
      <4>1. i \in 2..Len(stack)
        BY <1>2, <1>5, <1>7, <2>2, <3>2
      <4>2. QED
        BY <1>5, <1>7, <1>9, <4>1 DEF StackInv
    <3>3. QED
      BY <3>1, <3>2
  <2>3. ASSUME NEW i \in 2..Len(tab'[t].stack) - 1
        PROVE  tab'[t].stack[i + 1] <= tab'[t].stack[i]
    <3>1. i \in 2..Len(stack)
      BY <1>2, <1>5, <1>7, <2>3
    <3>2. CASE i = Len(stack)
      <4>1. Cursor(t) = stack[i] /\ Cursor(t) # None
        BY <1>9, <3>1, <3>2, NoneIsNone DEF Cursor, StackInv
      <4>2. page.next <= stack[i]
        BY <1>1, <1>3, <4>1 DEF PageInv
      <4>3. QED
        BY <1>5, <1>7, <3>1, <3>2, <4>2
    <3>3. CASE i # Len(stack)
      <4>1. i \in 2..Len(stack) - 1 /\ i \in 1..Len(stack) /\ i + 1 \in 1..Len(stack)
        BY <1>2, <3>1, <3>3
      <4>2. QED
        BY <1>5, <1>7, <1>9, <4>1 DEF StackInv
    <3>4. QED
      BY <3>2, <3>3
  <2>4. \E c \in Cursors : tab'[t].cache[c].state = "shown"
    BY <1>2, <1>3, <1>7, <1>8
  <2>5. \A n \in tab'[t].steady :
           n \in tab'[t].seen \/ Cursor(t)' = None \/ n <= Cursor(t)'
    BY <1>7, <1>10, <1>11
  <2>6. QED
    BY <2>1, <2>2, <2>3, <2>4, <2>5 DEF StackInv
<1>13. TabInv(t)'
  BY <1>1, <1>7, <1>12, PagesStay
<1>14. QED
  BY <1>0, <1>1, <1>6, <1>13, TabStep

LEMMA GoPrevKeeps ==
    ASSUME IInv, NEW t \in Tabs, GoPrev(t)
    PROVE  IInv'
<1> DEFINE stack == tab[t].stack
           page == Current(t)
           shorter == SubSeq(stack, 1, Len(stack) - 1)
<1>1. /\ Len(stack) > 1 /\ tab[t].visits < MaxVisits
      /\ UNCHANGED <<row, req, counter, stored, runs, unsure, mix>>
  BY DEF GoPrev
<1>2. /\ tab[t] \in Tab /\ TabInv(t) /\ StackInv(t) /\ page \in Page
      /\ Len(stack) \in Nat \ {0} /\ stack \in Seq(Cursors) /\ page.items \subseteq Rows
  BY CursorTyped DEF IInv, TabInv, Tab, Page
<1>3. /\ tab'[t] = [tab[t] EXCEPT !.stack = shorter, !.visits = @ + 1,
                                   !.seen = @ \cup page.items]
      /\ tab' = [tab EXCEPT ![t] = tab'[t]]
  BY DEF GoPrev, IInv, TypeOK
<1> HIDE DEF page
<1>4. /\ shorter \in Seq(Cursors) /\ Len(shorter) = Len(stack) - 1
      /\ \A i \in 1..Len(stack) - 1 : shorter[i] = stack[i]
  <2>1. \A i \in 1..Len(stack) - 1 : stack[i] \in Cursors
    BY <1>2
  <2>2. 1 \in Int /\ Len(stack) - 1 \in Int /\ 1 <= Len(stack) - 1
    BY <1>1, <1>2
  <2>3. shorter \in Seq(Cursors) /\ Len(shorter) = Len(stack) - 1 - 1 + 1
        /\ \A i \in 1..Len(stack) - 1 - 1 + 1 : shorter[i] = stack[1 + i - 1]
    BY <2>1, <2>2, SubSeqProperties
  <2>4. QED
    BY <1>2, <2>3
<1> HIDE DEF shorter
<1>5. tab'[t] \in Tab
  <2>1. tab[t].visits + 1 \in 0..MaxVisits
    BY <1>1, <1>2, BoundsAssumption DEF Tab
  <2>2. QED
    BY <1>2, <1>3, <1>4, <2>1 DEF Tab
<1>6. /\ tab'[t].stack = shorter /\ tab'[t].seen = tab[t].seen \cup page.items
      /\ tab'[t].cache = tab[t].cache /\ tab'[t].steady = tab[t].steady
  BY <1>2, <1>3 DEF Tab
<1>7. Cursor(t) = stack[Len(stack)] /\ Cursor(t)' = stack[Len(stack) - 1]
  BY <1>1, <1>2, <1>4, <1>6 DEF Cursor
<1>8. Cursor(t) \in Rows /\ Cursor(t) # None
  BY <1>1, <1>2, <1>7, NoneIsNone DEF StackInv
<1>9. Cursor(t)' = None \/ (Cursor(t)' \in Rows /\ Cursor(t) <= Cursor(t)')
  <2>1. CASE Len(stack) = 2
    BY <1>2, <1>7, <2>1 DEF StackInv
  <2>2. CASE Len(stack) # 2
    <3>1. /\ Len(stack) - 1 \in 2..Len(stack) - 1 /\ Len(stack) - 1 \in 2..Len(stack)
          /\ Len(stack) - 1 + 1 = Len(stack)
      <4>1. ASSUME NEW n \in Nat \ {0}, n > 1, n # 2
            PROVE  n - 1 \in 2..n - 1 /\ n - 1 \in 2..n /\ n - 1 + 1 = n
        BY <4>1
      <4>2. QED
        BY <1>1, <1>2, <2>2, <4>1
    <3>2. stack[Len(stack) - 1 + 1] <= stack[Len(stack) - 1] /\ stack[Len(stack) - 1] \in Rows
      BY <1>2, <3>1 DEF StackInv
    <3>3. QED
      BY <1>7, <3>1, <3>2
  <2>3. QED
    BY <2>1, <2>2
<1>10. ASSUME NEW n \in tab[t].steady
       PROVE  n \in tab[t].seen \/ Cursor(t)' = None \/ n <= Cursor(t)'
  <2>1. n \in tab[t].seen \/ n <= Cursor(t)
    BY <1>2, <1>8, <1>10 DEF StackInv
  <2>2. n \in Nat /\ Cursor(t) \in Nat /\ (Cursor(t)' # None => Cursor(t)' \in Nat)
    BY <1>2, <1>8, <1>9, RowsAreNat DEF Tab
  <2>3. QED
    BY <1>9, <2>1, <2>2
<1>11. StackInv(t)'
  <2>1. Len(tab'[t].stack) > 0 /\ tab'[t].stack[1] = None
    BY <1>1, <1>2, <1>4, <1>6 DEF StackInv
  <2>2. ASSUME NEW i \in 2..Len(tab'[t].stack) PROVE tab'[t].stack[i] \in Rows
    <3>1. i \in 2..Len(stack) /\ i \in 1..Len(stack) - 1
      BY <1>2, <1>4, <1>6
    <3>2. QED
      BY <1>2, <1>4, <1>6, <3>1 DEF StackInv
  <2>3. ASSUME NEW i \in 2..Len(tab'[t].stack) - 1
        PROVE  tab'[t].stack[i + 1] <= tab'[t].stack[i]
    <3>1. i \in 2..Len(stack) - 1 /\ i \in 1..Len(stack) - 1 /\ i + 1 \in 1..Len(stack) - 1
      BY <1>2, <1>4, <1>6
    <3>2. QED
      BY <1>2, <1>4, <1>6, <3>1 DEF StackInv
  <2>4. \E c \in Cursors : tab'[t].cache[c].state = "shown"
    BY <1>1, <1>2, <1>6 DEF StackInv
  <2>5. \A n \in tab'[t].steady :
           n \in tab'[t].seen \/ Cursor(t)' = None \/ n <= Cursor(t)'
    BY <1>6, <1>10
  <2>6. QED
    BY <2>1, <2>2, <2>3, <2>4, <2>5 DEF StackInv
<1>12. TabInv(t)'
  BY <1>1, <1>6, <1>11, PagesStay
<1>13. QED
  BY <1>1, <1>3, <1>5, <1>12, TabStep

-----------------------------------------------------------------------------
(* A request.                                                               *)

LEMMA RequestStep ==
    ASSUME IInv, NEW r \in Requests, NEW call \in Call, CallInv(call),
           req' = [req EXCEPT ![r] = call]
    PROVE  /\ req' \in [Requests -> Call] /\ req'[r] = call
           /\ \A q \in Requests : q # r => req'[q] = req[q]
           /\ \A q \in Requests : JobInv(q)'
<1>1. /\ req' \in [Requests -> Call] /\ req'[r] = call
      /\ \A q \in Requests : q # r => req'[q] = req[q]
  BY DEF IInv, TypeOK
<1>2. ASSUME NEW q \in Requests PROVE JobInv(q)'
  <2>1. CASE q = r
    BY <1>1, <2>1 DEF JobInv, CallInv
  <2>2. CASE q # r
    BY <1>1, <2>2, JobKept
  <2>3. QED
    BY <2>1, <2>2
<1>3. QED
  BY <1>1, <1>2

LEMMA Returned ==
    ASSUME IInv, NEW r \in Requests, Return(r)
    PROVE  /\ req' \in [Requests -> Call] /\ req'[r] = Idle
           /\ \A q \in Requests : q # r => req'[q] = req[q]
           /\ \A q \in Requests : JobInv(q)'
<1>1. CallInv(Idle)
  BY DEF CallInv, Idle
<1>2. QED
  BY <1>1, IdleCall, RequestStep DEF Return

LEMMA Gone ==
    ASSUME IInv, NEW r \in Requests, NEW pc, Goto(r, pc), req[r].pc # "idle",
           \/ pc = "expire"
           \/ pc = "fetch" /\ req[r].tab \in Tabs
           \/ pc \in {"get", "run", "set"} /\ req[r].tab = None
    PROVE  /\ req' \in [Requests -> Call] /\ req'[r] = [req[r] EXCEPT !.pc = pc]
           /\ req'[r].pc = pc /\ req'[r].key = req[r].key
           /\ \A q \in Requests : q # r => req'[q] = req[q]
           /\ \A q \in Requests : JobInv(q)'
<1> DEFINE call == [req[r] EXCEPT !.pc = pc]
<1>1. req[r] \in Call /\ JobInv(r)
  BY DEF IInv, TypeOK
<1>2. call \in Call /\ call.pc = pc /\ call.key = req[r].key /\ call.tab = req[r].tab
  BY <1>1 DEF Call
<1>3. CallInv(call)
  BY <1>1, <1>2 DEF CallInv, JobInv
<1>4. req' = [req EXCEPT ![r] = call]
  BY DEF Goto, IInv, TypeOK
<1> HIDE DEF call
<1>5. /\ req' \in [Requests -> Call] /\ req'[r] = call
      /\ \A q \in Requests : q # r => req'[q] = req[q]
      /\ \A q \in Requests : JobInv(q)'
  BY <1>2, <1>3, <1>4, RequestStep
<1>6. QED
  BY <1>2, <1>5 DEF call

LEMMA Entered ==
    ASSUME IInv, NEW r \in Requests, NEW call \in Call, NEW handler, Enter(r, call, handler),
           \/ handler = "fetch" /\ call.tab \in Tabs /\ call.key = None
           \/ handler = "get" /\ call.tab = None /\ call.key \in Keys
    PROVE  /\ req' \in [Requests -> Call] /\ req'[r].pc \in {"incr", handler}
           /\ req'[r].key = call.key
           /\ \A q \in Requests : q # r => req'[q] = req[q]
           /\ \A q \in Requests : JobInv(q)'
<1> DEFINE pc == IF "limit" \in mix THEN "incr" ELSE handler
           new == [call EXCEPT !.pc = pc]
<1>1. new \in Call /\ new.pc = pc /\ new.key = call.key /\ new.tab = call.tab
  BY DEF Call
<1>2. CallInv(new)
  BY <1>1 DEF CallInv
<1>3. req' = [req EXCEPT ![r] = new]
  BY DEF Enter
<1>4. pc \in {"incr", handler}
  OBVIOUS
<1> HIDE DEF new, pc
<1>5. /\ req' \in [Requests -> Call] /\ req'[r] = new
      /\ \A q \in Requests : q # r => req'[q] = req[q]
      /\ \A q \in Requests : JobInv(q)'
  BY <1>1, <1>2, <1>3, RequestStep
<1>6. QED
  BY <1>1, <1>4, <1>5

\* The step of a request without a key.
LEMMA KeysAside ==
    ASSUME IInv, NEW r \in Requests, \A q \in Requests : q # r => req'[q] = req[q],
           req[r].key = None, req'[r].key = None,
           stored' = stored, runs' = runs, \A k \in Keys : unsure[k] => unsure'[k]
    PROVE  \A k \in Keys : KeyInv(k)'
<1>1. ASSUME NEW k \in Keys PROVE KeyInv(k)'
  <2>1. req[r].key # k /\ req'[r].key # k
    BY NoneIsNone
  <2>2. QED
    BY <2>1, KeyAside
<1>2. QED
  BY <1>1

LEMMA FetchBeginKeeps ==
    ASSUME IInv, NEW r \in Requests, NEW t \in Tabs, FetchBegin(r, t)
    PROVE  IInv'
<1> DEFINE call == [Idle EXCEPT !.tab = t, !.cursor = Cursor(t)]
<1>1. /\ req[r] = Idle /\ Enter(r, call, "fetch")
      /\ UNCHANGED <<row, tab, counter, stored, runs, unsure, mix>>
  BY DEF FetchBegin
<1>2. call \in Call /\ call.tab = t /\ call.key = None
  BY CursorTyped, IdleCall DEF Call, Idle
<1> HIDE DEF call
<1>3. /\ req' \in [Requests -> Call] /\ req'[r].key = None
      /\ \A q \in Requests : q # r => req'[q] = req[q]
      /\ \A q \in Requests : JobInv(q)'
  BY <1>1, <1>2, Entered
<1>4. \A k \in Keys : KeyInv(k)'
  BY <1>1, <1>3, KeysAside DEF Idle
<1>5. \A u \in Tabs : TabInv(u)'
  BY <1>1, TabsKept
<1>6. TypeOK'
  BY <1>1, <1>3 DEF IInv, TypeOK
<1>7. QED
  BY <1>3, <1>4, <1>5, <1>6 DEF IInv

LEMMA RefetchKeeps ==
    ASSUME IInv, NEW r \in Requests, NEW t \in Tabs, Refetch(r, t)
    PROVE  IInv'
<1> DEFINE call == [Idle EXCEPT !.tab = t, !.cursor = Cursor(t)]
<1>1. /\ req[r] = Idle /\ Enter(r, call, "fetch") /\ tab[t].visits < MaxVisits
      /\ tab' = [tab EXCEPT ![t].visits = @ + 1]
      /\ UNCHANGED <<row, counter, stored, runs, unsure, mix>>
  BY DEF Refetch
<1>2. call \in Call /\ call.tab = t /\ call.key = None
  BY CursorTyped, IdleCall DEF Call, Idle
<1> HIDE DEF call
<1>3. /\ req' \in [Requests -> Call] /\ req'[r].key = None
      /\ \A q \in Requests : q # r => req'[q] = req[q]
      /\ \A q \in Requests : JobInv(q)'
  BY <1>1, <1>2, Entered
<1>4. \A k \in Keys : KeyInv(k)'
  BY <1>1, <1>3, KeysAside DEF Idle
<1>5. tab[t] \in Tab /\ TabInv(t) /\ tab \in [Tabs -> Tab]
  BY DEF IInv, TypeOK
<1>6. /\ tab'[t] = [tab[t] EXCEPT !.visits = @ + 1]
      /\ \A u \in Tabs : u # t => tab'[u] = tab[u]
  BY <1>1, <1>5
<1>7. tab'[t] \in Tab
  <2>1. tab[t].visits + 1 \in 0..MaxVisits
    BY <1>1, <1>5, BoundsAssumption DEF Tab
  <2>2. QED
    BY <1>5, <1>6, <2>1 DEF Tab
<1>8. tab' \in [Tabs -> Tab]
  BY <1>1, <1>5, <1>6, <1>7
<1>9. ASSUME NEW u \in Tabs PROVE TabInv(u)'
  <2>1. CASE u = t
    <3>1. /\ tab'[t].stack = tab[t].stack /\ tab'[t].cache = tab[t].cache
          /\ tab'[t].seen = tab[t].seen /\ tab'[t].steady = tab[t].steady
      BY <1>5, <1>6 DEF Tab
    <3>2. StackInv(t)'
      BY <1>5, <3>1 DEF TabInv, StackInv, Cursor
    <3>3. QED
      BY <1>1, <2>1, <3>1, <3>2, PagesStay
  <2>2. CASE u # t
    BY <1>1, <1>6, <2>2, TabKept
  <2>3. QED
    BY <2>1, <2>2
<1>10. TypeOK'
  BY <1>1, <1>3, <1>8 DEF IInv, TypeOK
<1>11. QED
  BY <1>3, <1>4, <1>9, <1>10 DEF IInv

LEMMA WindowEndsKeeps ==
    ASSUME IInv, WindowEnds
    PROVE  IInv'
<1>1. /\ counter' = [counter EXCEPT !.count = 0, !.expires = FALSE]
      /\ UNCHANGED <<row, tab, req, stored, runs, unsure, mix>>
  BY DEF WindowEnds
<1>2. counter' \in [count: 0..RateLimit + 1, expires: BOOLEAN, stranded: BOOLEAN]
  <2>1. counter \in [count: 0..RateLimit + 1, expires: BOOLEAN, stranded: BOOLEAN]
    BY DEF IInv, TypeOK
  <2>2. 0 \in 0..RateLimit + 1
    BY RateLimitAssumption
  <2>3. QED
    BY <1>1, <2>1, <2>2
<1>3. TypeOK'
  BY <1>1, <1>2 DEF IInv, TypeOK
<1>4. \A r \in Requests : JobInv(r)'
  BY <1>1, JobKept
<1>5. QED
  BY <1>1, <1>3, <1>4, TabsKept, KeysKept DEF IInv

LEMMA KeyEndsKeeps ==
    ASSUME IInv, NEW k \in Keys, KeyEnds(k)
    PROVE  IInv'
<1>1. /\ stored' = [stored EXCEPT ![k] = 0] /\ runs' = [runs EXCEPT ![k] = 0]
      /\ unsure' = [unsure EXCEPT ![k] = Calls(k) # {}]
      /\ UNCHANGED <<row, tab, req, counter, mix>>
  BY DEF KeyEnds
<1>2. TypeOK'
  BY <1>1, BoundsAssumption DEF IInv, TypeOK
<1>3. \A r \in Requests : JobInv(r)'
  BY <1>1, JobKept
<1>4. ASSUME NEW l \in Keys PROVE KeyInv(l)'
  <2>1. KeyInv(l) /\ Calls(l)' = Calls(l)
    BY <1>1 DEF IInv, Calls
  <2>2. CASE l = k
    <3>1. /\ stored'[k] = 0 /\ runs'[k] = 0
          /\ unsure'[k] = (Calls(k) # {})
      BY <1>1 DEF IInv, TypeOK
    <3>2. ~unsure'[k] => Calls(k)' = {}
      BY <2>1, <2>2, <3>1
    <3>3. QED
      BY <2>2, <3>1, <3>2 DEF KeyInv
  <2>3. CASE l # k
    BY <1>1, <2>1, <2>3 DEF KeyInv, IInv, TypeOK
  <2>4. QED
    BY <2>2, <2>3
<1>5. QED
  BY <1>1, <1>2, <1>3, <1>4, TabsKept DEF IInv

-----------------------------------------------------------------------------
(* The payment call and the limit.                                          *)

LEMMA RequestTyped ==
    ASSUME IInv, NEW r \in Requests
    PROVE  /\ req[r] \in Call /\ JobInv(r)
           /\ req[r].pc # "idle"
              => \/ req[r].tab \in Tabs /\ req[r].tab # None /\ req[r].key = None
                 \/ req[r].tab = None /\ req[r].key \in Keys
           /\ \A k \in Keys : runs[k] \in Nat /\ stored[k] \in Nat
<1>1. req[r] \in Call /\ JobInv(r)
  BY DEF IInv, TypeOK
<1>2. \A k \in Keys : runs[k] \in 0..MaxRuns /\ stored[k] \in 0..MaxRuns
  BY DEF IInv, TypeOK
<1>3. QED
  BY <1>1, <1>2, NoneIsNone, BoundsAssumption DEF JobInv, CallInv

\* A call that has not reached its key goes on, or is refused.
LEMMA KeysGoOn ==
    ASSUME IInv, NEW r \in Requests, \A q \in Requests : q # r => req'[q] = req[q],
           req'[r].key = req[r].key, req[r].pc \in {"incr", "expire", "fetch"},
           req'[r].pc \in {"incr", "expire", "get", "fetch"},
           stored' = stored, runs' = runs, unsure' = unsure
    PROVE  \A k \in Keys : KeyInv(k)'
<1>1. ASSUME NEW k \in Keys PROVE KeyInv(k)'
  <2>1. CASE req[r].key # k
    BY <2>1, KeyAside
  <2>2. CASE req[r].key = k
    <3>1. KeyInv(k) /\ r \in Calls(k)
      BY <2>2 DEF IInv, Calls
    <3>2. req[r].pc \in {"incr", "expire"}
      BY <2>2, RequestTyped, NoneIsNone DEF JobInv, CallInv
    <3>3. ~unsure[k]
          => /\ runs[k] <= 1
             /\ stored[k] # 0 => stored[k] = 1 /\ runs[k] = 1
             /\ runs[k] = 1 => stored[k] = 1
      BY <3>1, <3>2 DEF KeyInv
    <3>4. QED
      BY <2>2, <3>3, KeyGoesOn
  <2>3. QED
    BY <2>1, <2>2
<1>2. QED
  BY <1>1

LEMMA KeysReturned ==
    ASSUME IInv, NEW r \in Requests, Return(r), stored' = stored, runs' = runs,
           \A k \in Keys : unsure[k] => unsure'[k],
           req[r].pc \in {"incr", "expire", "get"} \/ req[r].key = None
             \/ unsure'[req[r].key]
    PROVE  \A k \in Keys : KeyInv(k)'
<1>1. req'[r].key = None /\ \A q \in Requests : q # r => req'[q] = req[q]
  BY Returned DEF Idle
<1>2. ASSUME NEW k \in Keys PROVE KeyInv(k)'
  <2>1. CASE req[r].key # k
    BY <1>1, <2>1, NoneIsNone, KeyAside
  <2>2. CASE req[r].key = k
    <3>1. KeyInv(k) /\ r \in Calls(k)
      BY <2>2 DEF IInv, Calls
    <3>2. ~unsure'[k] => ~unsure[k] /\ req[r].pc \in {"incr", "expire", "get"}
      BY <2>2, NoneIsNone
    <3>3. ~unsure'[k] => stored[k] \in {0, 1} /\ (stored[k] = 1 <=> runs[k] = 1)
      BY <3>1, <3>2 DEF KeyInv
    <3>4. runs[k] \in Nat
      BY RequestTyped
    <3>5. QED
      BY <2>2, <3>3, <3>4, KeyReturns
  <2>3. QED
    BY <2>1, <2>2
<1>3. QED
  BY <1>2

LEMMA KeyBeginKeeps ==
    ASSUME IInv, NEW r \in Requests, NEW k \in Keys, KeyBegin(r, k)
    PROVE  IInv'
<1> DEFINE call == [Idle EXCEPT !.key = k]
<1>1. /\ req[r] = Idle /\ Enter(r, call, "get")
      /\ unsure' = [unsure EXCEPT ![k] = @ \/ Calls(k) # {}]
      /\ UNCHANGED <<row, tab, counter, stored, runs, mix>>
  BY DEF KeyBegin
<1>2. call \in Call /\ call.tab = None /\ call.key = k
  BY IdleCall DEF Call, Idle
<1> HIDE DEF call
<1>3. /\ req' \in [Requests -> Call] /\ req'[r].key = k /\ req'[r].pc \in {"incr", "get"}
      /\ \A q \in Requests : q # r => req'[q] = req[q]
      /\ \A q \in Requests : JobInv(q)'
  BY <1>1, <1>2, Entered
<1>4. /\ unsure' \in [Keys -> BOOLEAN] /\ \A l \in Keys : unsure[l] => unsure'[l]
      /\ ~unsure'[k] => ~unsure[k] /\ Calls(k) = {}
  BY <1>1 DEF IInv, TypeOK
<1>5. ASSUME NEW l \in Keys PROVE KeyInv(l)'
  <2>1. CASE l # k
    <3>1. req[r].key # l
      BY <1>1, NoneIsNone DEF Idle
    <3>2. QED
      BY <1>1, <1>3, <1>4, <2>1, <3>1, KeyAside
  <2>2. CASE l = k
    <3>1. CASE unsure'[k]
      BY <2>2, <3>1 DEF KeyInv
    <3>2. CASE ~unsure'[k]
      <4>1. Calls(k)' = {r} /\ KeyInv(k) /\ ~unsure[k] /\ Calls(k) = {}
        BY <1>3, <1>4, <3>2 DEF Calls, IInv
      <4>2. QED
        BY <1>1, <1>3, <2>2, <4>1 DEF KeyInv
    <3>3. QED
      BY <3>1, <3>2
  <2>3. QED
    BY <2>1, <2>2
<1>6. TypeOK'
  BY <1>1, <1>3, <1>4 DEF IInv, TypeOK
<1>7. QED
  BY <1>1, <1>3, <1>5, <1>6, TabsKept DEF IInv

LEMMA KeyGetKeeps ==
    ASSUME IInv, NEW r \in Requests, KeyGet(r)
    PROVE  IInv'
<1> DEFINE k == req[r].key
<1>1. /\ req[r].pc = "get"
      /\ IF stored[k] # 0 THEN Return(r) ELSE Goto(r, "run")
      /\ UNCHANGED <<row, tab, counter, stored, runs, unsure, mix>>
  BY DEF KeyGet
<1>2. req[r].tab = None /\ k \in Keys /\ runs[k] \in Nat
  BY <1>1, RequestTyped DEF JobInv, CallInv
<1>3. /\ req' \in [Requests -> Call]
      /\ \A q \in Requests : JobInv(q)'
      /\ \A l \in Keys : KeyInv(l)'
  <2>1. CASE stored[k] # 0
    BY <1>1, <2>1, Returned, KeysReturned
  <2>2. CASE stored[k] = 0
    <3>1. /\ req' \in [Requests -> Call] /\ req'[r].pc = "run" /\ req'[r].key = k
          /\ \A q \in Requests : q # r => req'[q] = req[q]
          /\ \A q \in Requests : JobInv(q)'
      BY <1>1, <1>2, <2>2, Gone
    <3>2. ASSUME NEW l \in Keys PROVE KeyInv(l)'
      <4>1. CASE l # k
        BY <1>1, <3>1, <4>1, KeyAside
      <4>2. CASE l = k
        <5>1. KeyInv(k) /\ r \in Calls(k)
          BY <1>2 DEF IInv, Calls
        <5>2. ~unsure[k] => runs[k] = 0
          BY <1>1, <1>2, <2>2, <5>1 DEF KeyInv
        <5>3. QED
          BY <1>1, <1>2, <2>2, <3>1, <4>2, <5>2, KeyGoesOn
      <4>3. QED
        BY <4>1, <4>2
    <3>3. QED
      BY <3>1, <3>2
  <2>3. QED
    BY <2>1, <2>2
<1>4. TypeOK'
  BY <1>1, <1>3 DEF IInv, TypeOK
<1>5. QED
  BY <1>1, <1>3, <1>4, TabsKept DEF IInv

LEMMA KeyRunKeeps ==
    ASSUME IInv, NEW r \in Requests, KeyRun(r)
    PROVE  IInv'
<1> DEFINE k == req[r].key
           call == [req[r] EXCEPT !.pc = "set", !.answer = runs[k] + 1]
<1>1. /\ req[r].pc = "run" /\ runs[k] < MaxRuns
      /\ runs' = [runs EXCEPT ![k] = @ + 1]
      /\ req' = [req EXCEPT ![r] = call]
      /\ UNCHANGED <<row, tab, counter, stored, unsure, mix>>
  BY DEF KeyRun
<1>2. req[r].tab = None /\ k \in Keys /\ runs[k] \in Nat /\ req[r] \in Call
  BY <1>1, RequestTyped DEF JobInv, CallInv
<1>3. runs[k] + 1 \in 0..MaxRuns
  BY <1>1, <1>2, BoundsAssumption
<1>4. /\ call \in Call /\ call.pc = "set" /\ call.tab = None /\ call.key = k
      /\ call.answer = runs[k] + 1
  BY <1>2, <1>3 DEF Call
<1>5. CallInv(call)
  BY <1>2, <1>4 DEF CallInv
<1> HIDE DEF call
<1>6. /\ req' \in [Requests -> Call] /\ req'[r] = call
      /\ \A q \in Requests : q # r => req'[q] = req[q]
      /\ \A q \in Requests : JobInv(q)'
  BY <1>1, <1>4, <1>5, RequestStep
<1>7. /\ runs' \in [Keys -> 0..MaxRuns] /\ runs'[k] = runs[k] + 1
      /\ \A l \in Keys : l # k => runs'[l] = runs[l]
  BY <1>1, <1>2, <1>3 DEF IInv, TypeOK
<1>8. ASSUME NEW l \in Keys PROVE KeyInv(l)'
  <2>1. CASE l # k
    BY <1>1, <1>4, <1>6, <1>7, <2>1, KeyAside
  <2>2. CASE l = k
    <3>1. KeyInv(k) /\ r \in Calls(k)
      BY <1>2 DEF IInv, Calls
    <3>2. ~unsure[k] => runs[k] = 0 /\ stored[k] = 0
      BY <1>1, <3>1 DEF KeyInv
    <3>3. ~unsure[k] => runs'[k] = 1 /\ stored'[k] = 0 /\ req'[r].answer = 1
      BY <1>1, <1>4, <1>6, <1>7, <3>2
    <3>4. req'[r].pc = "set" /\ req'[r].key = k
      BY <1>4, <1>6
    <3>5. QED
      BY <1>1, <1>2, <1>6, <2>2, <3>3, <3>4, KeyGoesOn
  <2>3. QED
    BY <2>1, <2>2
<1>9. TypeOK'
  BY <1>1, <1>6, <1>7 DEF IInv, TypeOK
<1>10. QED
  BY <1>1, <1>6, <1>8, <1>9, TabsKept DEF IInv

LEMMA KeySetKeeps ==
    ASSUME IInv, NEW r \in Requests, KeySet(r)
    PROVE  IInv'
<1> DEFINE k == req[r].key
<1>1. /\ req[r].pc = "set" /\ Return(r)
      /\ stored' = [stored EXCEPT ![k] = req[r].answer]
      /\ UNCHANGED <<row, tab, counter, runs, unsure, mix>>
  BY DEF KeySet
<1>2. k \in Keys /\ runs[k] \in Nat /\ req[r].answer \in 0..MaxRuns
  BY <1>1, RequestTyped DEF JobInv, CallInv, Call
<1>3. /\ req' \in [Requests -> Call] /\ req'[r] = Idle
      /\ \A q \in Requests : q # r => req'[q] = req[q]
      /\ \A q \in Requests : JobInv(q)'
  BY <1>1, Returned
<1>4. /\ stored' \in [Keys -> 0..MaxRuns] /\ stored'[k] = req[r].answer
      /\ \A l \in Keys : l # k => stored'[l] = stored[l]
  BY <1>1, <1>2 DEF IInv, TypeOK
<1>5. ASSUME NEW l \in Keys PROVE KeyInv(l)'
  <2>1. CASE l # k
    BY <1>1, <1>3, <1>4, <2>1, NoneIsNone, KeyAside DEF Idle
  <2>2. CASE l = k
    <3>1. KeyInv(k) /\ r \in Calls(k)
      BY <1>2 DEF IInv, Calls
    <3>2. ~unsure[k] => runs[k] = 1 /\ stored'[k] = 1
      BY <1>1, <1>4, <3>1 DEF KeyInv
    <3>3. QED
      BY <1>1, <1>2, <2>2, <3>2, KeyReturns
  <2>3. QED
    BY <2>1, <2>2
<1>6. TypeOK'
  BY <1>1, <1>3, <1>4 DEF IInv, TypeOK
<1>7. QED
  BY <1>1, <1>3, <1>5, <1>6, TabsKept DEF IInv

LEMMA ExpireKeeps ==
    ASSUME IInv, NEW r \in Requests, Expire(r)
    PROVE  IInv'
<1>1. /\ req[r].pc = "expire" /\ Goto(r, Handler(r))
      /\ counter' = [counter EXCEPT !.expires = TRUE]
      /\ UNCHANGED <<row, tab, stored, runs, unsure, mix>>
  BY DEF Expire
<1>2. \/ Handler(r) = "fetch" /\ req[r].tab \in Tabs
      \/ Handler(r) = "get" /\ req[r].tab = None
  BY <1>1, RequestTyped DEF Handler
<1>3. /\ req' \in [Requests -> Call] /\ req'[r].pc = Handler(r) /\ req'[r].key = req[r].key
      /\ \A q \in Requests : q # r => req'[q] = req[q]
      /\ \A q \in Requests : JobInv(q)'
  BY <1>1, <1>2, Gone
<1>4. \A k \in Keys : KeyInv(k)'
  BY <1>1, <1>2, <1>3, KeysGoOn
<1>5. counter' \in [count: 0..RateLimit + 1, expires: BOOLEAN, stranded: BOOLEAN]
  BY <1>1 DEF IInv, TypeOK
<1>6. TypeOK'
  BY <1>1, <1>3, <1>5 DEF IInv, TypeOK
<1>7. QED
  BY <1>1, <1>3, <1>4, <1>6, TabsKept DEF IInv

\* A query that is not answered: asked again, or no page.
LEMMA UnansweredKeeps ==
    ASSUME IInv, NEW r \in Requests, req[r].tab \in Tabs, req[r].key = None, row' = row,
           Unanswered(r)
    PROVE  /\ req' \in [Requests -> Call] /\ req'[r].key = None
           /\ \A q \in Requests : q # r => req'[q] = req[q]
           /\ \A q \in Requests : JobInv(q)'
           /\ tab' \in [Tabs -> Tab] /\ \A t \in Tabs : TabInv(t)'
<1>0. PICK t \in Tabs, c \in Cursors : t = req[r].tab /\ c = req[r].cursor
  BY RequestTyped DEF Call
<1>1. req[r] \in Call /\ tab \in [Tabs -> Tab] /\ tab[t] \in Tab /\ TabInv(t)
  BY DEF IInv, TypeOK
<1>2. CASE req[r].tries < 2
  <2> DEFINE call == [req[r] EXCEPT !.tries = @ + 1]
  <2>1. Enter(r, call, "fetch") /\ tab' = tab
    BY <1>2 DEF Unanswered
  <2>2. call \in Call /\ call.tab = req[r].tab /\ call.key = None
    <3>1. req[r].tries + 1 \in 0..2
      BY <1>1, <1>2 DEF Call
    <3>2. QED
      BY <1>1, <3>1 DEF Call
  <2> HIDE DEF call
  <2>3. QED
    BY <1>1, <2>1, <2>2, Entered, TabsKept
<1>3. CASE ~(req[r].tries < 2)
  <2>1. Return(r)
    BY <1>3 DEF Unanswered
  <2>2. CASE tab[t].cache[c] # NoPage
    <3>1. tab' = tab
      BY <1>0, <1>3, <2>2 DEF Unanswered
    <3>2. QED
      BY <1>1, <2>1, <3>1, Returned, TabsKept DEF Idle
  <2>3. CASE tab[t].cache[c] = NoPage
    <3> DEFINE failed == [NoPage EXCEPT !.state = "failed"]
               cache == [tab[t].cache EXCEPT ![c] = failed]
    <3>1. tab' = [tab EXCEPT ![t].cache = cache]
      BY <1>0, <1>3, <2>3 DEF Unanswered
    <3>2. failed \in Page /\ failed.state = "failed" /\ failed.items = {} /\ failed.next = None
      BY DEF NoPage, Page, Cursors
    <3>3. c \in Cursors /\ tab[t].cache \in [Cursors -> Page]
      BY <1>1 DEF Call, Tab
    <3> HIDE DEF failed
    <3>4. /\ cache \in [Cursors -> Page] /\ cache[c] = failed
          /\ \A d \in Cursors : d # c => cache[d] = tab[t].cache[d]
      BY <3>2, <3>3
    <3> HIDE DEF cache
    <3>5. /\ tab'[t] = [tab[t] EXCEPT !.cache = cache]
          /\ \A u \in Tabs : u # t => tab'[u] = tab[u]
      BY <1>1, <3>1
    <3>6. tab'[t] \in Tab
      BY <1>1, <3>4, <3>5 DEF Tab
    <3>7. tab' \in [Tabs -> Tab]
      BY <1>1, <3>1, <3>5, <3>6
    <3>8. /\ tab'[t].stack = tab[t].stack /\ tab'[t].cache = cache
          /\ tab'[t].seen = tab[t].seen /\ tab'[t].steady = tab[t].steady
      BY <1>1, <3>5 DEF Tab
    <3>9. \A d \in Cursors : tab[t].cache[d].state = "shown" => tab'[t].cache[d].state = "shown"
      BY <2>3, <3>4, <3>8 DEF NoPage
    <3>10. StackInv(t)'
      BY <1>1, <3>8, <3>9 DEF TabInv, StackInv, Cursor
    <3>11. ASSUME NEW d \in Cursors PROVE PageInv(t, d)'
      <4>1. CASE d = c
        BY <3>2, <3>4, <3>8, <4>1 DEF PageInv
      <4>2. CASE d # c
        <5>1. PageInv(t, d)
          BY <1>1 DEF TabInv
        <5>2. tab'[t].cache[d] = tab[t].cache[d]
          BY <3>4, <3>8, <4>2
        <5>3. QED
          BY <3>8, <5>1, <5>2 DEF PageInv
      <4>3. QED
        BY <4>1, <4>2
    <3>12. tab'[t].steady \subseteq Listed'
      BY <1>1, <3>8 DEF TabInv, Listed
    <3>13. TabInv(t)'
      BY <3>10, <3>11, <3>12 DEF TabInv
    <3>14. \A u \in Tabs : TabInv(u)'
      BY <3>5, <3>13, TabKept
    <3>15. QED
      BY <2>1, <3>7, <3>14, Returned DEF Idle
  <2>4. QED
    BY <2>2, <2>3
<1>4. QED
  BY <1>2, <1>3

LEMMA RefuseKeeps ==
    ASSUME IInv, NEW r \in Requests, req[r].pc # "idle", Refuse(r),
           row' = row, stored' = stored, runs' = runs,
           \A k \in Keys : unsure[k] => unsure'[k],
           req[r].pc = "incr" \/ (req[r].key \in Keys => unsure'[req[r].key])
    PROVE  /\ req' \in [Requests -> Call] /\ tab' \in [Tabs -> Tab]
           /\ \A q \in Requests : JobInv(q)'
           /\ \A t \in Tabs : TabInv(t)'
           /\ \A k \in Keys : KeyInv(k)'
<1>1. CASE req[r].tab # None
  <2>1. Unanswered(r) /\ req[r].tab \in Tabs /\ req[r].key = None
    BY <1>1, RequestTyped DEF Refuse
  <2>2. /\ req' \in [Requests -> Call] /\ req'[r].key = None
        /\ \A q \in Requests : q # r => req'[q] = req[q]
        /\ \A q \in Requests : JobInv(q)'
        /\ tab' \in [Tabs -> Tab] /\ \A t \in Tabs : TabInv(t)'
    BY <2>1, UnansweredKeeps
  <2>3. \A k \in Keys : KeyInv(k)'
    BY <2>1, <2>2, KeysAside
  <2>4. QED
    BY <2>2, <2>3
<1>2. CASE req[r].tab = None
  <2>1. Return(r) /\ tab' = tab /\ req[r].key \in Keys
    BY <1>2, RequestTyped, NoneIsNone DEF Refuse
  <2>2. \A k \in Keys : KeyInv(k)'
    BY <2>1, KeysReturned
  <2>3. tab' \in [Tabs -> Tab]
    BY <2>1 DEF IInv, TypeOK
  <2>4. QED
    BY <2>1, <2>2, <2>3, Returned, TabsKept
<1>3. QED
  BY <1>1, <1>2

LEMMA IncrKeeps ==
    ASSUME IInv, NEW r \in Requests, Incr(r)
    PROVE  IInv'
<1>1. /\ req[r].pc = "incr"
      /\ counter' = [counter EXCEPT !.count = IF @ > RateLimit THEN @ ELSE @ + 1]
      /\ UNCHANGED <<row, stored, runs, unsure, mix>>
  BY DEF Incr
<1>2. counter' \in [count: 0..RateLimit + 1, expires: BOOLEAN, stranded: BOOLEAN]
  <2>1. counter \in [count: 0..RateLimit + 1, expires: BOOLEAN, stranded: BOOLEAN]
    BY DEF IInv, TypeOK
  <2>2. counter.count \in 0..RateLimit + 1 /\ RateLimit \in Nat
    BY <2>1, RateLimitAssumption
  <2>3. (IF counter.count > RateLimit THEN counter.count ELSE counter.count + 1)
           \in 0..RateLimit + 1
    BY <2>2
  <2>4. QED
    BY <1>1, <2>1, <2>3
<1>3. /\ req' \in [Requests -> Call] /\ tab' \in [Tabs -> Tab]
      /\ \A q \in Requests : JobInv(q)'
      /\ \A t \in Tabs : TabInv(t)'
      /\ \A k \in Keys : KeyInv(k)'
  <2>1. CASE counter.count >= RateLimit
    <3>1. Refuse(r)
      BY <2>1 DEF Incr
    <3>2. QED
      BY <1>1, <3>1, RefuseKeeps
  <2>2. CASE ~(counter.count >= RateLimit)
    <3> DEFINE pc == IF counter.count = 0 THEN "expire" ELSE Handler(r)
    <3>1. Goto(r, pc) /\ tab' = tab
      BY <2>2 DEF Incr
    <3>2. \/ pc = "expire"
          \/ pc = "fetch" /\ req[r].tab \in Tabs
          \/ pc = "get" /\ req[r].tab = None
      BY <1>1, RequestTyped DEF Handler
    <3> HIDE DEF pc
    <3>3. /\ req' \in [Requests -> Call] /\ req'[r].pc = pc /\ req'[r].key = req[r].key
          /\ \A q \in Requests : q # r => req'[q] = req[q]
          /\ \A q \in Requests : JobInv(q)'
      BY <1>1, <3>1, <3>2, Gone
    <3>4. \A k \in Keys : KeyInv(k)'
      BY <1>1, <3>2, <3>3, KeysGoOn
    <3>5. tab' \in [Tabs -> Tab] /\ \A t \in Tabs : TabInv(t)'
      BY <1>1, <3>1, TabsKept DEF IInv, TypeOK
    <3>6. QED
      BY <3>3, <3>4, <3>5
  <2>3. QED
    BY <2>1, <2>2
<1>4. TypeOK'
  BY <1>1, <1>2, <1>3 DEF IInv, TypeOK
<1>5. QED
  BY <1>3, <1>4 DEF IInv

LEMMA ThrowKeeps ==
    ASSUME IInv, NEW r \in Requests, Throw(r)
    PROVE  IInv'
<1>1. /\ req[r] # Idle /\ Refuse(r)
      /\ unsure' = [k \in Keys |-> unsure[k] \/ k = req[r].key]
      /\ counter' = [counter EXCEPT !.stranded = @ \/ req[r].pc = "expire"]
      /\ UNCHANGED <<row, stored, runs, mix>>
  BY DEF Throw
<1>2. req[r].pc # "idle"
  BY <1>1, RequestTyped DEF JobInv, CallInv
<1>3. /\ unsure' \in [Keys -> BOOLEAN] /\ \A k \in Keys : unsure[k] => unsure'[k]
      /\ req[r].key \in Keys => unsure'[req[r].key]
  BY <1>1 DEF IInv, TypeOK
<1>4. /\ req' \in [Requests -> Call] /\ tab' \in [Tabs -> Tab]
      /\ \A q \in Requests : JobInv(q)'
      /\ \A t \in Tabs : TabInv(t)'
      /\ \A k \in Keys : KeyInv(k)'
  BY <1>1, <1>2, <1>3, RefuseKeeps
<1>5. counter' \in [count: 0..RateLimit + 1, expires: BOOLEAN, stranded: BOOLEAN]
  BY <1>1 DEF IInv, TypeOK
<1>6. TypeOK'
  BY <1>1, <1>3, <1>4, <1>5 DEF IInv, TypeOK
<1>7. QED
  BY <1>4, <1>6 DEF IInv

\* The first page begins the steady rows anew: nothing is on the stack then
\* but the beginning of the list.
LEMMA FetchKeeps ==
    ASSUME IInv, NEW r \in Requests, Fetch(r)
    PROVE  IInv'
<1>0. req[r].pc = "fetch" /\ Return(r) /\ UNCHANGED <<row, counter, stored, runs, unsure, mix>>
  BY DEF Fetch
<1>1. req[r].tab \in Tabs /\ req[r].key = None /\ req[r].cursor \in Cursors
  BY <1>0, RequestTyped, NoneIsNone DEF JobInv, CallInv, Call
<1>2. PICK t \in Tabs, c \in Cursors : t = req[r].tab /\ c = req[r].cursor
  BY <1>1
<1> DEFINE first == \A d \in Cursors : tab[t].cache[d] = NoPage
           steady == IF first THEN Listed ELSE tab[t].steady
<1>3. PICK found \in Found(c) :
         tab' = [tab EXCEPT ![t] =
                    [tab[t] EXCEPT !.cache = [tab[t].cache EXCEPT ![c] = PageOf(found)],
                                   !.steady = steady]]
  BY <1>2 DEF Fetch
<1> DEFINE page == PageOf(found)
           cache == [tab[t].cache EXCEPT ![c] = page]
<1>4. /\ page \in Page /\ page.state = "shown"
      /\ c # None => \A i \in page.items : i <= c
      /\ page.next # None => page.next \in page.items
      /\ Covers(page, c, Listed) \/ Blank(page, c, Listed)
  BY FetchedPage
<1> HIDE DEF page
<1>5. tab \in [Tabs -> Tab] /\ tab[t] \in Tab /\ TabInv(t) /\ tab[t].cache \in [Cursors -> Page]
  BY DEF IInv, TypeOK, Tab
<1>6. /\ cache \in [Cursors -> Page] /\ cache[c] = page
      /\ \A d \in Cursors : d # c => cache[d] = tab[t].cache[d]
  BY <1>4, <1>5
<1>7. steady \subseteq Listed /\ steady \in SUBSET Rows
  BY <1>5 DEF TabInv, Listed, Tab
<1>8. /\ tab'[t] = [tab[t] EXCEPT !.cache = cache, !.steady = steady]
      /\ \A u \in Tabs : u # t => tab'[u] = tab[u]
  BY <1>3, <1>5 DEF page
<1>9. steady # tab[t].steady => \A d \in Cursors : tab[t].cache[d] = NoPage
  OBVIOUS
<1> HIDE DEF cache, steady, first
<1>11. tab'[t] \in Tab
  BY <1>5, <1>6, <1>7, <1>8 DEF Tab
<1>12. tab' \in [Tabs -> Tab]
  BY <1>3, <1>5, <1>8, <1>11
<1>13. /\ tab'[t].stack = tab[t].stack /\ tab'[t].seen = tab[t].seen
       /\ tab'[t].cache = cache /\ tab'[t].steady = steady
  BY <1>5, <1>8 DEF Tab
<1>14. StackInv(t)'
  <2>1. StackInv(t) /\ Cursor(t)' = Cursor(t)
    BY <1>5, <1>13 DEF TabInv, Cursor
  <2>2. \E d \in Cursors : tab'[t].cache[d].state = "shown"
    BY <1>4, <1>6, <1>13
  <2>3. CASE steady = tab[t].steady
    BY <1>13, <2>1, <2>2, <2>3 DEF StackInv
  <2>4. CASE steady # tab[t].steady
    <3>1. \A d \in Cursors : tab[t].cache[d].state # "shown"
      BY <1>9, <2>4 DEF NoPage
    <3>2. Len(tab[t].stack) = 1
      <4>1. ~(Len(tab[t].stack) > 1)
        BY <2>1, <3>1 DEF StackInv
      <4>2. \A n \in Nat \ {0} : ~(n > 1) => n = 1
        OBVIOUS
      <4>3. Len(tab[t].stack) \in Nat \ {0}
        BY CursorTyped
      <4>4. QED
        BY <4>1, <4>2, <4>3
    <3>3. Cursor(t) = None
      BY <2>1, <3>2 DEF StackInv, Cursor
    <3>4. QED
      BY <1>13, <2>1, <2>2, <3>3 DEF StackInv
  <2>5. QED
    BY <2>3, <2>4
<1>15. ASSUME NEW d \in Cursors PROVE PageInv(t, d)'
  <2>1. CASE d = c
    <3>1. Covers(page, c, steady) \/ Blank(page, c, steady)
      BY <1>4, <1>7 DEF Covers, Blank
    <3>2. tab'[t].cache[d] = page /\ d = c
      BY <1>6, <1>13, <2>1
    <3>3. /\ page.state # "shown" => page.items = {} /\ page.next = None
          /\ d # None => \A i \in page.items : i <= d
      BY <1>4, <2>1
    <3>4. QED
      BY <1>4, <1>13, <2>1, <3>1, <3>2, <3>3 DEF PageInv
  <2>2. CASE d # c
    <3>1. PageInv(t, d) /\ tab'[t].cache[d] = tab[t].cache[d]
      BY <1>5, <1>6, <1>13, <2>2 DEF TabInv
    <3>2. CASE steady = tab[t].steady
      BY <1>13, <3>1, <3>2 DEF PageInv
    <3>3. CASE steady # tab[t].steady
      <4>1. tab[t].cache[d].state # "shown"
        BY <1>9, <3>3 DEF NoPage
      <4>2. QED
        BY <3>1, <4>1 DEF PageInv
    <3>4. QED
      BY <3>2, <3>3
  <2>3. QED
    BY <2>1, <2>2
<1>16. tab'[t].steady \subseteq Listed'
  BY <1>0, <1>7, <1>13 DEF Listed
<1>17. TabInv(t)'
  BY <1>14, <1>15, <1>16 DEF TabInv
<1>18. \A u \in Tabs : TabInv(u)'
  BY <1>0, <1>8, <1>17, TabKept
<1>19. /\ req' \in [Requests -> Call] /\ req'[r].key = None
       /\ \A q \in Requests : q # r => req'[q] = req[q]
       /\ \A q \in Requests : JobInv(q)'
  BY <1>0, Returned DEF Idle
<1>20. \A k \in Keys : KeyInv(k)'
  BY <1>0, <1>1, <1>19, KeysAside
<1>21. TypeOK'
  BY <1>0, <1>12, <1>19 DEF IInv, TypeOK
<1>22. QED
  BY <1>18, <1>19, <1>20, <1>21 DEF IInv

-----------------------------------------------------------------------------
LEMMA Inductive == IInv /\ [Next]_vars => IInv'
<1> SUFFICES ASSUME IInv, [Next]_vars PROVE IInv'
  OBVIOUS
<1>1. CASE \E n \in Rows : CreateRow(n) \/ LeaveList(n) \/ JoinList(n)
  BY <1>1, CreateRowKeeps, LeaveListKeeps
<1>2. CASE \E t \in Tabs : Open(t) \/ GoNext(t) \/ GoPrev(t)
  BY <1>2, OpenKeeps, GoNextKeeps, GoPrevKeeps
<1>3. CASE \E r \in Requests : Step(r) \/ Throw(r)
  <2>1. PICK r \in Requests : Step(r) \/ Throw(r)
    BY <1>3
  <2>2. CASE Throw(r)
    BY <2>2, ThrowKeeps
  <2>3. CASE Step(r)
    BY <2>3, IncrKeeps, ExpireKeeps, FetchKeeps, KeyGetKeeps, KeyRunKeeps, KeySetKeeps DEF Step
  <2>4. QED
    BY <2>1, <2>2, <2>3
<1>4. CASE \E r \in Requests, t \in Tabs : FetchBegin(r, t) \/ Refetch(r, t)
  BY <1>4, FetchBeginKeeps, RefetchKeeps
<1>5. CASE \E r \in Requests, k \in Keys : KeyBegin(r, k)
  BY <1>5, KeyBeginKeeps
<1>6. CASE WindowEnds
  BY <1>6, WindowEndsKeeps
<1>7. CASE \E k \in Keys : KeyEnds(k)
  BY <1>7, KeyEndsKeeps
<1>8. CASE UNCHANGED vars
  <2>1. UNCHANGED <<row, tab, req, counter, stored, runs, unsure, mix>>
    BY <1>8 DEF vars
  <2>2. TypeOK'
    BY <2>1 DEF IInv, TypeOK
  <2>3. QED
    BY <2>1, <2>2, JobKept, TabsKept, KeysKept DEF IInv
<1>9. QED
  BY <1>1, <1>2, <1>3, <1>4, <1>5, <1>6, <1>7, <1>8 DEF Next

LEMMA Always == Spec => []IInv
BY InitInv, Inductive, PTL DEF Spec

\* Every variable has its type in every state that can be reached.
THEOREM StorefrontTyped == Spec => []TypeOK
<1>1. IInv => TypeOK
  BY DEF IInv
<1>2. QED
  BY <1>1, Always, PTL

\* useCursorPagination and createCursorPagination: no row that stays in a list
\* falls between two pages of it, however long the list and the pages are,
\* whoever reads it, and whatever comes and goes meanwhile, unless the page
\* that the reader comes to is empty because its cursor's own row is gone.
THEOREM NothingSkipped == Spec => []NothingIsSkipped
<1>1. IInv => NothingIsSkipped
  <2> SUFFICES ASSUME IInv, NEW t \in Tabs, Current(t).state = "shown",
                      NEW n \in tab[t].steady
               PROVE  \/ n \in tab[t].seen \cup Current(t).items
                      \/ Current(t).next # None /\ n < Current(t).next
                      \/ /\ Current(t).items = {}
                         /\ Cursor(t) \in Rows \ tab[t].steady
                         /\ n < Cursor(t)
    BY DEF NothingIsSkipped
  <2>1. Cursor(t) \in Cursors /\ StackInv(t) /\ PageInv(t, Cursor(t))
    BY CursorTyped DEF IInv, TabInv
  <2>2. n \in tab[t].seen \/ Cursor(t) = None \/ n <= Cursor(t)
    BY <2>1 DEF StackInv
  <2>3. CASE Covers(Current(t), Cursor(t), tab[t].steady)
    BY <2>2, <2>3 DEF Covers
  <2>4. CASE Blank(Current(t), Cursor(t), tab[t].steady)
    <3>1. Cursor(t) \in Rows /\ Cursor(t) # n /\ Cursor(t) # None
      BY <2>4, NoneIsNone DEF Blank
    <3>2. n \in Nat /\ Cursor(t) \in Nat
      BY <3>1, CursorTyped, RowsAreNat DEF Tab
    <3>3. QED
      BY <2>2, <2>4, <3>1, <3>2 DEF Blank
  <2>5. QED
    BY <2>1, <2>3, <2>4 DEF PageInv, Current
<1>2. QED
  BY <1>1, Always, PTL

\* withIdempotencyKey: calls of one key that follow each other, and do not
\* fail, run the handler once, however many calls and keys there are.
THEOREM AnswersReplayed == Spec => []ReplaysTheAnswer
<1>1. IInv => ReplaysTheAnswer
  BY DEF IInv, KeyInv, ReplaysTheAnswer
<1>2. QED
  BY <1>1, Always, PTL
-----------------------------------------------------------------------------
(* The walk goes down: a next page begins below a row of the page before.   *)

Below(page) == page.next # None => \E i \in page.items : page.next < i

(* The cursors above 1 fall, so the i-th is at least i - 2 below the top.   *)
Descends(stack) ==
    /\ \A i, j \in 2..Len(stack) : i < j => stack[j] < stack[i]
    /\ \A i \in 2..Len(stack) : stack[i] + i <= MaxRows + 2

WalkInv ==
    \A t \in Tabs :
        /\ Descends(tab[t].stack)
        /\ \A c \in Cursors : Below(tab[t].cache[c])

\* A page that is followed by another has two rows, for a page has room for two.
LEMMA PageIsBelow ==
    ASSUME NEW found \in SUBSET Rows
    PROVE  Below(PageOf(found))
<1> DEFINE items == Newest(found, PageLimit)
<1>1. CASE Cardinality(found) > PageLimit
  <2>1. PageLimit \in Nat /\ PageLimit > 1
    BY PageLimitAssumption
  <2>2. IsFiniteSet(found) /\ Cardinality(found) \in Nat
    BY RowsAreNat, FS_Subset, FS_CardinalityType
  <2>3. found # {}
    BY <1>1, <2>1, FS_EmptySet
  <2>4. PICK k \in found : \A m \in found : m <= k
    BY <2>3, GreatestRow
  <2>5. Cardinality(found \ {k}) = Cardinality(found) - 1
    BY <2>2, <2>4, FS_RemoveElement
  <2>6. found \ {k} # {}
    <3>1. Cardinality(found \ {k}) # 0
      BY <1>1, <2>1, <2>2, <2>5
    <3>2. QED
      BY <3>1, FS_EmptySet
  <2>7. PICK h \in found \ {k} : \A m \in found \ {k} : m <= h
    BY <2>6, GreatestRow
  <2>8. k \in Nat /\ h \in Nat /\ h < k
    <3>1. k \in Nat /\ h \in Nat /\ h <= k /\ h # k
      BY <2>4, <2>7, RowsAreNat
    <3>2. QED
      BY <3>1
  <2>9. Above(found, h) = {k}
    <3>1. ASSUME NEW m \in found, m > h PROVE m = k
      <4>1. m \in Nat
        BY RowsAreNat
      <4>2. QED
        BY <2>7, <2>8, <3>1, <4>1
    <3>2. QED
      BY <2>4, <2>8, <3>1 DEF Above
  <2>10. Cardinality(Above(found, h)) = 1
    BY <2>9, FS_Singleton
  <2>11. h \in items
    BY <2>1, <2>7, <2>10 DEF Newest, Above
  <2>12. k \in items
    BY <2>1, <2>4, <2>7, <2>8, <2>11, NewestIsUpward
  <2>13. items \in SUBSET Rows
    BY DEF Newest
  <2> HIDE DEF items
  <2>14. Oldest(items) \in Nat /\ Oldest(items) <= h
    BY <2>11, <2>13, OldestIsLeast, RowsAreNat
  <2>15. Oldest(items) < k
    BY <2>8, <2>14
  <2>16. PageOf(found).next = Oldest(items) /\ PageOf(found).items = items
    BY <1>1 DEF PageOf, items
  <2>17. QED
    BY <2>12, <2>15, <2>16 DEF Below
<1>2. CASE ~(Cardinality(found) > PageLimit)
  BY <1>2 DEF PageOf, Below
<1>3. QED
  BY <1>1, <1>2

LEMMA NotFirst == \A n \in Nat \ {0} : n # 1 => n > 1 /\ n \in 2..n
OBVIOUS

LEMMA WalkStarts == Init => WalkInv
<1> SUFFICES ASSUME Init, NEW t \in Tabs
             PROVE  Descends(tab[t].stack) /\ \A c \in Cursors : Below(tab[t].cache[c])
  BY DEF WalkInv
<1>1. tab[t].stack = <<None>> /\ \A c \in Cursors : tab[t].cache[c] = NoPage
  BY DEF Init
<1>2. QED
  BY <1>1 DEF Descends, Below, NoPage

\* What a step does to the cursors of a tab and to its pages.
OldPages(t) == \A c \in Cursors :
    \/ tab'[t].cache[c] = tab[t].cache[c]
    \/ tab'[t].cache[c].next = None
    \/ \E found \in SUBSET Rows : tab'[t].cache[c] = PageOf(found)

WalkMoves(t) ==
    /\ OldPages(t)
    /\ \/ tab'[t].stack = tab[t].stack
       \/ tab'[t].stack = <<None>>
       \/ GoNext(t)
       \/ GoPrev(t)

LEMMA WalkAside ==
    ASSUME NEW t \in Tabs,
           tab'[t].stack = tab[t].stack, tab'[t].cache = tab[t].cache
    PROVE  WalkMoves(t)
BY DEF WalkMoves, OldPages

LEMMA WalkUnanswered ==
    ASSUME IInv, NEW r \in Requests, Unanswered(r), req[r].tab \in Tabs, NEW t \in Tabs
    PROVE  WalkMoves(t)
<1>1. PICK u \in Tabs, c \in Cursors : u = req[r].tab /\ c = req[r].cursor
  BY RequestTyped DEF Call
<1>2. tab \in [Tabs -> Tab]
  BY DEF IInv, TypeOK
<1>3. CASE tab' = tab
  BY <1>3, WalkAside
<1>4. CASE tab' # tab
  <2> DEFINE failed == [NoPage EXCEPT !.state = "failed"]
             cache == [tab[u].cache EXCEPT ![c] = failed]
  <2>1. tab' = [tab EXCEPT ![u].cache = cache]
    BY <1>1, <1>4 DEF Unanswered
  <2>2. failed \in Page /\ failed.next = None
    BY DEF NoPage, Page, Cursors
  <2> HIDE DEF failed
  <2>3. /\ cache[c] = failed
        /\ \A d \in Cursors : d # c => cache[d] = tab[u].cache[d]
    BY <1>2, <2>2 DEF Tab
  <2> HIDE DEF cache
  <2>4. CASE t = u
    <3>1. tab'[t].stack = tab[t].stack /\ tab'[t].cache = cache
      BY <1>2, <2>1, <2>4 DEF Tab
    <3>2. QED
      BY <2>2, <2>3, <2>4, <3>1 DEF WalkMoves, OldPages
  <2>5. CASE t # u
    BY <1>2, <2>1, <2>5, WalkAside
  <2>6. QED
    BY <2>4, <2>5
<1>5. QED
  BY <1>3, <1>4

LEMMA WalkFetched ==
    ASSUME IInv, NEW r \in Requests, Fetch(r), NEW t \in Tabs
    PROVE  WalkMoves(t)
<1>0. req[r].pc = "fetch"
  BY DEF Fetch
<1>1. PICK u \in Tabs, c \in Cursors : u = req[r].tab /\ c = req[r].cursor
  BY <1>0, RequestTyped, NoneIsNone DEF JobInv, CallInv, Call
<1>2. tab \in [Tabs -> Tab]
  BY DEF IInv, TypeOK
<1> DEFINE first == \A d \in Cursors : tab[u].cache[d] = NoPage
           steady == IF first THEN Listed ELSE tab[u].steady
<1>3. PICK found \in Found(c) :
         tab' = [tab EXCEPT ![u] =
                    [tab[u] EXCEPT !.cache = [tab[u].cache EXCEPT ![c] = PageOf(found)],
                                   !.steady = steady]]
  BY <1>1 DEF Fetch
<1>4. found \in SUBSET Rows
  BY FoundAreRows
<1> HIDE DEF first, steady
<1>5. CASE t = u
  <2>1. /\ tab'[t].stack = tab[t].stack
        /\ tab'[t].cache = [tab[u].cache EXCEPT ![c] = PageOf(found)]
    BY <1>2, <1>3, <1>5 DEF Tab
  <2>2. \A d \in Cursors : tab'[t].cache[d] = IF d = c THEN PageOf(found) ELSE tab[t].cache[d]
    BY <1>2, <1>5, <2>1 DEF Tab
  <2>3. QED
    BY <1>4, <2>1, <2>2 DEF WalkMoves, OldPages
<1>6. CASE t # u
  BY <1>2, <1>3, <1>6, WalkAside
<1>7. QED
  BY <1>5, <1>6

LEMMA TabWalks ==
    ASSUME IInv, NEW u \in Tabs, Open(u) \/ GoNext(u) \/ GoPrev(u), NEW t \in Tabs
    PROVE  WalkMoves(t)
<1>1. tab \in [Tabs -> Tab]
  BY DEF IInv, TypeOK
<1>2. CASE t # u
  BY <1>1, <1>2, WalkAside DEF Open, GoNext, GoPrev
<1>3. CASE t = u /\ Open(u)
  <2> DEFINE cache == [c \in Cursors |->
                        IF tab[t].cache[c].state = "failed" THEN NoPage ELSE tab[t].cache[c]]
  <2>1. tab'[t].stack = <<None>> /\ tab'[t].cache = cache
    BY <1>1, <1>3 DEF Open, Tab
  <2>2. QED
    BY <2>1 DEF WalkMoves, OldPages, NoPage
<1>4. CASE t = u /\ (GoNext(u) \/ GoPrev(u))
  <2>1. tab'[t].cache = tab[t].cache
    BY <1>1, <1>4 DEF GoNext, GoPrev, Tab
  <2>2. QED
    BY <1>4, <2>1 DEF WalkMoves, OldPages
<1>5. QED
  BY <1>2, <1>3, <1>4

LEMMA EveryWalk ==
    ASSUME IInv, [Next]_vars, NEW t \in Tabs
    PROVE  WalkMoves(t)
<1>1. tab \in [Tabs -> Tab]
  BY DEF IInv, TypeOK
<1>2. CASE tab' = tab
  BY <1>2, WalkAside
<1>3. ASSUME NEW n \in Rows, LeaveList(n) PROVE WalkMoves(t)
  <2>1. tab'[t] = [tab[t] EXCEPT !.steady = @ \ {n}]
    BY <1>3 DEF LeaveList
  <2>2. QED
    BY <1>1, <2>1, WalkAside DEF Tab
<1>4. ASSUME NEW r \in Requests, NEW u \in Tabs, Refetch(r, u) PROVE WalkMoves(t)
  BY <1>1, <1>4, WalkAside DEF Refetch, Tab
<1>5. ASSUME NEW r \in Requests, Refuse(r), req[r].pc # "idle" PROVE WalkMoves(t)
  <2>1. CASE req[r].tab # None
    BY <1>5, <2>1, RequestTyped, WalkUnanswered DEF Refuse
  <2>2. CASE req[r].tab = None
    BY <1>2, <1>5, <2>2 DEF Refuse
  <2>3. QED
    BY <2>1, <2>2
<1>6. ASSUME NEW r \in Requests, Throw(r) PROVE WalkMoves(t)
  <2>1. req[r].pc # "idle"
    BY <1>6 DEF Throw, IInv, JobInv, CallInv
  <2>2. QED
    BY <1>5, <1>6, <2>1 DEF Throw
<1>7. ASSUME NEW r \in Requests, Incr(r) PROVE WalkMoves(t)
  BY <1>2, <1>5, <1>7 DEF Incr
<1>8. QED
  BY <1>2, <1>3, <1>4, <1>6, <1>7, TabWalks, WalkFetched
     DEF Next, Step, CreateRow, JoinList, FetchBegin, KeyBegin, Expire, KeyGet, KeyRun,
         KeySet, WindowEnds, KeyEnds, vars

\* The stack grows by a cursor below its top.
LEMMA NextDescends ==
    ASSUME IInv, WalkInv, NEW t \in Tabs, GoNext(t)
    PROVE  Descends(tab'[t].stack)
<1> DEFINE stack == tab[t].stack
           page == Current(t)
           L == Len(stack)
<1>1. page.items # {} /\ page.next # None
  BY DEF GoNext, HasButtons
<1>2. /\ tab[t] \in Tab /\ TabInv(t) /\ Cursor(t) \in Cursors /\ page \in Page
      /\ L \in Nat \ {0} /\ Descends(stack)
  BY CursorTyped DEF IInv, WalkInv
<1>3. /\ PageInv(t, Cursor(t)) /\ page = tab[t].cache[Cursor(t)] /\ Below(page)
      /\ StackInv(t)
  BY <1>2 DEF TabInv, Current, WalkInv
<1>4. stack \in Seq(Cursors) /\ page.next \in Rows /\ page.items \subseteq Rows
  BY <1>1, <1>2 DEF Tab, Page, Cursors
<1>5. tab'[t].stack = Append(stack, page.next)
  BY <1>2 DEF GoNext, IInv, TypeOK, Tab
<1>6. MaxRows \in Nat /\ \A n \in Rows : n \in Nat /\ n <= MaxRows
  BY BoundsAssumption DEF Rows
<1>7. L > 1 => /\ stack[L] \in Rows /\ page.next < stack[L]
  <2>1. SUFFICES ASSUME L > 1 PROVE stack[L] \in Rows /\ page.next < stack[L]
    OBVIOUS
  <2>2. L \in 2..L
    BY <1>2, <2>1
  <2>3. stack[L] \in Rows /\ Cursor(t) = stack[L] /\ Cursor(t) # None
    BY <1>3, <2>2, NoneIsNone DEF StackInv, Cursor
  <2>4. PICK i \in page.items : page.next < i
    BY <1>1, <1>3 DEF Below
  <2>5. i <= stack[L]
    BY <1>3, <2>3 DEF PageInv
  <2>6. i \in Nat /\ page.next \in Nat /\ stack[L] \in Nat
    BY <1>4, <1>6, <2>3
  <2>7. QED
    BY <2>3, <2>4, <2>5, <2>6
<1> HIDE DEF page
<1>8. /\ Len(tab'[t].stack) = L + 1
      /\ \A i \in 1..L : tab'[t].stack[i] = stack[i]
      /\ tab'[t].stack[L + 1] = page.next
  BY <1>4, <1>5, AppendProperties DEF Cursors
<1>9. \A i \in 2..L : stack[i] \in Nat
  BY <1>3, <1>6 DEF StackInv
<1>10. \A i \in 2..L : page.next < stack[i]
  <2>1. SUFFICES ASSUME NEW i \in 2..L PROVE page.next < stack[i]
    OBVIOUS
  <2>2. L > 1 /\ L \in 2..L /\ L \in Nat /\ i \in Nat /\ (i = L \/ i < L)
    BY <1>2
  <2>3. i < L => stack[L] < stack[i]
    BY <1>2, <2>2 DEF Descends
  <2>4. page.next \in Nat /\ stack[i] \in Nat /\ stack[L] \in Nat
    BY <1>4, <1>6, <1>9, <2>2
  <2>5. QED
    BY <1>7, <2>2, <2>3, <2>4
<1>11. page.next + (L + 1) <= MaxRows + 2
  <2>1. page.next \in Nat /\ page.next <= MaxRows
    BY <1>4, <1>6
  <2>2. CASE L = 1
    BY <1>6, <2>1, <2>2
  <2>3. CASE L # 1
    <3>1. L > 1 /\ L \in 2..L /\ L \in Nat
      BY <1>2, <2>3, NotFirst
    <3>2. stack[L] + L <= MaxRows + 2 /\ stack[L] \in Nat
      BY <1>2, <1>9, <3>1 DEF Descends
    <3>3. page.next < stack[L]
      BY <1>7, <3>1
    <3>4. QED
      BY <1>6, <2>1, <3>1, <3>2, <3>3
  <2>4. QED
    BY <2>2, <2>3
<1> HIDE DEF stack, L
<1>12. ASSUME NEW i \in 2..(L + 1), NEW j \in 2..(L + 1), i < j
       PROVE  tab'[t].stack[j] < tab'[t].stack[i]
  <2>1. i \in 2..L /\ i \in 1..L
    BY <1>2, <1>12
  <2>2. CASE j = L + 1
    BY <1>8, <1>10, <2>1, <2>2
  <2>3. CASE j # L + 1
    <3>1. j \in 2..L /\ j \in 1..L
      BY <1>2, <2>3
    <3>2. QED
      BY <1>2, <1>8, <1>12, <2>1, <3>1 DEF Descends, L
  <2>4. QED
    BY <2>2, <2>3
<1>13. ASSUME NEW i \in 2..(L + 1)
       PROVE  tab'[t].stack[i] + i <= MaxRows + 2
  <2>1. CASE i = L + 1
    BY <1>8, <1>11, <2>1
  <2>2. CASE i # L + 1
    <3>1. i \in 2..L /\ i \in 1..L
      BY <1>2, <2>2
    <3>2. QED
      BY <1>2, <1>8, <3>1 DEF Descends, L
  <2>3. QED
    BY <2>1, <2>2
<1>14. QED
  BY <1>8, <1>12, <1>13 DEF Descends

LEMMA PrevDescends ==
    ASSUME IInv, WalkInv, NEW t \in Tabs, GoPrev(t)
    PROVE  Descends(tab'[t].stack)
<1> DEFINE stack == tab[t].stack
           L == Len(stack)
           shorter == SubSeq(stack, 1, L - 1)
<1>1. /\ tab[t] \in Tab /\ L \in Nat \ {0} /\ stack \in Seq(Cursors) /\ L > 1
      /\ Descends(stack) /\ tab'[t].stack = shorter
  BY CursorTyped DEF GoPrev, IInv, TypeOK, Tab, WalkInv
<1>2. Len(shorter) = L - 1 /\ \A i \in 1..L - 1 : shorter[i] = stack[i]
  <2>1. \A i \in 1..L - 1 : stack[i] \in Cursors
    BY <1>1
  <2>2. 1 \in Int /\ L - 1 \in Int /\ 1 <= L - 1
    BY <1>1
  <2>3. Len(shorter) = L - 1 - 1 + 1
        /\ \A i \in 1..L - 1 - 1 + 1 : shorter[i] = stack[1 + i - 1]
    BY <2>1, <2>2, SubSeqProperties
  <2>4. QED
    BY <1>1, <2>3
<1> HIDE DEF shorter
<1>3. \A i \in 2..L - 1 : i \in 2..L /\ i \in 1..L - 1
  BY <1>1
<1>4. QED
  BY <1>1, <1>2, <1>3 DEF Descends

LEMMA WalkStep == IInv /\ WalkInv /\ [Next]_vars => WalkInv'
<1> SUFFICES ASSUME IInv, WalkInv, [Next]_vars, NEW t \in Tabs
             PROVE  /\ Descends(tab'[t].stack)
                    /\ \A c \in Cursors : Below(tab'[t].cache[c])
  BY DEF WalkInv, Descends, Below
<1>1. WalkMoves(t)
  BY EveryWalk
<1>2. \A c \in Cursors : Below(tab'[t].cache[c])
  BY <1>1, PageIsBelow DEF WalkMoves, OldPages, WalkInv, Below
<1>3. Descends(tab'[t].stack)
  <2>1. CASE tab'[t].stack = tab[t].stack
    BY <2>1 DEF WalkInv
  <2>2. CASE tab'[t].stack = <<None>>
    BY <2>2 DEF Descends
  <2>3. QED
    BY <1>1, <2>1, <2>2, NextDescends, PrevDescends DEF WalkMoves
<1>4. QED
  BY <1>2, <1>3

\* useCursorPagination and createCursorPagination: a reader who presses Next
\* comes to a page further down, however the list changes meanwhile, and the
\* stack of cursors never outgrows the list.
THEOREM WalksGoDown == Spec => []WalkGoesDown
<1>1. IInv /\ WalkInv => WalkGoesDown
  <2> SUFFICES ASSUME IInv, WalkInv, NEW t \in Tabs
               PROVE  Len(tab[t].stack) <= MaxRows + 1 /\ Descends(tab[t].stack)
    BY DEF WalkGoesDown, Descends
  <2> DEFINE L == Len(tab[t].stack)
  <2>1. Descends(tab[t].stack) /\ StackInv(t) /\ L \in Nat \ {0} /\ MaxRows \in Nat
    BY CursorTyped, BoundsAssumption DEF IInv, TabInv, WalkInv
  <2>2. CASE L = 1
    BY <2>1, <2>2
  <2>3. CASE L # 1
    <3>1. L \in 2..L
      BY <2>1, <2>3, NotFirst
    <3>2. tab[t].stack[L] + L <= MaxRows + 2 /\ tab[t].stack[L] \in 1..MaxRows
      BY <2>1, <3>1 DEF Descends, StackInv, Rows
    <3>3. QED
      BY <2>1, <3>2
  <2>4. QED
    BY <2>1, <2>2, <2>3
<1>2. QED
  BY <1>1, WalkStarts, WalkStep, InitInv, Inductive, PTL DEF Spec
=============================================================================
