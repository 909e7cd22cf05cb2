---------------------------- MODULE RefundsProofs ----------------------------
(***************************************************************************)
(* Refunds for any number of payments, refund rows and calls.              *)
(***************************************************************************)
EXTENDS Refunds, OrderCheckoutLeaseProofs, FiniteSetTheorems, WellFoundedInduction

-----------------------------------------------------------------------------
(* The sum of the amounts of some rows is the number of the hundredths in   *)
(* them: what holds of a sum follows from what holds of cardinalities.      *)
Sum(rows, S) == MapThenSumSet(LAMBDA f : rows[f].amount, S)

Cents(rows, f) == {f} \X (1..rows[f].amount)

AllCents(rows, S) == UNION {Cents(rows, f) : f \in S}

\* A set of rows that are wrong is empty if it has no least one.
LEMMA NoLeast ==
    ASSUME NEW S, IsFiniteSet(S), NEW Wrong \in SUBSET SUBSET S,
           \A T \in Wrong : T # {} /\ \E x \in T : T \ {x} \in Wrong
    PROVE  Wrong = {}
<1>1. IsWellFoundedOn(StrictSubsetOrdering(S), SUBSET S)
  BY FS_StrictSubsetOrderingWellFounded, FS_FiniteSubsetsOfFinite
<1>2. SUFFICES ASSUME Wrong # {} PROVE FALSE
  OBVIOUS
<1>3. PICK T \in Wrong : \A U \in Wrong : <<U, T>> \notin StrictSubsetOrdering(S)
  BY <1>1, <1>2, WFMin
<1>4. PICK x \in T : T \ {x} \in Wrong
  OBVIOUS
<1>5. <<T \ {x}, T>> \in StrictSubsetOrdering(S)
  <2>1. <<T \ {x}, T>> \in (SUBSET S) \X (SUBSET S)
    OBVIOUS
  <2>2. <<T \ {x}, T>>[1] = T \ {x} /\ <<T \ {x}, T>>[2] = T
    OBVIOUS
  <2>3. T \ {x} \subseteq T /\ T \ {x} # T
    OBVIOUS
  <2>4. QED
    BY <2>1, <2>2, <2>3 DEF StrictSubsetOrdering
<1>6. QED
  BY <1>3, <1>4, <1>5

LEMMA CentsOfRow ==
    ASSUME NEW rows, NEW f, rows[f].amount \in Nat
    PROVE  IsFiniteSet(Cents(rows, f)) /\ Cardinality(Cents(rows, f)) = rows[f].amount
<1> DEFINE n == rows[f].amount
           b == [i \in 1..n |-> <<f, i>>]
<1>1. b \in [1..n -> Cents(rows, f)]
  BY DEF Cents
<1>2. \A i, j \in 1..n : b[i] = b[j] => i = j
  OBVIOUS
<1>3. \A t \in Cents(rows, f) : \E i \in 1..n : b[i] = t
  BY DEF Cents
<1>4. b \in Bijection(1..n, Cents(rows, f))
  <2> HIDE DEF b
  <2>1. QED
    BY <1>1, <1>2, <1>3 DEF Bijection, Injection, Surjection, IsInjective
<1>5. IsFiniteSet(1..n) /\ Cardinality(1..n) = n
  <2>1. n \in Nat
    OBVIOUS
  <2> HIDE DEF n
  <2>2. QED
    BY <2>1, FS_Interval
<1>6. ExistsBijection(1..n, Cents(rows, f))
  BY <1>4 DEF ExistsBijection
<1>7. QED
  BY <1>5, <1>6, FS_Bijection

LEMMA CentsOfMore ==
    ASSUME NEW rows, NEW S, NEW x \in S, rows[x].amount \in Nat,
           NEW T, T = S \ {x}, IsFiniteSet(AllCents(rows, T))
    PROVE  /\ IsFiniteSet(AllCents(rows, S))
           /\ Cardinality(AllCents(rows, S))
                 = rows[x].amount + Cardinality(AllCents(rows, T))
<1>1. AllCents(rows, S) = AllCents(rows, T) \cup Cents(rows, x)
  BY DEF AllCents
<1>2. AllCents(rows, T) \cap Cents(rows, x) = {}
  BY DEF AllCents, Cents
<1>3. IsFiniteSet(Cents(rows, x)) /\ Cardinality(Cents(rows, x)) = rows[x].amount
  BY CentsOfRow
<1>4. Cardinality({}) = 0
  BY FS_EmptySet
<1>5. Cardinality(AllCents(rows, T)) \in Nat
  BY FS_CardinalityType
<1>6. /\ IsFiniteSet(AllCents(rows, T) \cup Cents(rows, x))
      /\ Cardinality(AllCents(rows, T) \cup Cents(rows, x))
            = Cardinality(AllCents(rows, T)) + Cardinality(Cents(rows, x))
              - Cardinality(AllCents(rows, T) \cap Cents(rows, x))
  BY <1>3, FS_Union
<1>7. Cardinality(AllCents(rows, T) \cap Cents(rows, x)) = 0
  BY <1>2, <1>4
<1>8. IsFiniteSet(AllCents(rows, S))
  BY <1>1, <1>6
<1>9. Cardinality(AllCents(rows, S))
         = Cardinality(AllCents(rows, T)) + rows[x].amount - 0
  BY <1>1, <1>3, <1>6, <1>7
<1>10. QED
  BY <1>5, <1>8, <1>9

LEMMA CentsFinite ==
    ASSUME NEW rows, NEW S, IsFiniteSet(S), \A f \in S : rows[f].amount \in Nat
    PROVE  \A T \in SUBSET S : IsFiniteSet(AllCents(rows, T))
<1> DEFINE Wrong == {T \in SUBSET S : ~IsFiniteSet(AllCents(rows, T))}
<1>1. ASSUME NEW T \in Wrong PROVE T # {} /\ \E x \in T : T \ {x} \in Wrong
  <2>1. T # {}
    <3>1. AllCents(rows, {}) = {}
      BY DEF AllCents
    <3>2. QED
      BY <3>1, FS_EmptySet
  <2>2. PICK x \in T : TRUE
    BY <2>1
  <2>3. rows[x].amount \in Nat
    OBVIOUS
  <2>4. ~IsFiniteSet(AllCents(rows, T \ {x}))
    BY <2>3, CentsOfMore
  <2>5. QED
    BY <2>1, <2>4
<1> HIDE DEF Wrong
<1>2. Wrong \in SUBSET SUBSET S
  BY DEF Wrong
<1>3. Wrong = {}
  BY <1>1, <1>2, NoLeast
<1>4. QED
  BY <1>3 DEF Wrong

Folds(g, rows, S) ==
    g = [T \in SUBSET S |->
            IF T = {} THEN 0
            ELSE LET x == CHOOSE x \in T : TRUE IN rows[x].amount + g[T \ {x}]]

LEMMA FoldIsCents ==
    ASSUME NEW rows, NEW S, IsFiniteSet(S), \A f \in S : rows[f].amount \in Nat,
           NEW g, Folds(g, rows, S)
    PROVE  g[S] = Cardinality(AllCents(rows, S))
<1>1. ASSUME NEW T \in SUBSET S, g[T] # Cardinality(AllCents(rows, T))
      PROVE  \E x \in T : g[T \ {x}] # Cardinality(AllCents(rows, T \ {x}))
  <2>1. T # {}
    <3>1. AllCents(rows, {}) = {}
      BY DEF AllCents
    <3>2. g[{}] = 0
      BY DEF Folds
    <3>3. QED
      BY <1>1, <3>1, <3>2, FS_EmptySet
  <2>2. PICK x \in T : g[T] = rows[x].amount + g[T \ {x}]
    BY <2>1 DEF Folds
  <2>4. IsFiniteSet(AllCents(rows, T \ {x}))
    BY CentsFinite
  <2>5. rows[x].amount \in Nat
    OBVIOUS
  <2>6. Cardinality(AllCents(rows, T))
           = rows[x].amount + Cardinality(AllCents(rows, T \ {x}))
    BY <2>2, <2>4, <2>5, CentsOfMore
  <2>7. QED
    BY <1>1, <2>2, <2>6
<1> DEFINE Wrong == {T \in SUBSET S : g[T] # Cardinality(AllCents(rows, T))}
<1>2. ASSUME NEW T \in Wrong PROVE T # {} /\ \E x \in T : T \ {x} \in Wrong
  <2>1. PICK x \in T : g[T \ {x}] # Cardinality(AllCents(rows, T \ {x}))
    BY <1>1
  <2>2. T \ {x} \in SUBSET S
    OBVIOUS
  <2>3. T \ {x} \in Wrong
    BY <2>1, <2>2
  <2>4. QED
    BY <2>3
<1> HIDE DEF Wrong
<1>3. Wrong \in SUBSET SUBSET S
  BY DEF Wrong
<1>4. Wrong = {}
  BY <1>2, <1>3, NoLeast
<1>5. S \in SUBSET S
  OBVIOUS
<1>6. QED
  BY <1>4, <1>5 DEF Wrong

LEMMA SumIsCents ==
    ASSUME NEW rows, NEW S, IsFiniteSet(S), \A f \in S : rows[f].amount \in Nat
    PROVE  /\ Sum(rows, S) = Cardinality(AllCents(rows, S))
           /\ IsFiniteSet(AllCents(rows, S))
           /\ Sum(rows, S) \in Nat
<1> DEFINE c == [T \in SUBSET S |-> Cardinality(AllCents(rows, T))]
<1>1. Folds(c, rows, S)
  <2>1. ASSUME NEW T \in SUBSET S, T # {}
        PROVE  c[T] = LET x == CHOOSE x \in T : TRUE IN rows[x].amount + c[T \ {x}]
    <3> DEFINE x == CHOOSE x \in T : TRUE
    <3>1. x \in T
      BY <2>1
    <3>2. T \ {x} \in SUBSET S
      OBVIOUS
    <3> HIDE DEF x
    <3>3. IsFiniteSet(AllCents(rows, T \ {x}))
      BY <3>2, CentsFinite
    <3>4. c[T] = rows[x].amount + c[T \ {x}]
      BY <3>1, <3>2, <3>3, CentsOfMore
    <3>5. QED
      BY <3>4 DEF x
  <2>2. c[{}] = 0
    <3>1. AllCents(rows, {}) = {}
      BY DEF AllCents
    <3>2. QED
      BY <3>1, FS_EmptySet
  <2>3. \A T \in SUBSET S :
           c[T] = IF T = {} THEN 0
                  ELSE LET x == CHOOSE x \in T : TRUE IN rows[x].amount + c[T \ {x}]
    BY <2>1, <2>2, Zenon
  <2>4. c = [T \in SUBSET S |-> c[T]]
    OBVIOUS
  <2> HIDE DEF c
  <2>5. QED
    BY <2>3, <2>4 DEF Folds
<1> HIDE DEF c
<1>2. Folds(CHOOSE g : Folds(g, rows, S), rows, S)
  BY <1>1, Zenon
<1>3. Sum(rows, S) = (CHOOSE g : Folds(g, rows, S))[S]
  BY DEF Sum, MapThenSumSet, MapThenFoldSet, Folds
<1>4. IsFiniteSet(AllCents(rows, S))
  BY CentsFinite
<1>5. Sum(rows, S) = Cardinality(AllCents(rows, S))
  BY <1>2, <1>3, FoldIsCents
<1>6. QED
  BY <1>4, <1>5, FS_CardinalityType

LEMMA SumNone == ASSUME NEW rows PROVE Sum(rows, {}) = 0
<1>1. AllCents(rows, {}) = {}
  BY DEF AllCents
<1>2. IsFiniteSet({}) /\ Cardinality({}) = 0
  BY FS_EmptySet
<1>3. Sum(rows, {}) = Cardinality(AllCents(rows, {}))
  BY <1>2, SumIsCents
<1>4. QED
  BY <1>1, <1>2, <1>3

LEMMA SumMore ==
    ASSUME NEW rows, NEW S, IsFiniteSet(S), \A f \in S : rows[f].amount \in Nat,
           NEW x, x \notin S, rows[x].amount \in Nat
    PROVE  Sum(rows, S \cup {x}) = Sum(rows, S) + rows[x].amount
<1> DEFINE U == S \cup {x}
<1>1. x \in U /\ U \ {x} = S /\ \A f \in U : rows[f].amount \in Nat
  OBVIOUS
<1>2. IsFiniteSet(U)
  BY FS_AddElement
<1> HIDE DEF U
<1>3. Sum(rows, U) = Cardinality(AllCents(rows, U))
  BY <1>1, <1>2, SumIsCents
<1>4. /\ Sum(rows, S) = Cardinality(AllCents(rows, S))
      /\ IsFiniteSet(AllCents(rows, S))
      /\ Sum(rows, S) \in Nat
  BY SumIsCents
<1>5. Cardinality(AllCents(rows, U))
         = rows[x].amount + Cardinality(AllCents(rows, S))
  BY <1>1, <1>4, CentsOfMore
<1>6. Sum(rows, U) = Sum(rows, S) + rows[x].amount
  BY <1>3, <1>4, <1>5
<1>7. QED
  BY <1>6 DEF U

LEMMA SumLess ==
    ASSUME NEW rows, NEW S, IsFiniteSet(S), \A f \in S : rows[f].amount \in Nat,
           NEW T \in SUBSET S
    PROVE  Sum(rows, T) <= Sum(rows, S)
<1>1. AllCents(rows, T) \subseteq AllCents(rows, S)
  BY DEF AllCents
<1>2. IsFiniteSet(T)
  BY FS_Subset
<1>3. /\ Sum(rows, S) = Cardinality(AllCents(rows, S))
      /\ IsFiniteSet(AllCents(rows, S))
      /\ Sum(rows, T) = Cardinality(AllCents(rows, T))
  BY <1>2, SumIsCents
<1>4. Cardinality(AllCents(rows, T)) <= Cardinality(AllCents(rows, S))
  BY <1>1, <1>3, FS_Subset
<1>5. QED
  BY <1>3, <1>4

LEMMA SumSame ==
    ASSUME NEW rows, NEW S, IsFiniteSet(S), \A f \in S : rows[f].amount \in Nat,
           NEW others, \A f \in S : others[f].amount = rows[f].amount
    PROVE  Sum(others, S) = Sum(rows, S)
<1>1. AllCents(others, S) = AllCents(rows, S)
  BY DEF AllCents, Cents
<1>2. \A f \in S : others[f].amount \in Nat
  OBVIOUS
<1>3. /\ Sum(rows, S) = Cardinality(AllCents(rows, S))
      /\ Sum(others, S) = Cardinality(AllCents(others, S))
  BY <1>2, SumIsCents
<1>4. QED
  BY <1>1, <1>3

-----------------------------------------------------------------------------
(* The refunds that the gateway has paid: those recorded, and those whose   *)
(* call is about to record them.                                            *)
Paid(p) ==
    Processed(p)
    \cup {call[c].refund : c \in {d \in Calls : /\ call[d].pc = "approve_record"
                                                /\ call[d].payment = p}}

\* A payment that was SUCCESS once: its order has an invoice for ever.
Confirmed(p) == payment[p].status # "ABSENT" /\ payment[p].order \in invoiced

ByHand(p) == "by_hand" \in mishaps[p]

SuccessInv ==
    \A p \in Payments :
        payment[p].status = "SUCCESS" => payment[p].order \in invoiced

RefundInv(f) ==
    IF refund[f].status = "ABSENT"
    THEN refund[f] = NoRefund
    ELSE refund[f].payment \in Payments /\ Confirmed(refund[f].payment)

(* What the local variables of a call hold at each await.                   *)
CallInv(c) ==
    LET p == call[c].payment
        f == call[c].refund
    IN  /\ call[c].pc # "idle" => p \in Payments /\ Confirmed(p)
        /\ call[c].pc \in ApprovingPCs \cup {"approve_lock"}
           => /\ f \in RefundIds
              /\ refund[f].status # "ABSENT"
              /\ refund[f].payment = p
              /\ refund[f].amount = call[c].amount
        /\ ~ByHand(p)
           => /\ call[c].pc = "approve_gateway" => call[c].already <= returned[p]
              /\ call[c].pc = "approve_record"
                 => call[c].already + call[c].amount <= returned[p]
              /\ call[c].pc = "approve_close" => Price - Epsilon <= returned[p]

LockInv == \A p \in Payments : \A c, d \in refundLock[p] : c = d

(* What holds of a payment whatever went wrong, but for hands.              *)
MoneyInv(p) ==
    /\ returned[p] > 0 => Confirmed(p)
    /\ ~ByHand(p)
       => /\ Sum(refund, Paid(p)) <= returned[p]
          /\ payment[p].status = "REFUNDED" => Price - Epsilon <= returned[p]

(* What holds of a payment while nothing went wrong.                        *)
CleanInv(p) ==
    mishaps[p] = {}
    => /\ Approving[p] \subseteq refundLock[p]
       /\ returned[p] = Sum(refund, Paid(p))
       /\ returned[p] <= Price + Epsilon
       /\ \A c \in Approving[p] :
             /\ call[c].pc = "approve_gateway"
                => /\ call[c].already = Sum(refund, Processed(p) \ {call[c].refund})
                   /\ call[c].amount <= Price - call[c].already + Epsilon
             /\ call[c].pc = "approve_record"
                => /\ call[c].refund \notin Processed(p)
                   /\ call[c].already = Sum(refund, Processed(p))
       /\ /\ \A c \in Approving[p] : call[c].pc \notin PaidPCs
          /\ returned[p] >= Price - Epsilon
          => payment[p].status # "SUCCESS"

RInv ==
    /\ IInv
    /\ RefundTypeOK
    /\ SuccessInv
    /\ LockInv
    /\ \A f \in RefundIds : RefundInv(f)
    /\ \A c \in Calls : CallInv(c)
    /\ \A p \in Payments : MoneyInv(p) /\ CleanInv(p)

-----------------------------------------------------------------------------
(* What every step leaves in place: rows keep what they are of, money that  *)
(* was given back is gone, and a mishap is not forgotten.                   *)
Grows ==
    /\ \A p \in Payments :
          /\ payment[p].status # "ABSENT"
             => /\ payment'[p].status # "ABSENT"
                /\ payment'[p].order = payment[p].order
          /\ returned[p] <= returned'[p]
          /\ mishaps[p] \subseteq mishaps'[p]
    /\ invoiced \subseteq invoiced'
    /\ \A f \in RefundIds :
          refund[f].status # "ABSENT"
          => /\ refund'[f].status # "ABSENT"
             /\ refund'[f].payment = refund[f].payment
             /\ refund'[f].amount = refund[f].amount

LEMMA ConfirmedKept ==
    ASSUME Grows, NEW p \in Payments, Confirmed(p)
    PROVE  Confirmed(p)'
  BY DEF Grows, Confirmed

LEMMA RowKept ==
    ASSUME Grows, NEW f \in RefundIds, RefundInv(f), refund'[f].status # "ABSENT",
           refund[f].status # "ABSENT"
    PROVE  RefundInv(f)'
<1>1. refund[f].payment \in Payments /\ Confirmed(refund[f].payment)
  BY DEF RefundInv
<1>2. refund'[f].payment = refund[f].payment
  BY DEF Grows
<1>3. Confirmed(refund[f].payment)'
  <2> DEFINE p == refund[f].payment
  <2>1. payment[p].status # "ABSENT" /\ payment[p].order \in invoiced
    BY <1>1 DEF Confirmed
  <2>2. QED
    BY <1>1, <1>2, <2>1 DEF Grows, Confirmed
<1>4. QED
  BY <1>1, <1>2, <1>3 DEF RefundInv, Confirmed

LEMMA CallNumbers ==
    ASSUME RefundTypeOK, NEW d \in Calls
    PROVE  call[d].already \in Nat /\ call[d].amount \in Nat
<1>1. call \in [Calls -> [pc: CallPCs,
                         refund: RefundIds \cup {None},
                         payment: Payments \cup {None},
                         ref: Sessions \cup {None},
                         amount: Amounts \cup {0},
                         already: Nat]]
  BY DEF RefundTypeOK
<1>2. call[d].already \in Nat
  BY <1>1
<1>3. call[d].amount \in Amounts \cup {0}
  BY <1>1
<1>4. \A a \in Amounts \cup {0} : a \in Nat
  BY AmountsAssumption
<1>5. QED
  BY <1>2, <1>3, <1>4

\* A call that takes no part in a step may go on from where it stands.
LEMMA CallKept ==
    ASSUME RefundTypeOK, Grows, RefundTypeOK', NEW d \in Calls, CallInv(d),
           call'[d] = call[d]
    PROVE  CallInv(d)'
<1> DEFINE p == call[d].payment
           f == call[d].refund
<1>a. call[d].already \in Nat /\ call[d].amount \in Nat
  BY CallNumbers
<1>b. p \in Payments => returned[p] \in Nat /\ returned'[p] \in Nat
  BY DEF RefundTypeOK
<1>c. Price - Epsilon \in Int
  BY PriceAssumption DEF Epsilon
<1>1. call[d].pc # "idle" => p \in Payments /\ Confirmed(p) /\ Confirmed(p)'
  BY ConfirmedKept DEF CallInv
<1>2. call[d].pc \in ApprovingPCs \cup {"approve_lock"}
      => /\ f \in RefundIds
         /\ refund'[f].status # "ABSENT"
         /\ refund'[f].payment = p
         /\ refund'[f].amount = call[d].amount
  BY DEF CallInv, Grows
<1>3. p \in Payments /\ ~ByHand(p)' => ~ByHand(p) /\ returned[p] <= returned'[p]
  BY DEF ByHand, Grows
<1>4. p \in Payments /\ ~ByHand(p)'
      => /\ call[d].pc = "approve_gateway" => call[d].already <= returned'[p]
         /\ call[d].pc = "approve_record"
            => call[d].already + call[d].amount <= returned'[p]
         /\ call[d].pc = "approve_close" => Price - Epsilon <= returned'[p]
  BY <1>a, <1>b, <1>c, <1>3 DEF CallInv
<1>5. call[d].pc = "idle" \/ p \in Payments
  BY <1>1
<1> HIDE DEF p, f
<1>6. QED
  BY <1>1, <1>2, <1>4, <1>5 DEF CallInv, p, f, ByHand, Confirmed

-----------------------------------------------------------------------------
(* Sums over the rows that were paid.                                       *)

LEMMA AmountsAreNat ==
    ASSUME RefundTypeOK
    PROVE  \A f \in RefundIds : refund[f].amount \in Nat
<1>1. \A a \in Amounts \cup {0} : a \in Nat
  BY AmountsAssumption
<1>2. \A f \in RefundIds : refund[f].amount \in Amounts \cup {0}
  BY DEF RefundTypeOK
<1>3. QED
  BY <1>1, <1>2

LEMMA SomeRows ==
    ASSUME RefundTypeOK, NEW S \in SUBSET RefundIds
    PROVE  /\ IsFiniteSet(S)
           /\ \A f \in S : refund[f].amount \in Nat
           /\ Sum(refund, S) \in Nat
<1>1. IsFiniteSet(S)
  BY RefundIdsAssumption, FS_Subset
<1>2. \A f \in S : refund[f].amount \in Nat
  BY AmountsAreNat
<1>3. QED
  BY <1>1, <1>2, SumIsCents

\* Rows that exist keep their amount, so that their sum stays.
LEMMA SumKept ==
    ASSUME RefundTypeOK, Grows, NEW S \in SUBSET RefundIds,
           \A f \in S : refund[f].status # "ABSENT"
    PROVE  Sum(refund', S) = Sum(refund, S)
<1>1. IsFiniteSet(S) /\ \A f \in S : refund[f].amount \in Nat
  BY SomeRows
<1>2. \A f \in S : refund'[f].amount = refund[f].amount
  BY DEF Grows
<1>3. QED
  BY <1>1, <1>2, SumSame

LEMMA PaidRows ==
    ASSUME \A c \in Calls : CallInv(c), NEW p
    PROVE  /\ Paid(p) \in SUBSET RefundIds
           /\ Processed(p) \subseteq Paid(p)
           /\ \A f \in Paid(p) : refund[f].status # "ABSENT"
<1>1. ASSUME NEW c \in Calls, call[c].pc = "approve_record"
      PROVE  call[c].refund \in RefundIds /\ refund[call[c].refund].status # "ABSENT"
  BY <1>1 DEF CallInv, ApprovingPCs, PaidPCs
<1>2. QED
  BY <1>1 DEF Paid, Processed

-----------------------------------------------------------------------------
(* What the steps of checkout do to a payment.                              *)
Moves ==
    /\ \A p \in Payments :
          /\ payment[p].status # "ABSENT"
             => /\ payment'[p].status # "ABSENT"
                /\ payment'[p].order = payment[p].order
          /\ payment'[p].status = "REFUNDED" => payment[p].status = "REFUNDED"
          /\ payment'[p].status = "SUCCESS"
             => /\ payment[p].status = "SUCCESS" \/ payment[p].order \notin invoiced
                /\ payment'[p].order \in invoiced'
    /\ invoiced \subseteq invoiced'

LEMMA CheckoutMoves ==
    ASSUME IInv, SuccessInv, [Next]_vars
    PROVE  Moves
<1> TypeOK
  BY DEF IInv
<1>1. CASE UNCHANGED <<payment, invoiced>>
  BY <1>1 DEF Moves, SuccessInv
<1>2. ASSUME NEW r \in Requests, InitiateWrite(r)
      PROVE  Moves
  <2>1. invoiced' = invoiced
    BY <1>2 DEF InitiateWrite
  <2>2. CASE payment' = payment
    BY <2>1, <2>2, <1>1
  <2>3. ASSUME NEW p \in Payments, NEW s,
               payment' = [payment EXCEPT ![p].ref = s]
        PROVE  Moves
    BY <2>1, <2>3 DEF Moves, SuccessInv, TypeOK, Row
  <2>4. ASSUME NEW p \in Payments, payment[p].status = "ABSENT", NEW o, NEW s,
               payment' = [payment EXCEPT ![p] =
                              [order |-> o, status |-> "PENDING", ref |-> s]]
        PROVE  Moves
    BY <2>1, <2>4 DEF Moves, SuccessInv, TypeOK, Row
  <2>5. req[r].payment \in Payments \cup {None}
    BY DEF TypeOK, Job
  <2>6. \/ payment' = payment
        \/ /\ req[r].payment # None
           /\ payment' = [payment EXCEPT ![req[r].payment].ref = req[r].session]
        \/ \E p \in Payments :
              /\ payment[p].status = "ABSENT"
              /\ payment' = [payment EXCEPT ![p] =
                    [order |-> req[r].order, status |-> "PENDING",
                     ref |-> req[r].session]]
    BY <1>2 DEF InitiateWrite
  <2>7. QED
    BY <2>2, <2>3, <2>4, <2>5, <2>6
<1>3. ASSUME NEW r \in Requests, VerifyFail(r) \/ VerifyFlag(r)
      PROVE  Moves
  <2>1. req[r].payment \in Payments
    BY <1>3 DEF IInv, JobInv, LockedPCs, ConfirmedPCs, VerifyFail, VerifyFlag
  <2>2. PICK status \in {"FAILED", "FLAGGED"} : SetPaymentStatus(r, status)
    BY <1>3 DEF VerifyFail, VerifyFlag
  <2>3. payment[req[r].payment].status # "ABSENT"
    BY <1>3 DEF IInv, JobInv, LockedPCs, ConfirmedPCs, VerifyFail, VerifyFlag
  <2>4. invoiced' = invoiced
    BY <1>3 DEF VerifyFail, VerifyFlag
  <2>5. /\ \A p \in Payments : p # req[r].payment => payment'[p] = payment[p]
        /\ payment'[req[r].payment].status = status
        /\ payment'[req[r].payment].order = payment[req[r].payment].order
    BY <2>1, <2>2, StatusSet DEF PaymentStatuses
  <2>6. QED
    BY <2>1, <2>3, <2>4, <2>5 DEF Moves, SuccessInv
<1>4. ASSUME NEW r \in Requests, VerifyCommit(r)
      PROVE  Moves
  <2>1. req[r].payment \in Payments /\ payment[req[r].payment].status # "ABSENT"
    BY <1>4 DEF IInv, JobInv, LockedPCs, ConfirmedPCs, VerifyCommit
  <2>2. /\ invoiced' = invoiced \cup {payment[req[r].payment].order}
        /\ payment[req[r].payment].order \notin invoiced
        /\ SetPaymentStatus(r, "SUCCESS")
    BY <1>4 DEF VerifyCommit, ConstraintsAllow
  <2>3. /\ \A p \in Payments : p # req[r].payment => payment'[p] = payment[p]
        /\ payment'[req[r].payment].status = "SUCCESS"
        /\ payment'[req[r].payment].order = payment[req[r].payment].order
    BY <2>1, <2>2, StatusSet DEF PaymentStatuses
  <2>4. QED
    BY <2>1, <2>2, <2>3 DEF Moves, SuccessInv
<1>5. ASSUME NEW r \in Requests, Call(r) \/ Throw(r) \/ Die(r)
      PROVE  UNCHANGED <<payment, invoiced>>
  BY <1>5 DEF Call, Throw, Die, InitiateRead, CancelRead, StatusRead, AssignRead,
              ReportRead, VerifyFind
<1>6. ASSUME NEW r \in Requests,
             \/ InitiateList(r) \/ InitiateOpen(r)
             \/ VerifyLock(r) \/ VerifyConflict(r) \/ VerifyReread(r) \/ VerifyAsk(r)
             \/ VerifyOrder(r) \/ VerifyRollback(r) \/ VerifyRelease(r)
             \/ CancelWrite(r) \/ StatusWrite(r) \/ AssignCreate(r)
      PROVE  UNCHANGED <<payment, invoiced>>
  BY <1>6 DEF InitiateList, InitiateOpen, VerifyLock, VerifyConflict, VerifyReread,
              VerifyAsk, VerifyOrder, VerifyRollback, VerifyRelease, CancelWrite,
              StatusWrite, AssignCreate
<1>7. ASSUME NEW r \in Requests, Step(r)
      PROVE  Moves
  BY <1>1, <1>2, <1>3, <1>4, <1>6, <1>7 DEF Step
<1>8. ASSUME NEW s \in Sessions, NEW state \in SessionStates, Capture(s, state)
      PROVE  Moves
  BY <1>1, <1>8 DEF Capture
<1>9. ASSUME NEW p \in Payments, LockExpires(p)
      PROVE  Moves
  BY <1>1, <1>9 DEF LockExpires
<1>10. CASE UNCHANGED vars
  BY <1>1, <1>10 DEF vars
<1>11. QED
  BY <1>1, <1>5, <1>7, <1>8, <1>9, <1>10 DEF Next

-----------------------------------------------------------------------------
(* Steps that leave the money of a payment alone.                           *)

\* The awaits whose local variables nothing is promised of.
PlainPCs == CallPCs \ {"approve_gateway", "approve_record", "approve_close"}

LEMMA InApproving ==
    ASSUME NEW p \in Payments, NEW c \in Calls
    PROVE  /\ c \in Approving[p] <=> call[c].pc \in ApprovingPCs /\ call[c].payment = p
           /\ c \in Approving'[p] <=> call'[c].pc \in ApprovingPCs /\ call'[c].payment = p
  BY DEF Approving

LEMMA NumbersOf ==
    ASSUME RefundTypeOK, NEW p \in Payments
    PROVE  returned[p] \in Nat /\ Price - Epsilon \in Nat \ {0} /\ Price + Epsilon \in Nat
<1>1. returned[p] \in Nat
  BY DEF RefundTypeOK
<1>2. QED
  BY <1>1, PriceAssumption DEF Epsilon

\* A payment whose price was given back was confirmed.
LEMMA BackIsConfirmed ==
    ASSUME RefundTypeOK, NEW p \in Payments, MoneyInv(p), returned[p] >= Price - Epsilon
    PROVE  Confirmed(p)
  BY NumbersOf DEF MoneyInv

LEMMA PlainKeeps ==
    ASSUME RInv, RefundTypeOK', Grows, NEW p \in Payments,
           Processed(p)' = Processed(p), returned'[p] = returned[p],
           payment'[p].status = "REFUNDED" => payment[p].status = "REFUNDED",
           payment'[p].status = "SUCCESS"
           => payment[p].status = "SUCCESS" \/ ~Confirmed(p),
           \A d \in Calls : \/ call'[d] = call[d]
                            \/ call'[d].payment # p
                            \/ call'[d].pc \in PlainPCs,
           \A d \in Calls : call[d].pc \in PaidPCs /\ call[d].payment = p
                            => call'[d] = call[d],
           mishaps'[p] = {} => Approving'[p] \subseteq refundLock'[p]
    PROVE  MoneyInv(p)' /\ CleanInv(p)'
<1>0. /\ RefundTypeOK
      /\ \A c \in Calls : CallInv(c)
      /\ MoneyInv(p) /\ CleanInv(p)
  BY DEF RInv
<1>1. Paid(p)' = Paid(p)
  <2>1. \A d \in Calls : call'[d].pc = "approve_record" /\ call'[d].payment = p
                         <=> call[d].pc = "approve_record" /\ call[d].payment = p
    BY DEF PlainPCs, PaidPCs
  <2>2. \A d \in Calls : call[d].pc = "approve_record" /\ call[d].payment = p
                         => call'[d] = call[d]
    BY DEF PaidPCs
  <2>3. QED
    BY <2>1, <2>2 DEF Paid
<1>2. /\ Paid(p) \in SUBSET RefundIds
      /\ Processed(p) \in SUBSET Paid(p)
      /\ \A f \in Paid(p) : refund[f].status # "ABSENT"
  BY <1>0, PaidRows
<1>3. \A S \in SUBSET Paid(p) : Sum(refund', S) = Sum(refund, S)
  BY <1>0, <1>2, SumKept
<1>4. ~ByHand(p)' => ~ByHand(p)
  BY DEF Grows, ByHand
<1>5. MoneyInv(p)'
  <2>1. Confirmed(p) => Confirmed(p)'
    BY ConfirmedKept
  <2>2. Sum(refund', Paid(p)') = Sum(refund, Paid(p))
    BY <1>1, <1>3
  <2>3. QED
    BY <1>0, <1>4, <2>1, <2>2 DEF MoneyInv
<1>6. ASSUME mishaps'[p] = {}
      PROVE  CleanInv(p)'
  <2>1. mishaps[p] = {}
    BY <1>6 DEF Grows
  <2>2. Sum(refund', Paid(p)') = Sum(refund, Paid(p))
    BY <1>1, <1>3
  <2>3. ASSUME NEW c \in Approving'[p], call'[c].pc \in {"approve_gateway"} \cup PaidPCs
        PROVE  c \in Approving[p] /\ call'[c] = call[c]
    <3>1. c \in Calls /\ call'[c].payment = p
      BY DEF Approving
    <3>2. call'[c] = call[c]
      BY <2>3, <3>1 DEF PlainPCs, PaidPCs
    <3>3. QED
      BY <2>3, <3>1, <3>2, InApproving DEF ApprovingPCs
  <2>4. ASSUME NEW c \in Approving'[p], call'[c].pc = "approve_gateway"
        PROVE  /\ call'[c].already
                     = Sum(refund', Processed(p)' \ {call'[c].refund})
               /\ call'[c].amount <= Price - call'[c].already + Epsilon
    <3>1. c \in Approving[p] /\ call'[c] = call[c]
      BY <2>3, <2>4
    <3>2. Sum(refund', Processed(p) \ {call[c].refund})
             = Sum(refund, Processed(p) \ {call[c].refund})
      BY <1>2, <1>3
    <3>3. QED
      BY <1>0, <2>1, <2>4, <3>1, <3>2 DEF CleanInv
  <2>5. ASSUME NEW c \in Approving'[p], call'[c].pc = "approve_record"
        PROVE  /\ call'[c].refund \notin Processed(p)'
               /\ call'[c].already = Sum(refund', Processed(p)')
    <3>1. c \in Approving[p] /\ call'[c] = call[c]
      BY <2>3, <2>5 DEF PaidPCs
    <3>2. Sum(refund', Processed(p)) = Sum(refund, Processed(p))
      BY <1>2, <1>3
    <3>3. QED
      BY <1>0, <2>1, <2>5, <3>1, <3>2 DEF CleanInv
  <2>6. ASSUME \A c \in Approving'[p] : call'[c].pc \notin PaidPCs,
               returned'[p] >= Price - Epsilon
        PROVE  payment'[p].status # "SUCCESS"
    <3>1. \A c \in Approving[p] : call[c].pc \notin PaidPCs
      <4> SUFFICES ASSUME NEW c \in Approving[p], call[c].pc \in PaidPCs PROVE FALSE
        OBVIOUS
      <4>1. c \in Calls /\ call[c].payment = p
        BY DEF Approving
      <4>2. call'[c] = call[c]
        BY <4>1
      <4>3. c \in Approving'[p]
        BY <4>1, <4>2, InApproving DEF ApprovingPCs
      <4>4. QED
        BY <2>6, <4>2, <4>3
    <3>2. Confirmed(p)
      BY <1>0, <2>6, BackIsConfirmed
    <3>3. QED
      BY <1>0, <2>1, <2>6, <3>1, <3>2 DEF CleanInv
  <2>7. /\ returned'[p] = Sum(refund', Paid(p)')
        /\ returned'[p] <= Price + Epsilon
    BY <1>0, <2>1, <2>2 DEF CleanInv
  <2>8. QED
    BY <1>6, <2>4, <2>5, <2>6, <2>7 DEF CleanInv
<1>7. mishaps'[p] # {} => CleanInv(p)'
  BY DEF CleanInv
<1>8. QED
  BY <1>5, <1>6, <1>7

\* When something goes wrong with a payment, no more is counted as paid.
LEMMA MishapKeeps ==
    ASSUME RInv, RefundTypeOK', Grows, NEW p \in Payments, mishaps'[p] # {},
           Paid(p)' \subseteq Paid(p),
           payment'[p].status = "REFUNDED" => payment[p].status = "REFUNDED",
           returned'[p] > 0 => Confirmed(p)
    PROVE  MoneyInv(p)' /\ CleanInv(p)'
<1>0. /\ RefundTypeOK
      /\ \A c \in Calls : CallInv(c)
      /\ MoneyInv(p)
  BY DEF RInv
<1>1. /\ Paid(p) \in SUBSET RefundIds
      /\ \A f \in Paid(p) : refund[f].status # "ABSENT"
  BY <1>0, PaidRows
<1>2. Sum(refund', Paid(p)') = Sum(refund, Paid(p)')
  BY <1>0, <1>1, SumKept
<1>3. /\ Sum(refund, Paid(p)') <= Sum(refund, Paid(p))
      /\ Sum(refund, Paid(p)') \in Nat /\ Sum(refund, Paid(p)) \in Nat
  BY <1>0, <1>1, SomeRows, SumLess
<1>4. returned[p] <= returned'[p] /\ returned[p] \in Nat /\ returned'[p] \in Nat
  BY <1>0 DEF Grows, RefundTypeOK
<1>5. ~ByHand(p)' => ~ByHand(p)
  BY DEF Grows, ByHand
<1>6. MoneyInv(p)'
  <2>1. Confirmed(p) => Confirmed(p)'
    BY ConfirmedKept
  <2>2. Price - Epsilon \in Nat
    BY <1>0, NumbersOf
  <2>3. QED
    BY <1>0, <1>2, <1>3, <1>4, <1>5, <2>1, <2>2 DEF MoneyInv
<1>7. CleanInv(p)'
  BY DEF CleanInv
<1>8. QED
  BY <1>6, <1>7

-----------------------------------------------------------------------------
(* The parts of a step.                                                     *)

CallType == [pc: CallPCs,
             refund: RefundIds \cup {None},
             payment: Payments \cup {None},
             ref: Sessions \cup {None},
             amount: Amounts \cup {0},
             already: Nat]

RefundType == [payment: Payments \cup {None}, amount: Amounts \cup {0},
               status: RefundStatuses]

LEMMA TypeParts ==
    RefundTypeOK <=> /\ TypeOK
                     /\ refund \in [RefundIds -> RefundType]
                     /\ returned \in [Payments -> Nat]
                     /\ refundLock \in [Payments -> SUBSET Calls]
                     /\ call \in [Calls -> CallType]
                     /\ mishaps \in [Payments -> SUBSET Mishaps]
  BY Zenon DEF RefundTypeOK, RefundType, CallType

LEMMA TypeKept ==
    ASSUME TypeOK',
           refund' \in [RefundIds -> RefundType],
           returned' \in [Payments -> Nat],
           refundLock' \in [Payments -> SUBSET Calls],
           call' \in [Calls -> CallType],
           mishaps' \in [Payments -> SUBSET Mishaps]
    PROVE  RefundTypeOK'
  BY DEF RefundTypeOK, RefundType, CallType

LEMMA NoCallTyped ==
    /\ NoCall \in CallType
    /\ NoCall.pc = "idle"
    /\ NoCall.payment = None
    /\ None \notin Payments
  BY NoneAssumption DEF NoCall, CallType, CallPCs

LEMMA ProceedCall ==
    ASSUME RefundTypeOK, NEW c \in Calls, NEW pc \in CallPCs, Proceed(c, pc)
    PROVE  /\ call' \in [Calls -> CallType]
           /\ \A d \in Calls : d # c => call'[d] = call[d]
           /\ call'[c].pc = pc
           /\ call'[c].refund = call[c].refund
           /\ call'[c].payment = call[c].payment
           /\ call'[c].amount = call[c].amount
           /\ call'[c].already = call[c].already
<1>1. call \in [Calls -> CallType]
  BY TypeParts
<1>2. call' = [call EXCEPT ![c].pc = pc]
  BY DEF Proceed
<1>3. QED
  BY <1>1, <1>2 DEF CallType

LEMMA FinishCall ==
    ASSUME RefundTypeOK, NEW c \in Calls, Finish(c)
    PROVE  /\ call' \in [Calls -> CallType]
           /\ \A d \in Calls : d # c => call'[d] = call[d]
           /\ call'[c] = NoCall
<1>1. call \in [Calls -> CallType]
  BY TypeParts
<1>2. call' = [call EXCEPT ![c] = NoCall]
  BY DEF Finish
<1>3. QED
  BY <1>1, <1>2, NoCallTyped

LEMMA NoteMishap ==
    ASSUME RefundTypeOK, NEW p \in Payments, NEW what \in SUBSET Mishaps, Note(p, what)
    PROVE  /\ mishaps' \in [Payments -> SUBSET Mishaps]
           /\ \A q \in Payments : q # p => mishaps'[q] = mishaps[q]
           /\ mishaps'[p] = mishaps[p] \cup what
<1>1. mishaps \in [Payments -> SUBSET Mishaps]
  BY TypeParts
<1>2. mishaps' = [mishaps EXCEPT ![p] = mishaps[p] \cup what]
  BY DEF Note
<1>3. QED
  BY <1>1, <1>2

\* Of an idle call nothing is asked.
LEMMA IdleCall ==
    ASSUME NEW c \in Calls, call'[c] = NoCall
    PROVE  CallInv(c)'
<1>1. call'[c].pc = "idle"
  BY NoCallTyped
<1>2. call'[c].pc \notin ApprovingPCs \cup {"approve_lock"}
  BY <1>1 DEF ApprovingPCs, PaidPCs
<1>3. call'[c].pc \notin {"approve_gateway", "approve_record", "approve_close"}
  BY <1>1
<1>4. QED
  BY <1>1, <1>2, <1>3 DEF CallInv

\* Going on to an await that asks for no more.
LEMMA PlainCall ==
    ASSUME RefundTypeOK, Grows, NEW c \in Calls, CallInv(c),
           call'[c].refund = call[c].refund,
           call'[c].payment = call[c].payment,
           call'[c].amount = call[c].amount,
           call[c].pc # "idle",
           call'[c].pc \in PlainPCs,
           call'[c].pc \in ApprovingPCs \cup {"approve_lock"}
           => call[c].pc \in ApprovingPCs \cup {"approve_lock"}
    PROVE  CallInv(c)'
<1> DEFINE p == call[c].payment
           f == call[c].refund
<1>1. p \in Payments /\ Confirmed(p)'
  BY ConfirmedKept DEF CallInv
<1>2. call'[c].pc \in ApprovingPCs \cup {"approve_lock"}
      => /\ f \in RefundIds
         /\ refund'[f].status # "ABSENT"
         /\ refund'[f].payment = p
         /\ refund'[f].amount = call[c].amount
  BY DEF CallInv, Grows
<1>3. call'[c].pc \notin {"approve_gateway", "approve_record", "approve_close"}
  BY DEF PlainPCs
<1> HIDE DEF p, f
<1>4. QED
  BY <1>1, <1>2, <1>3 DEF CallInv, Confirmed, p, f

LEMMA Stutters ==
    ASSUME IInv, SuccessInv, vars' = vars
    PROVE  /\ IInv' /\ SuccessInv'
           /\ UNCHANGED <<order, assigned, payment, session, invoiced, confirmations,
                          verifyLock, req>>
<1>1. IInv'
  BY NextIInv
<1>2. UNCHANGED <<order, assigned, payment, session, invoiced, confirmations,
                  verifyLock, req>>
  BY DEF vars
<1>3. QED
  BY <1>1, <1>2 DEF SuccessInv

\* A step of one call that moves no money.
LEMMA QuietKeeps ==
    ASSUME RInv, vars' = vars, RefundTypeOK', Grows, LockInv', NEW c \in Calls,
           \A d \in Calls : d # c => call'[d] = call[d],
           CallInv(c)', call'[c].pc \in PlainPCs, call[c].pc \notin PaidPCs,
           \A p \in Payments : Processed(p)' = Processed(p),
           returned' = returned,
           \A f \in RefundIds : RefundInv(f)',
           \A p \in Payments : mishaps'[p] = {} => Approving'[p] \subseteq refundLock'[p]
    PROVE  RInv'
<1>1. IInv' /\ SuccessInv' /\ payment' = payment
  BY Stutters DEF RInv
<1>2. ASSUME NEW d \in Calls PROVE CallInv(d)'
  BY CallKept DEF RInv
<1>3. ASSUME NEW p \in Payments PROVE MoneyInv(p)' /\ CleanInv(p)'
  <2>1. \A d \in Calls : call'[d] = call[d] \/ call'[d].pc \in PlainPCs
    OBVIOUS
  <2>2. \A d \in Calls : call[d].pc \in PaidPCs => call'[d] = call[d]
    OBVIOUS
  <2>3. QED
    BY <1>1, <2>1, <2>2, PlainKeeps
<1>4. QED
  BY <1>1, <1>2, <1>3 DEF RInv

\* What is enough for Grows when only the refunds' own variables change.
LEMMA GrowsWith ==
    ASSUME vars' = vars, RefundTypeOK,
           \A p \in Payments : returned'[p] = returned[p] /\ mishaps[p] \subseteq mishaps'[p],
           \A f \in RefundIds :
              refund[f].status # "ABSENT"
              => /\ refund'[f].status # "ABSENT"
                 /\ refund'[f].payment = refund[f].payment
                 /\ refund'[f].amount = refund[f].amount
    PROVE  Grows
<1>1. \A p \in Payments : returned[p] <= returned'[p]
  BY DEF RefundTypeOK
<1>2. payment' = payment /\ invoiced' = invoiced
  BY DEF vars
<1>3. QED
  BY <1>1, <1>2 DEF Grows

LEMMA SameRows ==
    ASSUME RInv, Grows, refund' = refund
    PROVE  /\ \A f \in RefundIds : RefundInv(f)'
           /\ \A p \in Payments : Processed(p)' = Processed(p)
<1>1. ASSUME NEW f \in RefundIds PROVE RefundInv(f)'
  <2>1. RefundInv(f)
    BY DEF RInv
  <2>2. CASE refund[f].status = "ABSENT"
    BY <2>1, <2>2 DEF RefundInv
  <2>3. CASE refund[f].status # "ABSENT"
    BY <2>1, <2>3, RowKept
  <2>4. QED
    BY <2>2, <2>3
<1>2. \A p \in Payments : Processed(p)' = Processed(p)
  BY DEF Processed
<1>3. QED
  BY <1>1, <1>2

\* Nobody new is inside the lock of a payment, and nobody lost it.
LEMMA SameLock ==
    ASSUME RInv, Grows, NEW c \in Calls,
           \A d \in Calls : d # c => call'[d] = call[d],
           call'[c].pc \in ApprovingPCs
           => call[c].pc \in ApprovingPCs /\ call'[c].payment = call[c].payment,
           NEW p \in Payments, mishaps'[p] = {}, refundLock'[p] = refundLock[p]
    PROVE  Approving'[p] \subseteq refundLock'[p]
<1>1. mishaps[p] = {}
  BY DEF Grows
<1>2. Approving[p] \subseteq refundLock[p]
  BY <1>1 DEF RInv, CleanInv
<1>3. ASSUME NEW d \in Approving'[p] PROVE d \in Approving[p]
  <2>1. d \in Calls
    BY DEF Approving
  <2>2. QED
    BY <2>1, InApproving
<1>4. QED
  BY <1>2, <1>3

\* A step that changes nothing but the call, and leaves no money behind.
LEMMA CallOnly ==
    ASSUME RInv, NEW c \in Calls,
           UNCHANGED <<vars, refund, returned, refundLock, mishaps>>,
           call' \in [Calls -> CallType],
           \A d \in Calls : d # c => call'[d] = call[d],
           call'[c].pc \in PlainPCs, call[c].pc \notin PaidPCs,
           call'[c].pc \in ApprovingPCs
           => call[c].pc \in ApprovingPCs /\ call'[c].payment = call[c].payment,
           Grows => CallInv(c)'
    PROVE  RInv'
<1>1. RefundTypeOK
  BY DEF RInv
<1>2. Grows
  BY <1>1, GrowsWith
<1>3. IInv' /\ SuccessInv'
  BY Stutters DEF RInv
<1>4. RefundTypeOK'
  <2>1. TypeOK'
    BY <1>3 DEF IInv
  <2>2. /\ refund \in [RefundIds -> RefundType]
        /\ returned \in [Payments -> Nat]
        /\ refundLock \in [Payments -> SUBSET Calls]
        /\ mishaps \in [Payments -> SUBSET Mishaps]
    BY <1>1, TypeParts
  <2>3. QED
    BY <2>1, <2>2, TypeKept
<1>5. LockInv'
  BY DEF RInv, LockInv
<1>6. \A p \in Payments : mishaps'[p] = {} => Approving'[p] \subseteq refundLock'[p]
  BY <1>2, SameLock
<1>7. QED
  BY <1>2, <1>4, <1>5, <1>6, SameRows, QuietKeeps

LEMMA FinishKeeps ==
    ASSUME RInv, NEW c \in Calls, Finish(c), call[c].pc \notin PaidPCs,
           UNCHANGED <<vars, refund, returned, refundLock, mishaps>>
    PROVE  RInv'
<1>1. /\ call' \in [Calls -> CallType]
      /\ \A d \in Calls : d # c => call'[d] = call[d]
      /\ call'[c] = NoCall
  BY FinishCall DEF RInv
<1>2. call'[c].pc \in PlainPCs /\ call'[c].pc \notin ApprovingPCs
  BY <1>1, NoCallTyped DEF PlainPCs, CallPCs, ApprovingPCs, PaidPCs
<1>3. CallInv(c)'
  BY <1>1, IdleCall
<1>4. QED
  BY <1>1, <1>2, <1>3, CallOnly

LEMMA GoesOn ==
    ASSUME RInv, NEW c \in Calls, NEW pc \in PlainPCs, Proceed(c, pc),
           call[c].pc \notin PaidPCs \cup {"idle"},
           pc \in ApprovingPCs => call[c].pc \in ApprovingPCs,
           pc # "approve_lock",
           UNCHANGED <<vars, refund, returned, refundLock, mishaps>>
    PROVE  RInv'
<1>1. /\ call' \in [Calls -> CallType]
      /\ \A d \in Calls : d # c => call'[d] = call[d]
      /\ call'[c].pc = pc
      /\ call'[c].refund = call[c].refund
      /\ call'[c].payment = call[c].payment
      /\ call'[c].amount = call[c].amount
  BY ProceedCall DEF RInv, PlainPCs
<1>2. Grows => CallInv(c)'
  BY <1>1, PlainCall DEF RInv
<1>3. QED
  BY <1>1, <1>2, CallOnly

LEMMA ReadsKeep ==
    ASSUME RInv, NEW c \in Calls,
           \/ RequestSum(c) \/ ApproveConflict(c) \/ ApproveOrder(c)
           \/ \E p \in Payments, amount \in Amounts : RequestRead(c, p, amount)
           \/ \E f \in RefundIds : ApproveRead(c, f)
    PROVE  RInv'
<1> USE DEF PlainPCs, CallPCs, ApprovingPCs, PaidPCs
<1>1. CASE RequestSum(c)
  BY <1>1, FinishKeeps, GoesOn DEF RequestSum
<1>2. CASE ApproveConflict(c)
  BY <1>2, FinishKeeps DEF ApproveConflict
<1>3. CASE ApproveOrder(c)
  BY <1>3, GoesOn DEF ApproveOrder
<1>4. ASSUME NEW p \in Payments, NEW amount \in Amounts, RequestRead(c, p, amount)
      PROVE  RInv'
  <2> DEFINE new == [NoCall EXCEPT !.pc = "request_sum", !.payment = p, !.amount = amount]
  <2>1. /\ new \in CallType
        /\ new.pc = "request_sum"
        /\ new.payment = p
    BY DEF NoCall, CallType
  <2>2. call' = [call EXCEPT ![c] = new] /\ call[c] = NoCall /\ payment[p].status = "SUCCESS"
    BY <1>4 DEF RequestRead
  <2> HIDE DEF new
  <2>3. /\ call' \in [Calls -> CallType]
        /\ \A d \in Calls : d # c => call'[d] = call[d]
        /\ call'[c] = new
    BY <2>1, <2>2, TypeParts DEF RInv
  <2>4. UNCHANGED <<vars, refund, returned, refundLock, mishaps>>
    BY <1>4 DEF RequestRead
  <2>5. call[c].pc = "idle"
    BY <2>2, NoCallTyped
  <2>6. Confirmed(p)
    BY <2>2 DEF RInv, SuccessInv, Confirmed
  <2>7. Grows => CallInv(c)'
    <3>1. Grows => Confirmed(p)'
      BY <2>6, ConfirmedKept
    <3>2. QED
      BY <2>1, <2>3, <3>1 DEF CallInv, Confirmed
  <2>8. QED
    BY <2>1, <2>3, <2>4, <2>5, <2>7, CallOnly
<1>5. ASSUME NEW f \in RefundIds, ApproveRead(c, f)
      PROVE  RInv'
  <2>0. refund[f].status # "ABSENT"
    BY <1>5 DEF ApproveRead
  <2>2. PICK p \in Payments : refund[f].payment = p /\ Confirmed(p)
    BY <2>0 DEF RInv, RefundInv
  <2> DEFINE new == [pc |-> "approve_lock", refund |-> f, payment |-> p,
                     ref |-> payment[p].ref, amount |-> refund[f].amount, already |-> 0]
  <2>1. call' = [call EXCEPT ![c] = new] /\ call[c] = NoCall
    BY <1>5, <2>2 DEF ApproveRead
  <2>3. payment[p].ref \in Sessions \cup {None} /\ refund[f].amount \in Amounts \cup {0}
    BY <2>2 DEF RInv, IInv, TypeOK, Row, RefundTypeOK
  <2>4. /\ new \in CallType
        /\ new.pc = "approve_lock" /\ new.refund = f /\ new.payment = p
        /\ new.amount = refund[f].amount
    BY <2>2, <2>3 DEF CallType
  <2> HIDE DEF new
  <2>5. /\ call' \in [Calls -> CallType]
        /\ \A d \in Calls : d # c => call'[d] = call[d]
        /\ call'[c] = new
    BY <2>1, <2>4, TypeParts DEF RInv
  <2>6. UNCHANGED <<vars, refund, returned, refundLock, mishaps>>
    BY <1>5 DEF ApproveRead
  <2>7. call[c].pc = "idle"
    BY <2>1, NoCallTyped
  <2>8. Grows => CallInv(c)'
    <3>1. Grows => Confirmed(p)'
      BY <2>2, ConfirmedKept
    <3>2. refund' = refund
      BY <2>6
    <3>3. QED
      BY <2>0, <2>2, <2>4, <2>5, <3>1, <3>2 DEF CallInv, Confirmed
  <2>9. QED
    BY <2>4, <2>5, <2>6, <2>7, <2>8, CallOnly
<1>6. QED
  BY <1>1, <1>2, <1>3, <1>4, <1>5

\* A step of a call on p, where nothing of another payment changes.
LEMMA OwnKeeps ==
    ASSUME RInv, IInv', SuccessInv', RefundTypeOK', Grows,
           NEW c \in Calls, NEW p \in Payments, call[c].payment = p,
           \A d \in Calls : d # c => call'[d] = call[d],
           call'[c].payment = p \/ call'[c] = NoCall,
           CallInv(c)',
           refundLock' = refundLock,
           \A f \in RefundIds : RefundInv(f)',
           \A q \in Payments : q # p => /\ Processed(q)' = Processed(q)
                                        /\ returned'[q] = returned[q]
                                        /\ payment'[q] = payment[q],
           MoneyInv(p)' /\ CleanInv(p)'
    PROVE  RInv'
<1>1. ASSUME NEW d \in Calls PROVE CallInv(d)'
  BY CallKept DEF RInv
<1>2. ASSUME NEW q \in Payments, q # p
      PROVE  MoneyInv(q)' /\ CleanInv(q)'
  <2>1. \A d \in Calls : call'[d] = call[d] \/ call'[d].payment # q
    BY <1>2, NoCallTyped
  <2>2. \A d \in Calls : call[d].payment = q => call'[d] = call[d]
    BY <1>2
  <2>3. mishaps'[q] = {} => Approving'[q] \subseteq refundLock'[q]
    <3>1. ASSUME NEW d \in Approving'[q] PROVE d \in Approving[q]
      <4>1. d \in Calls /\ call'[d].payment = q
        BY DEF Approving
      <4>2. QED
        BY <2>1, <4>1, InApproving
    <3>2. mishaps'[q] = {} => mishaps[q] = {}
      BY DEF Grows
    <3>3. mishaps[q] = {} => Approving[q] \subseteq refundLock[q]
      BY DEF RInv, CleanInv
    <3>4. QED
      BY <3>1, <3>2, <3>3
  <2>4. /\ Processed(q)' = Processed(q)
        /\ returned'[q] = returned[q]
        /\ payment'[q] = payment[q]
    BY <1>2
  <2>5. QED
    BY <2>1, <2>2, <2>3, <2>4, PlainKeeps
<1>3. LockInv'
  BY DEF RInv, LockInv
<1>4. QED
  BY <1>1, <1>2, <1>3 DEF RInv

LEMMA CreateKeeps ==
    ASSUME RInv, NEW c \in Calls, RequestCreate(c)
    PROVE  RInv'
<1>1. PICK g \in RefundIds :
         /\ refund[g].status = "ABSENT"
         /\ refund' = [refund EXCEPT ![g] =
               [payment |-> call[c].payment, amount |-> call[c].amount,
                status |-> "PENDING"]]
  BY DEF RequestCreate
<1>2. /\ call[c].pc = "request_create"
      /\ Finish(c)
      /\ UNCHANGED <<vars, returned, refundLock, mishaps>>
  BY DEF RequestCreate
<1>3. RefundTypeOK /\ TypeOK
  BY DEF RInv, IInv
<1>4. call[c].payment \in Payments /\ Confirmed(call[c].payment)
  BY <1>2 DEF RInv, CallInv
<1>5. call[c].amount \in Amounts \cup {0}
  BY <1>3, TypeParts DEF CallType
<1>6. /\ refund' \in [RefundIds -> RefundType]
      /\ \A f \in RefundIds : f # g => refund'[f] = refund[f]
      /\ refund'[g].payment = call[c].payment
      /\ refund'[g].status = "PENDING"
  BY <1>1, <1>3, <1>4, <1>5, TypeParts DEF RefundType, RefundStatuses
<1>7. /\ call' \in [Calls -> CallType]
      /\ \A d \in Calls : d # c => call'[d] = call[d]
      /\ call'[c] = NoCall
  BY <1>2, <1>3, FinishCall
<1>8. IInv' /\ SuccessInv' /\ payment' = payment /\ invoiced' = invoiced
  BY <1>2, Stutters DEF RInv
<1>9. Grows
  BY <1>1, <1>2, <1>3, <1>6, GrowsWith
<1>10. RefundTypeOK'
  <2>1. TypeOK'
    BY <1>8 DEF IInv
  <2>2. /\ returned' \in [Payments -> Nat]
        /\ refundLock' \in [Payments -> SUBSET Calls]
        /\ mishaps' \in [Payments -> SUBSET Mishaps]
    BY <1>2, <1>3, TypeParts
  <2>3. QED
    BY <1>6, <1>7, <2>1, <2>2, TypeKept
<1>11. ASSUME NEW f \in RefundIds PROVE RefundInv(f)'
  <2>1. RefundInv(f)
    BY DEF RInv
  <2>2. CASE f = g
    <3>1. Confirmed(call[c].payment) => /\ payment'[call[c].payment].status # "ABSENT"
                                        /\ payment'[call[c].payment].order \in invoiced'
      BY <1>8 DEF Confirmed
    <3>2. QED
      BY <1>4, <1>6, <2>2, <3>1 DEF RefundInv, Confirmed
  <2>3. CASE f # g /\ refund[f].status = "ABSENT"
    BY <1>6, <2>1, <2>3 DEF RefundInv
  <2>4. CASE f # g /\ refund[f].status # "ABSENT"
    BY <1>6, <1>9, <2>1, <2>4, RowKept
  <2>5. QED
    BY <2>2, <2>3, <2>4
<1>12. \A p \in Payments : Processed(p)' = Processed(p)
  BY <1>1, <1>6 DEF Processed
<1>13. call'[c].pc \in PlainPCs /\ call'[c].pc \notin ApprovingPCs
  BY <1>7, NoCallTyped DEF PlainPCs, CallPCs, ApprovingPCs, PaidPCs
<1>14. \A p \in Payments : mishaps'[p] = {} => Approving'[p] \subseteq refundLock'[p]
  BY <1>2, <1>7, <1>9, <1>13, SameLock
<1>15. CallInv(c)' /\ LockInv'
  BY <1>2, <1>7, IdleCall DEF RInv, LockInv
<1>16. call[c].pc \notin PaidPCs /\ vars' = vars /\ returned' = returned
  BY <1>2 DEF PaidPCs
<1>17. QED
  BY <1>7, <1>9, <1>10, <1>11, <1>12, <1>13, <1>14, <1>15, <1>16, QuietKeeps

\* Types of a step that changes no row of checkout, and no refund.
LEMMA CallTyped ==
    ASSUME RInv, vars' = vars, refund' = refund,
           returned' \in [Payments -> Nat],
           refundLock' \in [Payments -> SUBSET Calls],
           call' \in [Calls -> CallType],
           mishaps' \in [Payments -> SUBSET Mishaps]
    PROVE  RefundTypeOK'
<1>1. TypeOK'
  BY Stutters DEF RInv, IInv
<1>2. refund' \in [RefundIds -> RefundType]
  BY TypeParts DEF RInv
<1>3. QED
  BY <1>1, <1>2, TypeKept

LEMMA LockKeeps ==
    ASSUME RInv, NEW c \in Calls, ApproveLock(c)
    PROVE  RInv'
<1> DEFINE p == call[c].payment
<1>1. /\ call[c].pc = "approve_lock"
      /\ refundLock[p] = {}
      /\ refundLock' = [refundLock EXCEPT ![p] = {c}]
      /\ Proceed(c, "approve_sum")
      /\ UNCHANGED <<vars, refund, returned, mishaps>>
  BY DEF ApproveLock, RefundLocks!SetNX
<1>2. p \in Payments
  BY <1>1 DEF RInv, CallInv
<1>3. RefundTypeOK
  BY DEF RInv
<1>4. /\ call' \in [Calls -> CallType]
      /\ \A d \in Calls : d # c => call'[d] = call[d]
      /\ call'[c].pc = "approve_sum"
      /\ call'[c].refund = call[c].refund
      /\ call'[c].payment = p
      /\ call'[c].amount = call[c].amount
  BY <1>1, <1>3, ProceedCall DEF CallPCs, ApprovingPCs
<1> HIDE DEF p
<1>5. /\ refundLock' \in [Payments -> SUBSET Calls]
      /\ refundLock'[p] = {c}
      /\ \A q \in Payments : q # p => refundLock'[q] = refundLock[q]
  BY <1>1, <1>2, <1>3, TypeParts
<1>6. Grows
  BY <1>1, <1>3, GrowsWith
<1>7. RefundTypeOK'
  <2>1. returned' \in [Payments -> Nat] /\ mishaps' \in [Payments -> SUBSET Mishaps]
    BY <1>1, <1>3, TypeParts
  <2>2. QED
    BY <1>1, <1>4, <1>5, <2>1, CallTyped
<1>8. LockInv'
  BY <1>2, <1>5 DEF RInv, LockInv
<1>9. call'[c].pc \in PlainPCs
  BY <1>4 DEF PlainPCs, CallPCs, ApprovingPCs
<1>10. CallInv(c)'
  BY <1>1, <1>3, <1>4, <1>6, <1>9, PlainCall DEF RInv, p
<1>11. ASSUME NEW q \in Payments, mishaps'[q] = {}
       PROVE  Approving'[q] \subseteq refundLock'[q]
  <2>1. Approving[q] \subseteq refundLock[q]
    BY <1>1, <1>11 DEF RInv, CleanInv
  <2>2. ASSUME NEW d \in Approving'[q] PROVE d \in refundLock'[q]
    <3>1. d \in Calls /\ call'[d].payment = q
      BY DEF Approving
    <3>2. CASE d = c
      BY <1>4, <1>5, <3>1, <3>2
    <3>3. CASE d # c
      <4>1. d \in refundLock[q]
        BY <1>4, <2>1, <3>1, <3>3, InApproving
      <4>2. QED
        BY <1>1, <1>5, <4>1
    <3>4. QED
      BY <3>2, <3>3
  <2>3. QED
    BY <2>2
<1>12. call[c].pc \notin PaidPCs /\ vars' = vars /\ returned' = returned /\ refund' = refund
  BY <1>1 DEF PaidPCs
<1>13. QED
  BY <1>4, <1>6, <1>7, <1>8, <1>9, <1>10, <1>11, <1>12, SameRows, QuietKeeps

LEMMA ReleaseKeeps ==
    ASSUME RInv, NEW c \in Calls, ApproveRelease(c)
    PROVE  RInv'
<1> DEFINE p == call[c].payment
<1>1. /\ call[c].pc = "approve_release"
      /\ refundLock' = [refundLock EXCEPT ![p] = refundLock[p] \ {c}]
      /\ Finish(c)
      /\ UNCHANGED <<vars, refund, returned, mishaps>>
  BY DEF ApproveRelease, RefundLocks!DelIfOwner
<1>2. p \in Payments
  BY <1>1 DEF RInv, CallInv
<1>3. RefundTypeOK
  BY DEF RInv
<1>4. /\ call' \in [Calls -> CallType]
      /\ \A d \in Calls : d # c => call'[d] = call[d]
      /\ call'[c] = NoCall
  BY <1>1, <1>3, FinishCall
<1> HIDE DEF p
<1>5. /\ refundLock' \in [Payments -> SUBSET Calls]
      /\ \A q \in Payments : refundLock[q] \ {c} \subseteq refundLock'[q]
      /\ \A q \in Payments : refundLock'[q] \subseteq refundLock[q]
  BY <1>1, <1>2, <1>3, TypeParts
<1>6. Grows
  BY <1>1, <1>3, GrowsWith
<1>7. RefundTypeOK'
  <2>1. returned' \in [Payments -> Nat] /\ mishaps' \in [Payments -> SUBSET Mishaps]
    BY <1>1, <1>3, TypeParts
  <2>2. QED
    BY <1>1, <1>4, <1>5, <2>1, CallTyped
<1>8. LockInv'
  BY <1>5 DEF RInv, LockInv
<1>9. call'[c].pc \in PlainPCs /\ call'[c].pc \notin ApprovingPCs
  BY <1>4, NoCallTyped DEF PlainPCs, CallPCs, ApprovingPCs, PaidPCs
<1>10. CallInv(c)'
  BY <1>4, IdleCall
<1>11. ASSUME NEW q \in Payments, mishaps'[q] = {}
       PROVE  Approving'[q] \subseteq refundLock'[q]
  <2>1. Approving[q] \subseteq refundLock[q]
    BY <1>1, <1>11 DEF RInv, CleanInv
  <2>2. ASSUME NEW d \in Approving'[q] PROVE d \in refundLock'[q]
    <3>1. d \in Calls /\ d # c
      BY <1>9 DEF Approving
    <3>2. d \in refundLock[q]
      BY <1>4, <2>1, <3>1, InApproving
    <3>3. QED
      BY <1>5, <3>1, <3>2
  <2>3. QED
    BY <2>2
<1>12. call[c].pc \notin PaidPCs /\ vars' = vars /\ returned' = returned /\ refund' = refund
  BY <1>1 DEF PaidPCs
<1>13. QED
  BY <1>4, <1>6, <1>7, <1>8, <1>9, <1>10, <1>11, <1>12, SameRows, QuietKeeps

-----------------------------------------------------------------------------
(* The steps that move money, record it, or go wrong.                       *)

LEMMA PaysParts ==
    ASSUME RefundTypeOK, NEW c \in Calls, NEW p \in Payments, call[c].payment = p, Pays(c)
    PROVE  /\ returned' \in [Payments -> Nat]
           /\ returned'[p] = returned[p] + call[c].amount
           /\ \A q \in Payments : q # p => returned'[q] = returned[q]
           /\ \A q \in Payments : returned[q] <= returned'[q]
<1>1. call[c].amount \in Nat
  BY CallNumbers
<1>2. returned \in [Payments -> Nat]
  BY TypeParts
<1>3. returned' = [returned EXCEPT ![p] = returned[p] + call[c].amount]
  BY DEF Pays
<1>4. returned'[p] = returned[p] + call[c].amount /\ returned[p] \in Nat
  BY <1>2, <1>3
<1>5. \A q \in Payments : q # p => returned'[q] = returned[q] /\ returned[q] \in Nat
  BY <1>2, <1>3
<1>6. returned[p] <= returned'[p] /\ returned'[p] \in Nat
  BY <1>1, <1>4
<1>7. returned' \in [Payments -> Nat]
  BY <1>2, <1>3, <1>4, <1>6
<1>8. \A q \in Payments : returned[q] <= returned'[q]
  BY <1>4, <1>5, <1>6
<1>9. QED
  BY <1>4, <1>5, <1>7, <1>8

LEMMA GrowsPaying ==
    ASSUME RefundTypeOK, vars' = vars, refund' = refund,
           \A q \in Payments : returned[q] <= returned'[q] /\ mishaps[q] \subseteq mishaps'[q]
    PROVE  Grows
<1>1. payment' = payment /\ invoiced' = invoiced
  BY DEF vars
<1>2. QED
  BY <1>1 DEF Grows

\* Among rows and calls, a step of c touches nothing but p.
LEMMA EndsBadly ==
    ASSUME RInv, vars' = vars, refundLock' = refundLock, RefundTypeOK', Grows,
           NEW c \in Calls, call[c].pc # "idle",
           NEW p, call[c].payment = p, mishaps'[p] # {},
           \A d \in Calls : d # c => call'[d] = call[d],
           call'[c] = NoCall \/ (call'[c].payment = p /\ call'[c].pc = "approve_release"),
           CallInv(c)',
           \A f \in RefundIds : RefundInv(f)',
           \A q \in Payments : q # p => /\ Processed(q)' = Processed(q)
                                        /\ returned'[q] = returned[q],
           Processed(p)' \subseteq Processed(p)
    PROVE  RInv'
<1>1. IInv' /\ SuccessInv' /\ payment' = payment
  BY Stutters DEF RInv
<1>2. p \in Payments /\ Confirmed(p)
  BY DEF RInv, CallInv
<1>3. call'[c].pc # "approve_record"
  BY NoCallTyped
<1>4. Paid(p)' \subseteq Paid(p)
  BY <1>3 DEF Paid
<1>5. MoneyInv(p)' /\ CleanInv(p)'
  BY <1>1, <1>2, <1>4, MishapKeeps
<1>6. call'[c].payment = p \/ call'[c] = NoCall
  OBVIOUS
<1>7. QED
  BY <1>1, <1>2, <1>5, <1>6, OwnKeeps

\* The mishap is noted with the call's payment.
LEMMA Noted ==
    ASSUME RefundTypeOK, NEW p \in Payments, NEW what \in SUBSET Mishaps, Note(p, what)
    PROVE  /\ mishaps' \in [Payments -> SUBSET Mishaps]
           /\ \A q \in Payments : mishaps[q] \subseteq mishaps'[q]
           /\ what \subseteq mishaps'[p]
           /\ what = {} => mishaps' = mishaps
<1>1. /\ mishaps' \in [Payments -> SUBSET Mishaps]
      /\ \A q \in Payments : q # p => mishaps'[q] = mishaps[q]
      /\ mishaps'[p] = mishaps[p] \cup what
  BY NoteMishap
<1>2. ASSUME what = {} PROVE mishaps' = mishaps
  <2>1. \A q \in Payments : mishaps'[q] = mishaps[q]
    BY <1>1, <1>2
  <2>2. mishaps \in [Payments -> SUBSET Mishaps]
    BY TypeParts
  <2>3. QED
    BY <1>1, <2>1, <2>2
<1>3. QED
  BY <1>1, <1>2

LEMMA AnswerLostKeeps ==
    ASSUME RInv, NEW c \in Calls, ApproveAnswerLost(c)
    PROVE  RInv'
<1>1. /\ call[c].pc = "approve_gateway"
      /\ Pays(c)
      /\ Note(call[c].payment, {"interrupted"})
      /\ Proceed(c, "approve_release")
      /\ UNCHANGED <<vars, refund, refundLock>>
  BY DEF ApproveAnswerLost
<1>2. RefundTypeOK
  BY DEF RInv
<1>3. PICK p \in Payments : call[c].payment = p
  BY <1>1 DEF RInv, CallInv
<1>4. /\ call' \in [Calls -> CallType]
      /\ \A d \in Calls : d # c => call'[d] = call[d]
      /\ call'[c].pc = "approve_release"
      /\ call'[c].refund = call[c].refund
      /\ call'[c].payment = call[c].payment
      /\ call'[c].amount = call[c].amount
  BY <1>1, <1>2, ProceedCall DEF CallPCs, ApprovingPCs
<1>5. /\ returned' \in [Payments -> Nat]
      /\ \A q \in Payments : q # p => returned'[q] = returned[q]
      /\ \A q \in Payments : returned[q] <= returned'[q]
  BY <1>1, <1>2, <1>3, PaysParts
<1>6. /\ mishaps' \in [Payments -> SUBSET Mishaps]
      /\ \A q \in Payments : mishaps[q] \subseteq mishaps'[q]
      /\ mishaps'[p] # {}
  BY <1>1, <1>2, <1>3, Noted DEF Mishaps
<1>7. Grows
  BY <1>1, <1>2, <1>5, <1>6, GrowsPaying
<1>8. RefundTypeOK'
  <2>1. refundLock' \in [Payments -> SUBSET Calls]
    BY <1>1, <1>2, TypeParts
  <2>2. QED
    BY <1>1, <1>4, <1>5, <1>6, <2>1, CallTyped
<1>9. CallInv(c)'
  BY <1>1, <1>2, <1>4, <1>7, PlainCall DEF RInv, PlainPCs, CallPCs, ApprovingPCs
<1>10. /\ \A f \in RefundIds : RefundInv(f)'
       /\ \A q \in Payments : Processed(q)' = Processed(q)
  BY <1>1, <1>7, SameRows
<1>11. QED
  BY <1>1, <1>3, <1>4, <1>5, <1>6, <1>7, <1>8, <1>9, <1>10, EndsBadly

LEMMA InterruptedKeeps ==
    ASSUME RInv, NEW c \in Calls, call[c].pc \in PaidPCs,
           Note(call[c].payment, {"interrupted"}),
           Finish(c) \/ Proceed(c, "approve_release"),
           UNCHANGED <<vars, refund, returned, refundLock>>
    PROVE  RInv'
<1>1. RefundTypeOK /\ call[c].pc # "idle"
  BY DEF RInv, PaidPCs
<1>2. PICK p \in Payments : call[c].payment = p
  BY <1>1 DEF RInv, CallInv
<1>3. /\ mishaps' \in [Payments -> SUBSET Mishaps]
      /\ \A q \in Payments : mishaps[q] \subseteq mishaps'[q]
      /\ mishaps'[p] # {}
  BY <1>1, <1>2, Noted DEF Mishaps
<1>4. \A q \in Payments : returned[q] <= returned'[q] /\ returned'[q] = returned[q]
  BY <1>1, NumbersOf
<1>5. Grows
  BY <1>1, <1>3, <1>4, GrowsPaying
<1>6. /\ call' \in [Calls -> CallType]
      /\ \A d \in Calls : d # c => call'[d] = call[d]
      /\ call'[c] = NoCall \/ (call'[c].payment = p /\ call'[c].pc = "approve_release")
      /\ CallInv(c)'
  <2>1. CASE Finish(c)
    <3>1. /\ call' \in [Calls -> CallType]
          /\ \A d \in Calls : d # c => call'[d] = call[d]
          /\ call'[c] = NoCall
      BY <1>1, <2>1, FinishCall
    <3>2. CallInv(c)'
      BY <3>1, IdleCall
    <3>3. QED
      BY <3>1, <3>2
  <2>2. CASE Proceed(c, "approve_release")
    <3>1. /\ call' \in [Calls -> CallType]
          /\ \A d \in Calls : d # c => call'[d] = call[d]
          /\ call'[c].pc = "approve_release"
          /\ call'[c].refund = call[c].refund
          /\ call'[c].payment = call[c].payment
          /\ call'[c].amount = call[c].amount
      BY <1>1, <2>2, ProceedCall DEF CallPCs, ApprovingPCs
    <3>2. CallInv(c)'
      BY <1>1, <1>5, <3>1, PlainCall DEF RInv, PlainPCs, CallPCs, ApprovingPCs
    <3>3. QED
      BY <1>2, <3>1, <3>2
  <2>3. QED
    BY <2>1, <2>2
<1>7. RefundTypeOK'
  <2>1. returned' \in [Payments -> Nat] /\ refundLock' \in [Payments -> SUBSET Calls]
    BY <1>1, TypeParts
  <2>2. QED
    BY <1>3, <1>6, <2>1, CallTyped
<1>8. /\ \A f \in RefundIds : RefundInv(f)'
      /\ \A q \in Payments : Processed(q)' = Processed(q)
  BY <1>5, SameRows
<1>9. QED
  BY <1>1, <1>2, <1>3, <1>4, <1>5, <1>6, <1>7, <1>8, EndsBadly

LEMMA DiesKeeps ==
    ASSUME RInv, NEW c \in Calls, CallDies(c)
    PROVE  RInv'
<1>1. /\ Finish(c)
      /\ UNCHANGED <<vars, refund, returned, refundLock>>
  BY DEF CallDies
<1>2. CASE call[c].pc \in PaidPCs
  BY <1>1, <1>2, InterruptedKeeps DEF CallDies, Note
<1>3. CASE call[c].pc \notin PaidPCs
  BY <1>1, <1>3, FinishKeeps DEF CallDies
<1>4. QED
  BY <1>2, <1>3

LEMMA ThrowsKeeps ==
    ASSUME RInv, NEW c \in Calls, CallThrows(c)
    PROVE  RInv'
<1>1. /\ call[c].pc \in ApprovingPCs
      /\ Proceed(c, "approve_release")
      /\ UNCHANGED <<vars, refund, returned, refundLock>>
  BY DEF CallThrows
<1>2. CASE call[c].pc \in PaidPCs
  BY <1>1, <1>2, InterruptedKeeps DEF CallThrows
<1>3. CASE call[c].pc \notin PaidPCs
  <2>1. RefundTypeOK /\ call[c].payment \in Payments
    BY <1>1 DEF RInv, CallInv, ApprovingPCs, PaidPCs
  <2>2. Note(call[c].payment, {})
    BY <1>3 DEF CallThrows
  <2>3. mishaps' = mishaps
    BY <2>1, <2>2, Noted
  <2>4. "approve_release" \in PlainPCs
    BY DEF PlainPCs, CallPCs, ApprovingPCs
  <2>5. call[c].pc \notin PaidPCs \cup {"idle"}
    BY <1>1, <1>3 DEF ApprovingPCs, PaidPCs
  <2>6. QED
    BY <1>1, <2>3, <2>4, <2>5, GoesOn
<1>4. QED
  BY <1>2, <1>3

\* A row that keeps its payment and amount, and exists, is sound.
LEMMA RowWritten ==
    ASSUME RInv, NEW g \in RefundIds, refund[g].status # "ABSENT",
           NEW p, refund[g].payment = p,
           NEW status \in RefundStatuses \ {"ABSENT"},
           refund' = [refund EXCEPT ![g].status = status],
           payment' = payment, invoiced' = invoiced, returned' = returned,
           \A q \in Payments : mishaps[q] \subseteq mishaps'[q]
    PROVE  /\ refund' \in [RefundIds -> RefundType]
           /\ Grows
           /\ \A f \in RefundIds : RefundInv(f)'
           /\ \A q : q # p => Processed(q)' = Processed(q)
           /\ status # "PROCESSED"
              => Processed(p)' = Processed(p) \ {g}
           /\ status = "PROCESSED"
              => Processed(p)' = Processed(p) \cup {g}
<1>0. RefundTypeOK
  BY DEF RInv
<1>1. refund \in [RefundIds -> RefundType]
  BY <1>0, TypeParts
<1>2. /\ refund' \in [RefundIds -> RefundType]
      /\ \A f \in RefundIds : f # g => refund'[f] = refund[f]
      /\ refund'[g].status = status
      /\ refund'[g].payment = refund[g].payment
      /\ refund'[g].amount = refund[g].amount
  BY <1>1 DEF RefundType
<1>3. Grows
  <2>1. \A q \in Payments : returned[q] <= returned'[q]
    BY <1>0, NumbersOf
  <2>2. QED
    BY <1>2, <2>1 DEF Grows
<1>4. ASSUME NEW f \in RefundIds PROVE RefundInv(f)'
  <2>1. RefundInv(f)
    BY DEF RInv
  <2>2. CASE refund[f].status = "ABSENT"
    BY <1>2, <2>1, <2>2 DEF RefundInv
  <2>3. CASE refund[f].status # "ABSENT"
    <3>1. refund'[f].status # "ABSENT"
      BY <1>3, <2>3 DEF Grows
    <3>2. QED
      BY <1>3, <2>1, <2>3, <3>1, RowKept
  <2>4. QED
    BY <2>2, <2>3
<1>5. \A q : q # p => Processed(q)' = Processed(q)
  BY <1>2 DEF Processed
<1>6. status # "PROCESSED"
      => Processed(p)' = Processed(p) \ {g}
  BY <1>2 DEF Processed
<1>7. status = "PROCESSED"
      => Processed(p)' = Processed(p) \cup {g}
  BY <1>2 DEF Processed
<1>8. QED
  BY <1>2, <1>3, <1>4, <1>5, <1>6, <1>7

LEMMA RejectKeeps ==
    ASSUME RInv, NEW c \in Calls, ApproveReject(c)
    PROVE  RInv'
<1>1. /\ call[c].pc = "approve_reject"
      /\ refund' = [refund EXCEPT ![call[c].refund].status = "REJECTED"]
      /\ Note(call[c].payment, IF refund[call[c].refund].status = "PROCESSED"
                               THEN {"reapproved"} ELSE {})
      /\ Proceed(c, "approve_release")
      /\ UNCHANGED <<vars, returned, refundLock>>
  BY DEF ApproveReject
<1>2. RefundTypeOK
  BY DEF RInv
<1>3. PICK g \in RefundIds : /\ call[c].refund = g /\ refund[g].status # "ABSENT"
                             /\ refund[g].payment = call[c].payment
  BY <1>1 DEF RInv, CallInv, ApprovingPCs
<1>4. PICK p \in Payments : call[c].payment = p
  BY <1>1 DEF RInv, CallInv
<1>5. /\ call' \in [Calls -> CallType]
      /\ \A d \in Calls : d # c => call'[d] = call[d]
      /\ call'[c].pc = "approve_release"
      /\ call'[c].refund = call[c].refund
      /\ call'[c].payment = call[c].payment
      /\ call'[c].amount = call[c].amount
  BY <1>1, <1>2, ProceedCall DEF CallPCs, ApprovingPCs
<1>6. PICK what \in SUBSET Mishaps :
         /\ Note(p, what)
         /\ what = IF refund[g].status = "PROCESSED" THEN {"reapproved"} ELSE {}
  BY <1>1, <1>3, <1>4 DEF Mishaps
<1>7. /\ mishaps' \in [Payments -> SUBSET Mishaps]
      /\ \A q \in Payments : mishaps[q] \subseteq mishaps'[q]
      /\ refund[g].status = "PROCESSED" => mishaps'[p] # {}
  BY <1>2, <1>6, Noted
<1>8. payment' = payment /\ invoiced' = invoiced /\ returned' = returned
  BY <1>1 DEF vars
<1>9. refund' = [refund EXCEPT ![g].status = "REJECTED"]
  BY <1>1, <1>3
<1>10. /\ refund' \in [RefundIds -> RefundType]
       /\ Grows
       /\ \A f \in RefundIds : RefundInv(f)'
       /\ \A q : q # p => Processed(q)' = Processed(q)
       /\ Processed(p)' = Processed(p) \ {g}
  <2>1. "REJECTED" \in RefundStatuses \ {"ABSENT"}
    BY DEF RefundStatuses
  <2>2. refund[g].payment = p
    BY <1>3, <1>4
  <2>3. QED
    BY <1>3, <1>7, <1>8, <1>9, <2>1, <2>2, RowWritten
<1>11. RefundTypeOK'
  <2>1. TypeOK'
    BY <1>1, Stutters DEF RInv, IInv
  <2>2. returned' \in [Payments -> Nat] /\ refundLock' \in [Payments -> SUBSET Calls]
    BY <1>1, <1>2, TypeParts
  <2>3. QED
    BY <1>5, <1>7, <1>10, <2>1, <2>2, TypeKept
<1>12. "approve_release" \in PlainPCs /\ "approve_release" \in ApprovingPCs
  BY DEF PlainPCs, CallPCs, ApprovingPCs
<1>13. CallInv(c)'
  BY <1>1, <1>2, <1>5, <1>10, <1>12, PlainCall DEF RInv, ApprovingPCs
<1>14. CASE refund[g].status = "PROCESSED"
  <2>1. call[c].pc # "idle" /\ returned' = returned /\ vars' = vars
        /\ refundLock' = refundLock
    BY <1>1
  <2>2. Processed(p)' \subseteq Processed(p)
    BY <1>10
  <2>3. \A q \in Payments : q # p => Processed(q)' = Processed(q) /\ returned'[q] = returned[q]
    BY <1>10, <2>1
  <2>4. mishaps'[p] # {}
    BY <1>7, <1>14
  <2>5. QED
    BY <1>4, <1>5, <1>10, <1>11, <1>13, <2>1, <2>2, <2>3, <2>4, EndsBadly
<1>15. CASE refund[g].status # "PROCESSED"
  <2>1. g \notin Processed(p)
    BY <1>15 DEF Processed
  <2>2. \A q \in Payments : Processed(q)' = Processed(q)
    BY <1>10, <2>1
  <2>3. \A q \in Payments : mishaps'[q] = {} => Approving'[q] \subseteq refundLock'[q]
    BY <1>1, <1>5, <1>10, SameLock DEF ApprovingPCs
  <2>4. LockInv'
    BY <1>1 DEF RInv, LockInv
  <2>5. call[c].pc \notin PaidPCs /\ vars' = vars
    BY <1>1 DEF PaidPCs
  <2>6. call'[c].pc \in PlainPCs
    BY <1>5, <1>12
  <2>7. QED
    BY <1>5, <1>8, <1>10, <1>11, <1>13, <2>2, <2>3, <2>4, <2>5, <2>6, QuietKeeps
<1>16. QED
  BY <1>14, <1>15

\* While nothing went wrong, one call is inside the lock.
LEMMA Alone ==
    ASSUME RInv, NEW p \in Payments, mishaps[p] = {},
           NEW c \in Calls, call[c].payment = p, call[c].pc \in ApprovingPCs
    PROVE  \A d \in Calls : call[d].payment = p /\ call[d].pc \in ApprovingPCs => d = c
<1>1. Approving[p] \subseteq refundLock[p]
  BY DEF RInv, CleanInv
<1>2. \A d \in Calls : call[d].payment = p /\ call[d].pc \in ApprovingPCs
                       => d \in refundLock[p]
  BY <1>1, InApproving
<1>3. QED
  BY <1>2 DEF RInv, LockInv

\* What the one call inside the lock has to leave behind.
LEMMA CleanStep ==
    ASSUME RInv, Grows, NEW p \in Payments, mishaps'[p] = {},
           NEW c \in Calls, call[c].payment = p, call[c].pc \in ApprovingPCs,
           call'[c].payment = p, call'[c].pc \in ApprovingPCs,
           \A d \in Calls : d # c => call'[d] = call[d],
           refundLock' = refundLock,
           NEW S, S = Processed(p)'
                      \cup IF call'[c].pc = "approve_record" THEN {call'[c].refund} ELSE {},
           returned'[p] = Sum(refund', S),
           returned'[p] <= Price + Epsilon,
           call'[c].pc = "approve_gateway"
           => /\ call'[c].already = Sum(refund', Processed(p)' \ {call'[c].refund})
              /\ call'[c].amount <= Price - call'[c].already + Epsilon,
           call'[c].pc = "approve_record"
           => /\ call'[c].refund \notin Processed(p)'
              /\ call'[c].already = Sum(refund', Processed(p)'),
           /\ call'[c].pc \notin PaidPCs
           /\ returned'[p] >= Price - Epsilon
           => payment'[p].status # "SUCCESS"
    PROVE  CleanInv(p)'
<1>1. mishaps[p] = {}
  BY DEF Grows
<1>2. \A d \in Calls : call'[d].payment = p /\ call'[d].pc \in ApprovingPCs => d = c
  BY <1>1, Alone
<1>3. c \in Approving'[p] /\ \A d \in Approving'[p] : d = c
  BY <1>2, InApproving DEF Approving
<1>4. Approving'[p] \subseteq refundLock'[p]
  <2>1. c \in refundLock[p]
    BY <1>1, InApproving DEF RInv, CleanInv
  <2>2. QED
    BY <1>3, <2>1
<1>5. S = Paid(p)'
  <2>1. \A d \in Calls : call'[d].pc = "approve_record" /\ call'[d].payment = p => d = c
    BY <1>2 DEF ApprovingPCs, PaidPCs
  <2>2. CASE call'[c].pc = "approve_record"
    BY <2>1, <2>2 DEF Paid
  <2>3. CASE call'[c].pc # "approve_record"
    BY <2>1, <2>3 DEF Paid
  <2>4. QED
    BY <2>2, <2>3
<1>6. QED
  BY <1>3, <1>4, <1>5 DEF CleanInv

LEMMA SumStepKeeps ==
    ASSUME RInv, NEW c \in Calls, ApproveSum(c)
    PROVE  RInv'
<1>1. /\ call[c].pc = "approve_sum"
      /\ UNCHANGED <<vars, refund, returned, refundLock, mishaps>>
  BY DEF ApproveSum
<1>2. RefundTypeOK /\ IInv' /\ SuccessInv' /\ payment' = payment
  BY <1>1, Stutters DEF RInv
<1>3. PICK p \in Payments : call[c].payment = p /\ Confirmed(p)
  BY <1>1 DEF RInv, CallInv
<1>4. PICK f \in RefundIds : /\ call[c].refund = f /\ refund[f].status # "ABSENT"
                             /\ refund[f].payment = p /\ refund[f].amount = call[c].amount
  BY <1>1, <1>3 DEF RInv, CallInv, ApprovingPCs
<1>5. /\ Paid(p) \in SUBSET RefundIds
      /\ Processed(p) \subseteq Paid(p)
      /\ \A g \in Paid(p) : refund[g].status # "ABSENT"
  BY PaidRows DEF RInv
<1>6. PICK already \in Nat : /\ already = Sum(refund, Processed(p) \ {f})
                             /\ already <= Sum(refund, Paid(p))
  <2>1. Processed(p) \ {f} \in SUBSET Paid(p)
    BY <1>5
  <2>2. /\ IsFiniteSet(Paid(p))
        /\ \A g \in Paid(p) : refund[g].amount \in Nat
    BY <1>2, <1>5, SomeRows
  <2>3. Sum(refund, Processed(p) \ {f}) \in Nat
    BY <1>2, <1>5, <2>1, SomeRows
  <2>4. Sum(refund, Processed(p) \ {f}) <= Sum(refund, Paid(p))
    BY <2>1, <2>2, SumLess
  <2>5. QED
    BY <2>3, <2>4
<1>7. PICK pc \in {"approve_release", "approve_gateway"} :
         /\ call' = [call EXCEPT ![c].already = already, ![c].pc = pc]
         /\ pc = "approve_gateway" => call[c].amount <= Price - already + Epsilon
  <2>1. cumulativeRefunded(p, f) = already
    BY <1>6 DEF cumulativeRefunded, Sum
  <2>2. call[c].amount \in Nat /\ already \in Nat /\ Price \in Nat
    BY <1>2, CallNumbers, PriceAssumption
  <2>3. call' = [call EXCEPT ![c].already = already,
                             ![c].pc = IF call[c].amount > Price - already + Epsilon
                                       THEN "approve_release" ELSE "approve_gateway"]
    BY <1>3, <1>4, <2>1 DEF ApproveSum
  <2>4. CASE call[c].amount > Price - already + Epsilon
    BY <2>3, <2>4
  <2>5. CASE ~(call[c].amount > Price - already + Epsilon)
    <3>1. call[c].amount <= Price - already + Epsilon
      BY <2>2, <2>5 DEF Epsilon
    <3>2. QED
      BY <2>3, <2>5, <3>1
  <2>6. QED
    BY <2>4, <2>5
<1>8. /\ call' \in [Calls -> CallType]
      /\ \A d \in Calls : d # c => call'[d] = call[d]
      /\ call'[c].pc = pc
      /\ call'[c].refund = call[c].refund
      /\ call'[c].payment = call[c].payment
      /\ call'[c].amount = call[c].amount
      /\ call'[c].already = already
  <2>1. call \in [Calls -> CallType]
    BY <1>2, TypeParts
  <2>2. pc \in CallPCs
    BY DEF CallPCs, ApprovingPCs
  <2>3. QED
    BY <1>7, <2>1, <2>2 DEF CallType
<1>9. Grows
  BY <1>1, <1>2, GrowsWith
<1>10. CASE pc = "approve_release"
  <2>1. CallInv(c)'
    BY <1>1, <1>2, <1>8, <1>9, <1>10, PlainCall
       DEF RInv, PlainPCs, CallPCs, ApprovingPCs
  <2>2. QED
    BY <1>1, <1>8, <1>10, <2>1, CallOnly DEF PlainPCs, CallPCs, ApprovingPCs, PaidPCs
<1>11. CASE pc = "approve_gateway"
  <2>1. /\ refund' = refund /\ returned' = returned /\ refundLock' = refundLock
        /\ mishaps' = mishaps
    BY <1>1
  <2>2. MoneyInv(p) /\ CleanInv(p)
    BY DEF RInv
  <2>3. RefundTypeOK'
    <3>1. /\ returned' \in [Payments -> Nat]
          /\ refundLock' \in [Payments -> SUBSET Calls]
          /\ mishaps' \in [Payments -> SUBSET Mishaps]
      BY <1>1, <1>2, TypeParts
    <3>2. QED
      BY <1>1, <1>8, <3>1, CallTyped
  <2>4. ~ByHand(p)' => already <= returned'[p]
    <3>1. ~ByHand(p)' => Sum(refund, Paid(p)) <= returned[p]
      BY <2>1, <2>2 DEF ByHand, MoneyInv
    <3>2. Sum(refund, Paid(p)) \in Nat /\ returned[p] \in Nat
      BY <1>2, <1>5, SomeRows, NumbersOf
    <3>3. QED
      BY <1>6, <2>1, <3>1, <3>2
  <2>5. Confirmed(p)'
    BY <1>3, <1>9, ConfirmedKept
  <2>6. CallInv(c)'
    BY <1>3, <1>4, <1>8, <1>11, <2>1, <2>4, <2>5 DEF CallInv, Confirmed, ByHand
  <2>7. /\ \A g \in RefundIds : RefundInv(g)'
        /\ \A q \in Payments : Processed(q)' = Processed(q)
    BY <1>9, <2>1, SameRows
  <2>8. Paid(p)' = Paid(p)
    <3>1. \A d \in Calls : call'[d].pc = "approve_record" <=> call[d].pc = "approve_record"
      BY <1>1, <1>8, <1>11
    <3>2. QED
      BY <1>8, <2>7, <3>1 DEF Paid
  <2>9. MoneyInv(p)'
    BY <1>2, <2>1, <2>2, <2>5, <2>8 DEF MoneyInv, ByHand
  <2>10. ASSUME mishaps'[p] = {} PROVE CleanInv(p)'
    <3>1. mishaps[p] = {} /\ call[c].pc \in ApprovingPCs /\ call'[c].pc \in ApprovingPCs
      BY <1>1, <1>8, <1>11, <2>1, <2>10 DEF ApprovingPCs
    <3>2. Paid(p) = Processed(p)
      BY <1>1, <1>3, <3>1, Alone DEF Paid, ApprovingPCs, PaidPCs
    <3>3. /\ returned'[p] = Sum(refund', Processed(p))
          /\ returned'[p] <= Price + Epsilon
      BY <2>1, <2>2, <3>1, <3>2 DEF CleanInv
    <3>4. \A d \in Approving[p] : call[d].pc \notin PaidPCs
      BY <1>1, <1>3, <3>1, Alone, InApproving DEF Approving, PaidPCs
    <3>5. returned'[p] >= Price - Epsilon => payment'[p].status # "SUCCESS"
      BY <1>2, <2>1, <2>2, <3>1, <3>4 DEF CleanInv
    <3>6. Processed(p) = Processed(p)'
                           \cup IF call'[c].pc = "approve_record"
                                THEN {call'[c].refund} ELSE {}
      BY <1>8, <1>11, <2>7
    <3>7. /\ call'[c].already = Sum(refund', Processed(p)' \ {call'[c].refund})
          /\ call'[c].amount <= Price - call'[c].already + Epsilon
      BY <1>4, <1>6, <1>7, <1>8, <1>11, <2>1, <2>7
    <3>8. QED
      BY <1>3, <1>8, <1>9, <1>11, <2>1, <2>10, <3>1, <3>3, <3>5, <3>6, <3>7, CleanStep
  <2>11. CleanInv(p)'
    BY <2>10 DEF CleanInv
  <2>12. \A q \in Payments : q # p => /\ Processed(q)' = Processed(q)
                                      /\ returned'[q] = returned[q]
                                      /\ payment'[q] = payment[q]
    BY <1>2, <2>1, <2>7
  <2>13. QED
    BY <1>2, <1>3, <1>8, <1>9, <2>1, <2>3, <2>6, <2>7, <2>9, <2>11, <2>12, OwnKeeps
<1>12. QED
  BY <1>10, <1>11

LEMMA GatewayKeeps ==
    ASSUME RInv, NEW c \in Calls, ApproveGateway(c)
    PROVE  RInv'
<1>1. call[c].pc = "approve_gateway" /\ UNCHANGED <<vars, refund, refundLock>>
  BY DEF ApproveGateway
<1>2. RefundTypeOK /\ IInv' /\ SuccessInv' /\ payment' = payment
  BY <1>1, Stutters DEF RInv
<1>3. PICK p \in Payments : call[c].payment = p /\ Confirmed(p)
  BY <1>1 DEF RInv, CallInv
<1>4. PICK f \in RefundIds : /\ call[c].refund = f /\ refund[f].status # "ABSENT"
                             /\ refund[f].payment = p /\ refund[f].amount = call[c].amount
  BY <1>1, <1>3 DEF RInv, CallInv, ApprovingPCs
<1>5. CASE Proceed(c, "approve_reject") /\ UNCHANGED <<returned, mishaps>>
  BY <1>1, <1>5, GoesOn DEF PlainPCs, CallPCs, ApprovingPCs, PaidPCs
<1>6. CASE /\ Pays(c)
           /\ Note(p, IF refund[f].status = "PROCESSED" THEN {"reapproved"} ELSE {})
           /\ Proceed(c, "approve_record")
  <2>1. /\ call' \in [Calls -> CallType]
        /\ \A d \in Calls : d # c => call'[d] = call[d]
        /\ call'[c].pc = "approve_record"
        /\ call'[c].refund = f
        /\ call'[c].payment = p
        /\ call'[c].amount = call[c].amount
        /\ call'[c].already = call[c].already
    BY <1>2, <1>3, <1>4, <1>6, ProceedCall DEF CallPCs, ApprovingPCs, PaidPCs
  <2>2. /\ returned' \in [Payments -> Nat]
        /\ returned'[p] = returned[p] + call[c].amount
        /\ \A q \in Payments : q # p => returned'[q] = returned[q]
        /\ \A q \in Payments : returned[q] <= returned'[q]
    BY <1>2, <1>3, <1>6, PaysParts
  <2>3. /\ mishaps' \in [Payments -> SUBSET Mishaps]
        /\ \A q \in Payments : mishaps[q] \subseteq mishaps'[q]
        /\ refund[f].status = "PROCESSED" => mishaps'[p] # {}
    <3>1. PICK what \in SUBSET Mishaps :
             /\ Note(p, what)
             /\ what = IF refund[f].status = "PROCESSED" THEN {"reapproved"} ELSE {}
      BY <1>6 DEF Mishaps
    <3>2. QED
      BY <1>2, <3>1, Noted
  <2>4. Grows
    BY <1>1, <1>2, <2>2, <2>3, GrowsPaying
  <2>5. RefundTypeOK'
    <3>1. refundLock' \in [Payments -> SUBSET Calls]
      BY <1>1, <1>2, TypeParts
    <3>2. QED
      BY <1>1, <2>1, <2>2, <2>3, <3>1, CallTyped
  <2>6. /\ \A g \in RefundIds : RefundInv(g)'
        /\ \A q \in Payments : Processed(q)' = Processed(q)
    BY <1>1, <2>4, SameRows
  <2>7. MoneyInv(p) /\ CleanInv(p) /\ CallInv(c)
    BY DEF RInv
  <2>8. /\ call[c].amount \in Nat /\ call[c].already \in Nat
        /\ returned[p] \in Nat /\ returned'[p] \in Nat
    BY <1>2, <2>2, CallNumbers, NumbersOf
  <2>9. Confirmed(p)'
    BY <1>3, <2>4, ConfirmedKept
  <2>10. ~ByHand(p)' => ~ByHand(p)
    BY <2>3 DEF ByHand
  <2>11. CallInv(c)'
    <3>1. ~ByHand(p) => call[c].already <= returned[p]
      BY <1>1, <1>3, <2>7 DEF CallInv
    <3>2. ~ByHand(p)' => call[c].already + call[c].amount <= returned'[p]
      BY <2>2, <2>8, <2>10, <3>1
    <3>3. refund' = refund
      BY <1>1
    <3>4. QED
      BY <1>4, <2>1, <2>9, <3>2, <3>3 DEF CallInv, Confirmed, ByHand
  <2>12. Paid(p)' = Paid(p) \cup {f}
    <3>1. \A d \in Calls : d # c => (call'[d].pc = "approve_record" <=> call[d].pc = "approve_record")
      BY <2>1
    <3>2. QED
      BY <1>1, <2>1, <2>6, <3>1 DEF Paid
  <2>13. /\ Paid(p) \in SUBSET RefundIds
         /\ IsFiniteSet(Paid(p))
         /\ \A g \in Paid(p) : refund[g].amount \in Nat
         /\ Sum(refund, Paid(p)) \in Nat
    BY <1>2, PaidRows, SomeRows DEF RInv
  <2>14. /\ f \in Paid(p) => Sum(refund', Paid(p)') = Sum(refund, Paid(p))
         /\ f \notin Paid(p)
            => Sum(refund', Paid(p)') = Sum(refund, Paid(p)) + call[c].amount
    <3>1. refund' = refund
      BY <1>1
    <3>2. CASE f \in Paid(p)
      <4>1. Paid(p)' = Paid(p)
        BY <2>12, <3>2
      <4>2. QED
        BY <3>1, <3>2, <4>1
    <3>3. CASE f \notin Paid(p)
      <4>1. Sum(refund, Paid(p) \cup {f}) = Sum(refund, Paid(p)) + refund[f].amount
        BY <1>4, <2>8, <2>13, <3>3, SumMore
      <4>2. QED
        BY <1>4, <2>12, <3>1, <3>3, <4>1
    <3>4. QED
      BY <3>2, <3>3
  <2>15. MoneyInv(p)'
    <3>1. ~ByHand(p)' => Sum(refund', Paid(p)') <= returned'[p]
      BY <2>2, <2>7, <2>8, <2>10, <2>13, <2>14 DEF MoneyInv
    <3>2. ~ByHand(p)' /\ payment'[p].status = "REFUNDED" => Price - Epsilon <= returned'[p]
      BY <1>2, <2>2, <2>7, <2>8, <2>10, NumbersOf DEF MoneyInv
    <3>3. QED
      BY <2>9, <3>1, <3>2 DEF MoneyInv
  <2>16. ASSUME mishaps'[p] = {} PROVE CleanInv(p)'
    <3>1. mishaps[p] = {} /\ refund[f].status # "PROCESSED"
      BY <2>3, <2>4, <2>16 DEF Grows
    <3>2. call[c].pc \in ApprovingPCs /\ call'[c].pc \in ApprovingPCs /\ call'[c].pc \in PaidPCs
      BY <1>1, <2>1 DEF ApprovingPCs, PaidPCs
    <3>3. Paid(p) = Processed(p)
      BY <1>1, <1>3, <3>1, <3>2, Alone DEF Paid, ApprovingPCs, PaidPCs
    <3>4. f \notin Processed(p) /\ Processed(p) \ {f} = Processed(p)
      BY <3>1 DEF Processed
    <3>5. c \in Approving[p]
      BY <1>3, <3>2, InApproving
    <3>6. /\ call[c].already = Sum(refund, Processed(p))
          /\ call[c].amount <= Price - call[c].already + Epsilon
          /\ returned[p] = Sum(refund, Processed(p))
      BY <1>1, <1>4, <2>7, <3>1, <3>3, <3>4, <3>5 DEF CleanInv
    <3>7. returned'[p] = Sum(refund', Paid(p)')
      BY <2>2, <2>14, <3>3, <3>4, <3>6
    <3>8. returned'[p] <= Price + Epsilon
      BY <2>2, <2>8, <3>6, PriceAssumption DEF Epsilon
    <3>9. Paid(p)' = Processed(p)' \cup IF call'[c].pc = "approve_record"
                                         THEN {call'[c].refund} ELSE {}
      BY <2>1, <2>6, <2>12, <3>3
    <3>10. /\ call'[c].refund \notin Processed(p)'
           /\ call'[c].already = Sum(refund', Processed(p)')
      BY <1>1, <2>1, <2>6, <3>4, <3>6
    <3>11. refundLock' = refundLock
      BY <1>1
    <3>12. QED
      BY <1>3, <2>1, <2>4, <2>16, <3>2, <3>7, <3>8, <3>9, <3>10, <3>11, CleanStep
  <2>17. CleanInv(p)'
    BY <2>16 DEF CleanInv
  <2>18. \A q \in Payments : q # p => /\ Processed(q)' = Processed(q)
                                      /\ returned'[q] = returned[q]
                                      /\ payment'[q] = payment[q]
    BY <1>2, <2>2, <2>6
  <2>19. QED
    BY <1>1, <1>2, <1>3, <2>1, <2>4, <2>5, <2>6, <2>11, <2>15, <2>17, <2>18, OwnKeeps
<1>7. QED
  BY <1>3, <1>4, <1>5, <1>6 DEF ApproveGateway

LEMMA RecordKeeps ==
    ASSUME RInv, NEW c \in Calls, ApproveRecord(c)
    PROVE  RInv'
<1>1. call[c].pc = "approve_record"
      /\ UNCHANGED <<vars, returned, refundLock, mishaps>>
  BY DEF ApproveRecord
<1>2. RefundTypeOK /\ IInv' /\ SuccessInv' /\ payment' = payment /\ invoiced' = invoiced
  BY <1>1, Stutters DEF RInv
<1>3. PICK p \in Payments : call[c].payment = p /\ Confirmed(p)
  BY <1>1 DEF RInv, CallInv
<1>4. PICK f \in RefundIds : /\ call[c].refund = f /\ refund[f].status # "ABSENT"
                             /\ refund[f].payment = p /\ refund[f].amount = call[c].amount
  BY <1>1, <1>3 DEF RInv, CallInv, ApprovingPCs, PaidPCs
<1>5. PICK pc \in {"approve_close", "approve_release"} :
         /\ Proceed(c, pc)
         /\ pc = "approve_close" <=> FullyRefunded(c)
  BY DEF ApproveRecord
<1>6. /\ call' \in [Calls -> CallType]
      /\ \A d \in Calls : d # c => call'[d] = call[d]
      /\ call'[c].pc = pc
      /\ call'[c].refund = f
      /\ call'[c].payment = p
      /\ call'[c].amount = call[c].amount
      /\ call'[c].already = call[c].already
  BY <1>2, <1>3, <1>4, <1>5, ProceedCall DEF CallPCs, ApprovingPCs, PaidPCs
<1>7. /\ refund' \in [RefundIds -> RefundType]
      /\ Grows
      /\ \A g \in RefundIds : RefundInv(g)'
      /\ \A q : q # p => Processed(q)' = Processed(q)
      /\ Processed(p)' = Processed(p) \cup {f}
  <2>1. "PROCESSED" \in RefundStatuses \ {"ABSENT"}
    BY DEF RefundStatuses
  <2>2. refund' = [refund EXCEPT ![f].status = "PROCESSED"]
    BY <1>4 DEF ApproveRecord
  <2>3. returned' = returned /\ \A q \in Payments : mishaps[q] \subseteq mishaps'[q]
    BY <1>1
  <2>4. QED
    BY <1>2, <1>4, <2>1, <2>2, <2>3, RowWritten
<1>8. RefundTypeOK'
  <2>1. TypeOK'
    BY <1>2 DEF IInv
  <2>2. /\ returned' \in [Payments -> Nat]
        /\ refundLock' \in [Payments -> SUBSET Calls]
        /\ mishaps' \in [Payments -> SUBSET Mishaps]
    BY <1>1, <1>2, TypeParts
  <2>3. QED
    BY <1>6, <1>7, <2>1, <2>2, TypeKept
<1>9. MoneyInv(p) /\ CleanInv(p) /\ CallInv(c)
  BY DEF RInv
<1>10. Confirmed(p)'
  BY <1>3, <1>7, ConfirmedKept
<1>11. /\ call[c].amount \in Nat /\ call[c].already \in Nat /\ returned[p] \in Nat
       /\ returned' = returned /\ mishaps' = mishaps /\ refundLock' = refundLock
  BY <1>1, <1>2, CallNumbers, NumbersOf
<1>12. ~ByHand(p)' => call[c].already + call[c].amount <= returned[p]
  BY <1>1, <1>3, <1>9, <1>11 DEF CallInv, ByHand
<1>13. CallInv(c)'
  <2>1. ~ByHand(p)' /\ pc = "approve_close" => Price - Epsilon <= returned'[p]
    BY <1>5, <1>11, <1>12, PriceAssumption DEF FullyRefunded, Epsilon
  <2>2. /\ refund'[f].status # "ABSENT" /\ refund'[f].payment = p
        /\ refund'[f].amount = call[c].amount
    BY <1>4, <1>7 DEF Grows
  <2>3. QED
    BY <1>6, <1>10, <2>1, <2>2 DEF CallInv, Confirmed, ByHand
<1>14. Paid(p)' = Paid(p) /\ f \in Paid(p)
  <2>1. \A d \in Calls : d # c => call'[d] = call[d]
    BY <1>6
  <2>2. call'[c].pc # "approve_record"
    BY <1>6
  <2>3. f \in Paid(p)
    BY <1>1, <1>3, <1>4 DEF Paid
  <2>4. QED
    BY <1>1, <1>3, <1>4, <1>7, <2>1, <2>2, <2>3 DEF Paid
<1>15. Sum(refund', Paid(p)) = Sum(refund, Paid(p)) /\ Paid(p) \in SUBSET RefundIds
  BY <1>2, <1>7, PaidRows, SumKept DEF RInv
<1>16. MoneyInv(p)'
  BY <1>2, <1>9, <1>10, <1>11, <1>14, <1>15 DEF MoneyInv, ByHand
<1>17. ASSUME mishaps'[p] = {} PROVE CleanInv(p)'
  <2>1. mishaps[p] = {} /\ call[c].pc \in ApprovingPCs /\ call'[c].pc \in ApprovingPCs
    BY <1>1, <1>6, <1>11, <1>17 DEF ApprovingPCs, PaidPCs
  <2>2. c \in Approving[p]
    BY <1>3, <2>1, InApproving
  <2>3. /\ f \notin Processed(p)
        /\ call[c].already = Sum(refund, Processed(p))
        /\ returned[p] = Sum(refund, Paid(p))
        /\ returned[p] <= Price + Epsilon
    BY <1>1, <1>4, <1>9, <2>1, <2>2 DEF CleanInv
  <2>4. Paid(p) = Processed(p) \cup {f}
    BY <1>1, <1>3, <1>4, <2>1, Alone DEF Paid, ApprovingPCs, PaidPCs
  <2>5. returned[p] = call[c].already + call[c].amount
    <3>1. Processed(p) \in SUBSET RefundIds
      BY DEF Processed
    <3>2. /\ IsFiniteSet(Processed(p))
          /\ \A g \in Processed(p) : refund[g].amount \in Nat
      BY <1>2, <3>1, SomeRows
    <3>3. Sum(refund, Processed(p) \cup {f}) = Sum(refund, Processed(p)) + refund[f].amount
      BY <1>4, <1>11, <2>3, <3>2, SumMore
    <3>4. QED
      BY <1>4, <2>3, <2>4, <3>3
  <2>6. Paid(p) = Processed(p)' \cup IF call'[c].pc = "approve_record"
                                     THEN {call'[c].refund} ELSE {}
    BY <1>6, <1>7, <2>4
  <2>7. call'[c].pc \notin PaidPCs /\ returned'[p] >= Price - Epsilon
        => payment'[p].status # "SUCCESS"
    <3>1. call'[c].pc \notin PaidPCs => ~FullyRefunded(c)
      BY <1>5, <1>6 DEF PaidPCs
    <3>2. QED
      BY <1>11, <2>5, <3>1 DEF FullyRefunded
  <2>8. returned'[p] = Sum(refund', Paid(p)) /\ returned'[p] <= Price + Epsilon
    BY <1>11, <1>15, <2>3
  <2>9. call'[c].pc # "approve_gateway" /\ call'[c].pc # "approve_record"
    BY <1>6
  <2>10. QED
    BY <1>3, <1>6, <1>7, <1>11, <1>17, <2>1, <2>6, <2>7, <2>8, <2>9, CleanStep
<1>18. CleanInv(p)'
  BY <1>17 DEF CleanInv
<1>19. \A q \in Payments : q # p => /\ Processed(q)' = Processed(q)
                                    /\ returned'[q] = returned[q]
                                    /\ payment'[q] = payment[q]
  BY <1>2, <1>7, <1>11
<1>20. QED
  BY <1>2, <1>3, <1>6, <1>7, <1>8, <1>11, <1>13, <1>16, <1>18, <1>19, OwnKeeps

\* Checkout does not mind that a payment becomes REFUNDED.
LEMMA CloseIInv ==
    ASSUME IInv, NEW p \in Payments, payment[p].status # "ABSENT",
           payment' = [payment EXCEPT ![p].status = "REFUNDED"],
           UNCHANGED <<order, assigned, session, invoiced, confirmations,
                       verifyLock, req>>
    PROVE  IInv'
<1> TypeOK
  BY DEF IInv
<1>1. /\ payment' \in [Payments -> Row]
      /\ \A q \in Payments : q # p => payment'[q] = payment[q]
      /\ payment'[p].status = "REFUNDED"
      /\ payment'[p].order = payment[p].order
      /\ payment'[p].ref = payment[p].ref
  BY DEF TypeOK, Row, PaymentStatuses
<1>2. TypeOK'
  BY <1>1 DEF TypeOK
<1>3. Kept
  BY <1>1 DEF Kept
<1>4. RowsInv' /\ SessionsInv'
  BY <1>1 DEF IInv, RowsInv, SessionsInv
<1>5. \A r \in Requests : JobInv(r)'
  BY <1>3, JobKept
<1>6. OpenersInv'
  BY DEF IInv, OpenersInv
<1>7. BooksInv'
  BY <1>3, FundsKept DEF IInv, BooksInv
<1>8. SuccessIsFunded' /\ FlaggedHoldsMoney'
  BY <1>1, <1>3, FundsKept DEF IInv, SuccessIsFunded, FlaggedHoldsMoney
<1>9. OneSuccessPerOrder'
  BY <1>1 DEF IInv, OneSuccessPerOrder
<1>10. QED
  BY <1>2, <1>4, <1>5, <1>6, <1>7, <1>8, <1>9 DEF IInv

LEMMA OrderIInv ==
    ASSUME IInv, NEW o \in Orders, order' = [order EXCEPT ![o] = "REFUNDED"],
           UNCHANGED <<assigned, payment, session, invoiced, confirmations,
                       verifyLock, req>>
    PROVE  IInv'
<1>1. TypeOK'
  BY DEF IInv, TypeOK, OrderStatuses
<1>2. \A r \in Requests : JobInv(r)'
  BY ReadOnly, JobKept
<1>3. OpenersInv'
  BY DEF IInv, OpenersInv
<1>4. QED
  BY <1>1, <1>2, <1>3, ReadOnly DEF IInv

LEMMA CloseKeeps ==
    ASSUME RInv, NEW c \in Calls, ApproveClose(c)
    PROVE  RInv'
<1>1. /\ call[c].pc = "approve_close"
      /\ Proceed(c, "approve_order")
      /\ UNCHANGED <<order, assigned, session, invoiced, confirmations,
                     verifyLock, req, refund, returned, refundLock, mishaps>>
  BY DEF ApproveClose
<1>2. RefundTypeOK /\ IInv /\ TypeOK
  BY DEF RInv, IInv
<1>3. PICK p \in Payments : call[c].payment = p /\ Confirmed(p)
  BY <1>1 DEF RInv, CallInv
<1>4. payment' = [payment EXCEPT ![p].status = "REFUNDED"]
  BY <1>3 DEF ApproveClose
<1>5. /\ \A q \in Payments : q # p => payment'[q] = payment[q]
      /\ payment'[p].status = "REFUNDED"
      /\ payment'[p].order = payment[p].order
  BY <1>2, <1>4 DEF TypeOK, Row
<1>6. IInv'
  BY <1>1, <1>2, <1>3, <1>4, CloseIInv DEF Confirmed
<1>7. SuccessInv'
  BY <1>1, <1>5 DEF RInv, SuccessInv
<1>8. /\ call' \in [Calls -> CallType]
      /\ \A d \in Calls : d # c => call'[d] = call[d]
      /\ call'[c].pc = "approve_order"
      /\ call'[c].refund = call[c].refund
      /\ call'[c].payment = p
      /\ call'[c].amount = call[c].amount
  BY <1>1, <1>2, <1>3, ProceedCall DEF CallPCs, ApprovingPCs
<1>9. Grows
  BY <1>1, <1>2, <1>5, NumbersOf DEF Grows
<1>10. RefundTypeOK'
  <2>1. TypeOK'
    BY <1>6 DEF IInv
  <2>2. /\ refund' \in [RefundIds -> RefundType]
        /\ returned' \in [Payments -> Nat]
        /\ refundLock' \in [Payments -> SUBSET Calls]
        /\ mishaps' \in [Payments -> SUBSET Mishaps]
    BY <1>1, <1>2, TypeParts
  <2>3. QED
    BY <1>8, <2>1, <2>2, TypeKept
<1>11. CallInv(c)'
  BY <1>1, <1>2, <1>3, <1>8, <1>9, PlainCall DEF RInv, PlainPCs, CallPCs, ApprovingPCs, PaidPCs
<1>12. /\ \A g \in RefundIds : RefundInv(g)'
       /\ \A q \in Payments : Processed(q)' = Processed(q)
  BY <1>1, <1>9, SameRows
<1>13. MoneyInv(p) /\ CleanInv(p) /\ CallInv(c)
  BY DEF RInv
<1>14. /\ refund' = refund /\ returned' = returned /\ refundLock' = refundLock
       /\ mishaps' = mishaps
  BY <1>1
<1>15. Paid(p)' = Paid(p)
  <2>1. \A d \in Calls : d # c => call'[d] = call[d]
    BY <1>8
  <2>2. call[c].pc # "approve_record" /\ call'[c].pc # "approve_record"
    BY <1>1, <1>8
  <2>3. QED
    BY <1>12, <2>1, <2>2 DEF Paid
<1>16. MoneyInv(p)'
  <2>1. Confirmed(p)'
    BY <1>3, <1>9, ConfirmedKept
  <2>2. ~ByHand(p) => Price - Epsilon <= returned[p]
    BY <1>1, <1>3, <1>13 DEF CallInv
  <2>3. QED
    BY <1>13, <1>14, <1>15, <2>1, <2>2 DEF MoneyInv, ByHand
<1>17. ASSUME mishaps'[p] = {} PROVE CleanInv(p)'
  <2>1. mishaps[p] = {} /\ call[c].pc \in ApprovingPCs /\ call'[c].pc \in ApprovingPCs
    BY <1>1, <1>8, <1>14, <1>17 DEF ApprovingPCs, PaidPCs
  <2>2. Paid(p) = Processed(p)
    BY <1>1, <1>3, <2>1, Alone DEF Paid, ApprovingPCs, PaidPCs
  <2>3. returned'[p] = Sum(refund', Processed(p)) /\ returned'[p] <= Price + Epsilon
    BY <1>13, <1>14, <2>1, <2>2 DEF CleanInv
  <2>4. Processed(p) = Processed(p)' \cup IF call'[c].pc = "approve_record"
                                          THEN {call'[c].refund} ELSE {}
    BY <1>8, <1>12
  <2>5. /\ call'[c].pc # "approve_gateway" /\ call'[c].pc # "approve_record"
        /\ payment'[p].status # "SUCCESS"
    BY <1>5, <1>8
  <2>6. QED
    BY <1>3, <1>8, <1>9, <1>14, <1>17, <2>1, <2>3, <2>4, <2>5, CleanStep
<1>18. CleanInv(p)'
  BY <1>17 DEF CleanInv
<1>19. \A q \in Payments : q # p => /\ Processed(q)' = Processed(q)
                                    /\ returned'[q] = returned[q]
                                    /\ payment'[q] = payment[q]
  BY <1>5, <1>12, <1>14
<1>20. QED
  BY <1>3, <1>6, <1>7, <1>8, <1>9, <1>10, <1>11, <1>12, <1>14, <1>16, <1>18, <1>19, OwnKeeps

\* What is left of a step that moves no money, of checkout or of refunds.
LEMMA AllPlain ==
    ASSUME RInv, IInv', SuccessInv', RefundTypeOK', Grows, LockInv',
           \A f \in RefundIds : RefundInv(f)',
           \A c \in Calls : CallInv(c)',
           returned' = returned,
           \A p \in Payments :
              /\ Processed(p)' = Processed(p)
              /\ payment'[p].status = "REFUNDED" => payment[p].status = "REFUNDED"
              /\ payment'[p].status = "SUCCESS" => payment[p].status = "SUCCESS" \/ ~Confirmed(p)
              /\ mishaps'[p] = {} => Approving'[p] \subseteq refundLock'[p],
           \A d \in Calls : \/ call'[d] = call[d]
                            \/ call'[d].pc \in PlainPCs /\ call[d].pc \notin PaidPCs
    PROVE  RInv'
<1>1. ASSUME NEW p \in Payments PROVE MoneyInv(p)' /\ CleanInv(p)'
  <2>1. \A d \in Calls : call'[d] = call[d] \/ call'[d].payment # p \/ call'[d].pc \in PlainPCs
    OBVIOUS
  <2>2. \A d \in Calls : call[d].pc \in PaidPCs /\ call[d].payment = p => call'[d] = call[d]
    OBVIOUS
  <2>3. QED
    BY <2>1, <2>2, PlainKeeps
<1>2. QED
  BY <1>1 DEF RInv

LEMMA OrderStepKeeps ==
    ASSUME RInv, NEW c \in Calls, ApproveOrderWrite(c)
    PROVE  RInv'
<1>1. /\ call[c].pc = "approve_order_write"
      /\ Proceed(c, "approve_release")
      /\ UNCHANGED <<assigned, payment, session, invoiced, confirmations,
                     verifyLock, req, refund, returned, refundLock, mishaps>>
  BY DEF ApproveOrderWrite
<1>2. RefundTypeOK /\ IInv
  BY DEF RInv
<1>3. PICK p \in Payments : call[c].payment = p /\ Confirmed(p)
  BY <1>1 DEF RInv, CallInv
<1>4. payment[p].order \in Orders
  BY <1>2, <1>3 DEF IInv, RowsInv, Confirmed
<1>5. IInv'
  BY <1>1, <1>2, <1>3, <1>4, OrderIInv DEF ApproveOrderWrite
<1>6. SuccessInv' /\ LockInv'
  BY <1>1 DEF RInv, SuccessInv, LockInv
<1>7. /\ call' \in [Calls -> CallType]
      /\ \A d \in Calls : d # c => call'[d] = call[d]
      /\ call'[c].pc = "approve_release"
      /\ call'[c].refund = call[c].refund
      /\ call'[c].payment = call[c].payment
      /\ call'[c].amount = call[c].amount
  BY <1>1, <1>2, ProceedCall DEF CallPCs, ApprovingPCs
<1>8. Grows
  BY <1>1, <1>2, NumbersOf DEF Grows
<1>9. RefundTypeOK'
  <2>1. TypeOK'
    BY <1>5 DEF IInv
  <2>2. /\ refund' \in [RefundIds -> RefundType]
        /\ returned' \in [Payments -> Nat]
        /\ refundLock' \in [Payments -> SUBSET Calls]
        /\ mishaps' \in [Payments -> SUBSET Mishaps]
    BY <1>1, <1>2, TypeParts
  <2>3. QED
    BY <1>7, <2>1, <2>2, TypeKept
<1>10. call'[c].pc \in PlainPCs /\ call[c].pc \notin PaidPCs /\ call[c].pc \in ApprovingPCs
  BY <1>1, <1>7 DEF PlainPCs, CallPCs, ApprovingPCs, PaidPCs
<1>11. ASSUME NEW d \in Calls PROVE CallInv(d)'
  <2>1. CallInv(d)
    BY DEF RInv
  <2>2. CASE d = c
    BY <1>1, <1>2, <1>7, <1>8, <1>10, <2>1, <2>2, PlainCall
  <2>3. CASE d # c
    BY <1>2, <1>7, <1>8, <1>9, <2>1, <2>3, CallKept
  <2>4. QED
    BY <2>2, <2>3
<1>12. /\ \A f \in RefundIds : RefundInv(f)'
       /\ \A q \in Payments : Processed(q)' = Processed(q)
  BY <1>1, <1>8, SameRows
<1>13. \A q \in Payments : mishaps'[q] = {} => Approving'[q] \subseteq refundLock'[q]
  BY <1>1, <1>7, <1>8, <1>10, SameLock
<1>14. returned' = returned /\ payment' = payment
  BY <1>1
<1>15. QED
  BY <1>5, <1>6, <1>7, <1>8, <1>9, <1>10, <1>11, <1>12, <1>13, <1>14, AllPlain

\* No call takes part: every call stays, and inside the locks it was inside.
LEMMA CallsStay ==
    ASSUME RInv, RefundTypeOK', Grows, call' = call
    PROVE  /\ \A c \in Calls : CallInv(c)'
           /\ \A q \in Payments :
                 mishaps'[q] = {} => /\ Approving'[q] \subseteq refundLock[q]
                                     /\ Approving'[q] = Approving[q]
<1>1. \A c \in Calls : CallInv(c)'
  BY CallKept DEF RInv
<1>2. ASSUME NEW q \in Payments, mishaps'[q] = {}
      PROVE  /\ Approving'[q] \subseteq refundLock[q]
             /\ Approving'[q] = Approving[q]
  <2>1. mishaps[q] = {}
    BY <1>2 DEF Grows
  <2>2. Approving[q] \subseteq refundLock[q]
    BY <2>1 DEF RInv, CleanInv
  <2>3. Approving'[q] = Approving[q]
    BY DEF Approving
  <2>4. QED
    BY <2>2, <2>3
<1>3. QED
  BY <1>1, <1>2

LEMMA ExpiresKeeps ==
    ASSUME RInv, NEW p \in Payments, RefundLockExpires(p)
    PROVE  RInv'
<1>1. /\ UNCHANGED <<vars, refund, returned, call>>
      /\ refundLock' = [refundLock EXCEPT ![p] = {}]
      /\ Note(p, IF refundLock[p] \cap Approving[p] # {} THEN {"interrupted"} ELSE {})
  BY DEF RefundLockExpires, RefundLocks!Expire
<1>2. RefundTypeOK /\ IInv' /\ SuccessInv' /\ payment' = payment
  BY <1>1, Stutters DEF RInv
<1>3. /\ refundLock' \in [Payments -> SUBSET Calls]
      /\ refundLock'[p] = {}
      /\ \A q \in Payments : q # p => refundLock'[q] = refundLock[q]
  BY <1>1, <1>2, TypeParts
<1>4. /\ mishaps' \in [Payments -> SUBSET Mishaps]
      /\ \A q \in Payments : mishaps[q] \subseteq mishaps'[q]
      /\ refundLock[p] \cap Approving[p] # {} => mishaps'[p] # {}
  <2>1. PICK what \in SUBSET Mishaps :
           /\ Note(p, what)
           /\ what = IF refundLock[p] \cap Approving[p] # {} THEN {"interrupted"} ELSE {}
    BY <1>1 DEF Mishaps
  <2>2. QED
    BY <1>2, <2>1, Noted
<1>5. Grows
  BY <1>1, <1>2, <1>4, GrowsWith
<1>6. RefundTypeOK'
  <2>1. returned' \in [Payments -> Nat] /\ call' \in [Calls -> CallType]
    BY <1>1, <1>2, TypeParts
  <2>2. QED
    BY <1>1, <1>3, <1>4, <2>1, CallTyped
<1>7. /\ \A c \in Calls : CallInv(c)'
      /\ \A q \in Payments :
            mishaps'[q] = {} => /\ Approving'[q] \subseteq refundLock[q]
                                /\ Approving'[q] = Approving[q]
  BY <1>1, <1>5, <1>6, CallsStay
<1>8. ASSUME NEW q \in Payments, mishaps'[q] = {}
      PROVE  Approving'[q] \subseteq refundLock'[q]
  <2>1. CASE q = p
    <3>1. refundLock[p] \cap Approving[p] = {}
      BY <1>4, <1>8, <2>1
    <3>2. QED
      BY <1>7, <1>8, <2>1, <3>1
  <2>2. CASE q # p
    BY <1>3, <1>7, <1>8, <2>2
  <2>3. QED
    BY <2>1, <2>2
<1>9. LockInv'
  BY <1>3 DEF RInv, LockInv
<1>10. /\ \A f \in RefundIds : RefundInv(f)'
       /\ \A q \in Payments : Processed(q)' = Processed(q)
  BY <1>1, <1>5, SameRows
<1>11. returned' = returned /\ call' = call
  BY <1>1
<1>12. QED
  BY <1>2, <1>5, <1>6, <1>7, <1>8, <1>9, <1>10, <1>11, AllPlain

LEMMA HandKeeps ==
    ASSUME RInv, NEW f \in RefundIds, NEW status \in HandStatuses, WriteByHand(f, status)
    PROVE  RInv'
<1>1. /\ refund[f].status # "ABSENT"
      /\ refund' = [refund EXCEPT ![f].status = status]
      /\ UNCHANGED <<vars, returned, refundLock, call>>
  BY DEF WriteByHand
<1>2. /\ RefundTypeOK /\ IInv' /\ SuccessInv'
      /\ payment' = payment /\ invoiced' = invoiced
  BY <1>1, Stutters DEF RInv
<1>3. PICK p \in Payments : refund[f].payment = p /\ Confirmed(p)
  BY <1>1 DEF RInv, RefundInv
<1>4. PICK what \in SUBSET Mishaps :
         /\ Note(p, what)
         /\ what = IF (status = "PROCESSED") # (refund[f].status = "PROCESSED")
                   THEN {"by_hand"} ELSE {}
  BY <1>3 DEF Mishaps, WriteByHand
<1>5. /\ mishaps' \in [Payments -> SUBSET Mishaps]
      /\ \A q \in Payments : mishaps[q] \subseteq mishaps'[q]
      /\ what \subseteq mishaps'[p]
  BY <1>2, <1>4, Noted
<1>6. status \in RefundStatuses \ {"ABSENT"}
  BY HandStatusesAssumption DEF RefundStatuses
<1>7. /\ refund' \in [RefundIds -> RefundType]
      /\ Grows
      /\ \A g \in RefundIds : RefundInv(g)'
      /\ \A q : q # p => Processed(q)' = Processed(q)
      /\ status # "PROCESSED" => Processed(p)' = Processed(p) \ {f}
      /\ status = "PROCESSED" => Processed(p)' = Processed(p) \cup {f}
  <2>1. returned' = returned
    BY <1>1
  <2>2. QED
    BY <1>1, <1>2, <1>3, <1>5, <1>6, <2>1, RowWritten
<1>8. RefundTypeOK'
  <2>1. TypeOK'
    BY <1>2 DEF IInv
  <2>2. /\ returned' \in [Payments -> Nat]
        /\ refundLock' \in [Payments -> SUBSET Calls]
        /\ call' \in [Calls -> CallType]
    BY <1>1, <1>2, TypeParts
  <2>3. QED
    BY <1>5, <1>7, <2>1, <2>2, TypeKept
<1>9. /\ returned' = returned /\ refundLock' = refundLock /\ call' = call
  BY <1>1
<1>10. /\ \A c \in Calls : CallInv(c)'
       /\ \A q \in Payments : mishaps'[q] = {} => Approving'[q] \subseteq refundLock'[q]
  BY <1>7, <1>8, <1>9, CallsStay
<1>11. ASSUME NEW q \in Payments, Processed(q)' = Processed(q)
       PROVE  MoneyInv(q)' /\ CleanInv(q)'
  BY <1>2, <1>7, <1>8, <1>9, <1>10, <1>11, PlainKeeps
<1>12. MoneyInv(p)' /\ CleanInv(p)'
  <2>1. CASE (status = "PROCESSED") # (refund[f].status = "PROCESSED")
    <3>1. "by_hand" \in mishaps'[p]
      BY <1>4, <1>5, <2>1
    <3>2. Confirmed(p)'
      BY <1>3, <1>7, ConfirmedKept
    <3>3. QED
      BY <3>1, <3>2 DEF MoneyInv, CleanInv, ByHand
  <2>2. CASE status = "PROCESSED" /\ refund[f].status = "PROCESSED"
    <3>1. f \in Processed(p)
      BY <1>3, <2>2 DEF Processed
    <3>2. Processed(p)' = Processed(p)
      BY <1>7, <2>2, <3>1
    <3>3. QED
      BY <1>11, <3>2
  <2>3. CASE status # "PROCESSED" /\ refund[f].status # "PROCESSED"
    <3>1. f \notin Processed(p)
      BY <2>3 DEF Processed
    <3>2. Processed(p)' = Processed(p)
      BY <1>7, <2>3, <3>1
    <3>3. QED
      BY <1>11, <3>2
  <2>4. QED
    BY <2>1, <2>2, <2>3
<1>13. \A q \in Payments : MoneyInv(q)' /\ CleanInv(q)'
  BY <1>7, <1>11, <1>12
<1>14. LockInv'
  BY <1>9 DEF RInv, LockInv
<1>15. QED
  BY <1>2, <1>7, <1>8, <1>10, <1>13, <1>14 DEF RInv

LEMMA CheckoutKeeps ==
    ASSUME RInv, [Next]_vars, UNCHANGED refundVars
    PROVE  RInv'
<1>1. /\ refund' = refund /\ returned' = returned /\ refundLock' = refundLock
      /\ call' = call /\ mishaps' = mishaps
  BY DEF refundVars
<1>2. RefundTypeOK /\ IInv /\ SuccessInv
  BY DEF RInv
<1>3. IInv'
  BY <1>2, NextIInv
<1>4. Moves
  BY <1>2, CheckoutMoves
<1>5. SuccessInv'
  BY <1>4 DEF Moves, SuccessInv
<1>6. Grows
  BY <1>1, <1>2, <1>4, NumbersOf DEF Moves, Grows
<1>7. RefundTypeOK'
  <2>1. TypeOK'
    BY <1>3 DEF IInv
  <2>2. /\ refund' \in [RefundIds -> RefundType]
        /\ returned' \in [Payments -> Nat]
        /\ refundLock' \in [Payments -> SUBSET Calls]
        /\ call' \in [Calls -> CallType]
        /\ mishaps' \in [Payments -> SUBSET Mishaps]
    BY <1>1, <1>2, TypeParts
  <2>3. QED
    BY <2>1, <2>2, TypeKept
<1>8. /\ \A c \in Calls : CallInv(c)'
      /\ \A q \in Payments : mishaps'[q] = {} => Approving'[q] \subseteq refundLock'[q]
  BY <1>1, <1>6, <1>7, CallsStay
<1>9. /\ \A f \in RefundIds : RefundInv(f)'
      /\ \A q \in Payments : Processed(q)' = Processed(q)
  BY <1>1, <1>6, SameRows
<1>10. LockInv'
  BY <1>1 DEF RInv, LockInv
<1>11. ASSUME NEW q \in Payments
       PROVE  /\ payment'[q].status = "REFUNDED" => payment[q].status = "REFUNDED"
              /\ payment'[q].status = "SUCCESS"
                 => payment[q].status = "SUCCESS" \/ ~Confirmed(q)
  BY <1>4 DEF Moves, Confirmed
<1>12. QED
  BY <1>1, <1>3, <1>5, <1>6, <1>7, <1>8, <1>9, <1>10, <1>11, AllPlain

-----------------------------------------------------------------------------
LEMMA InitRInv == RefundInit => RInv
<1> SUFFICES ASSUME RefundInit PROVE RInv
  OBVIOUS
<1>1. IInv
  BY InitIInv DEF RefundInit
<1>2. \A p \in Payments : payment[p].status = "ABSENT"
  BY DEF RefundInit, Init, NoRow
<1>3. /\ \A f \in RefundIds : refund[f] = NoRefund
      /\ \A p \in Payments : returned[p] = 0 /\ refundLock[p] = {} /\ mishaps[p] = {}
      /\ \A c \in Calls : call[c] = NoCall
  BY DEF RefundInit
<1>4. RefundTypeOK
  <2>1. refund \in [RefundIds -> RefundType]
    BY DEF RefundInit, NoRefund, RefundType, RefundStatuses
  <2>2. /\ returned \in [Payments -> Nat]
        /\ refundLock \in [Payments -> SUBSET Calls]
        /\ call \in [Calls -> CallType]
        /\ mishaps \in [Payments -> SUBSET Mishaps]
    BY NoCallTyped DEF RefundInit
  <2>3. QED
    BY <1>1, <2>1, <2>2, TypeParts DEF IInv
<1>5. SuccessInv /\ LockInv
  BY <1>2, <1>3 DEF SuccessInv, LockInv
<1>6. \A f \in RefundIds : RefundInv(f)
  BY <1>3 DEF RefundInv, NoRefund
<1>7. ASSUME NEW c \in Calls PROVE CallInv(c)
  <2>1. call[c].pc = "idle"
    BY <1>3, NoCallTyped
  <2>2. call[c].pc \notin ApprovingPCs \cup {"approve_lock"}
    BY <2>1 DEF ApprovingPCs, PaidPCs
  <2>3. QED
    BY <2>1, <2>2 DEF CallInv
<1>8. ASSUME NEW p \in Payments PROVE MoneyInv(p) /\ CleanInv(p)
  <2>1. \A c \in Calls : call[c].pc = "idle"
    BY <1>3, NoCallTyped
  <2>2. Processed(p) = {} /\ Paid(p) = {} /\ Approving[p] = {}
    BY <1>3, <2>1 DEF Processed, Paid, NoRefund, Approving, ApprovingPCs, PaidPCs
  <2>3. Sum(refund, {}) = 0
    BY SumNone
  <2>4. returned[p] = 0 /\ 0 <= Price + Epsilon /\ ~(0 >= Price - Epsilon)
    BY <1>3, PriceAssumption DEF Epsilon
  <2>5. QED
    BY <1>2, <2>2, <2>3, <2>4 DEF MoneyInv, CleanInv
<1>9. QED
  BY <1>1, <1>4, <1>5, <1>6, <1>7, <1>8 DEF RInv

LEMMA NextRInv == RInv /\ [RefundNext]_<<vars, refundVars>> => RInv'
<1> SUFFICES ASSUME RInv, [RefundNext]_<<vars, refundVars>> PROVE RInv'
  OBVIOUS
<1>1. CASE Next /\ UNCHANGED refundVars
  BY <1>1, CheckoutKeeps
<1>2. ASSUME NEW c \in Calls, CallStep(c)
      PROVE  RInv'
  BY <1>2, ReadsKeep, CreateKeeps, LockKeeps, SumStepKeeps, GatewayKeeps,
     AnswerLostKeeps, RejectKeeps, RecordKeeps, CloseKeeps, OrderStepKeeps,
     ReleaseKeeps, DiesKeeps, ThrowsKeeps DEF CallStep
<1>3. ASSUME NEW c \in Calls,
             \/ \E p \in Payments, amount \in Amounts : RequestRead(c, p, amount)
             \/ \E f \in RefundIds : ApproveRead(c, f)
      PROVE  RInv'
  BY <1>3, ReadsKeep
<1>4. ASSUME NEW f \in RefundIds, NEW status \in HandStatuses, WriteByHand(f, status)
      PROVE  RInv'
  BY <1>4, HandKeeps
<1>5. ASSUME NEW p \in Payments, RefundLockExpires(p)
      PROVE  RInv'
  BY <1>5, ExpiresKeeps
<1>6. CASE UNCHANGED <<vars, refundVars>>
  BY <1>6, CheckoutKeeps
<1>7. QED
  BY <1>1, <1>2, <1>3, <1>4, <1>5, <1>6 DEF RefundNext

LEMMA RefundsInductive == RefundSpec => []RInv
  BY InitRInv, NextRInv, PTL DEF RefundSpec

\* Every variable keeps its shape in every behavior of refunds and checkout.
THEOREM RefundsTyped == RefundSpec => []RefundTypeOK
<1>1. RInv => RefundTypeOK
  BY DEF RInv
<1>2. QED
  BY <1>1, RefundsInductive, PTL

\* For any number of refunds, calls, crashes, lapsed locks and repeated
\* approvals, a payment that no hand touched is REFUNDED only when the gateway
\* gave its price back.
THEOREM RefundedReturned == RefundSpec => []RefundedIsReturned
<1>1. RInv => RefundedIsReturned
  <2>1. SUFFICES ASSUME RInv, NEW p \in Payments,
                        payment[p].status = "REFUNDED", "by_hand" \notin mishaps[p]
                 PROVE  returned[p] >= Price - Epsilon
    BY DEF RefundedIsReturned
  <2>2. MoneyInv(p) /\ RefundTypeOK
    BY <2>1 DEF RInv
  <2>3. Price - Epsilon <= returned[p]
    BY <2>1, <2>2 DEF MoneyInv, ByHand
  <2>4. QED
    BY <2>2, <2>3, NumbersOf
<1>2. QED
  BY <1>1, RefundsInductive, PTL

\* However many administrators approve refunds of a payment at once, without a
\* mishap the gateway gives back no more than the price.
THEOREM WithinPrice == RefundSpec => []ReturnsWithinPrice
<1>1. RInv => ReturnsWithinPrice
  BY DEF RInv, CleanInv, ReturnsWithinPrice
<1>2. QED
  BY <1>1, RefundsInductive, PTL

\* A payment whose price was given back does not become SUCCESS again, for any
\* number of late verify calls beside the approvals.
THEOREM ReturnedNotSuccess == RefundSpec => []ReturnedIsNotSuccess
<1>1. RInv => ReturnedIsNotSuccess
  BY DEF RInv, CleanInv, ReturnedIsNotSuccess
<1>2. QED
  BY <1>1, RefundsInductive, PTL

\* What is recorded as PROCESSED was given back, whatever was cut short.
THEOREM ProcessedReturned == RefundSpec => []ProcessedIsReturned
<1>1. RInv => ProcessedIsReturned
  <2>1. SUFFICES ASSUME RInv, NEW p \in Payments, "by_hand" \notin mishaps[p]
                 PROVE  cumulativeRefunded(p, None) <= returned[p]
    BY DEF ProcessedIsReturned
  <2>2. MoneyInv(p) /\ RefundTypeOK /\ \A c \in Calls : CallInv(c)
    BY <2>1 DEF RInv
  <2>3. cumulativeRefunded(p, None) = Sum(refund, Processed(p) \ {None})
    BY DEF cumulativeRefunded, Sum
  <2>4. Paid(p) \in SUBSET RefundIds /\ Processed(p) \ {None} \in SUBSET Paid(p)
    BY <2>2, PaidRows
  <2>5. /\ Sum(refund, Processed(p) \ {None}) <= Sum(refund, Paid(p))
        /\ Sum(refund, Processed(p) \ {None}) \in Nat /\ Sum(refund, Paid(p)) \in Nat
    BY <2>2, <2>4, SomeRows, SumLess
  <2>6. Sum(refund, Paid(p)) <= returned[p] /\ returned[p] \in Nat
    BY <2>1, <2>2, NumbersOf DEF MoneyInv, ByHand
  <2>7. QED
    BY <2>3, <2>5, <2>6
<1>2. QED
  BY <1>1, RefundsInductive, PTL

\* Refunds leave what checkout promises: one SUCCESS payment per order, and
\* captured money behind it.
THEOREM CheckoutBeside == RefundSpec => [](OneSuccessPerOrder /\ SuccessIsFunded)
<1>1. RInv => OneSuccessPerOrder /\ SuccessIsFunded
  BY DEF RInv, IInv
<1>2. QED
  BY <1>1, RefundsInductive, PTL

\* The books balance between approvals, for any number of refunds, calls and
\* amounts, as long as nothing was cut short, approved twice or written by hand.
THEOREM BooksAlwaysBalance == RefundSpec => []BooksBalance
<1>1. RInv => BooksBalance
  <2>1. SUFFICES ASSUME RInv, NEW p \in Payments, mishaps[p] = {}, Approving[p] = {}
                 PROVE  cumulativeRefunded(p, None) = returned[p]
    BY DEF BooksBalance
  <2>2. returned[p] = Sum(refund, Paid(p))
    BY <2>1 DEF RInv, CleanInv
  <2>3. ASSUME NEW c \in Calls, call[c].pc = "approve_record", call[c].payment = p
        PROVE  FALSE
    BY <2>1, <2>3, InApproving DEF ApprovingPCs, PaidPCs
  <2>4. Paid(p) = Processed(p)
    BY <2>3 DEF Paid
  <2>5. Processed(p) \ {None} = Processed(p)
    BY RefundIdsAssumption DEF Processed
  <2>6. QED
    BY <2>2, <2>4, <2>5 DEF cumulativeRefunded, Sum
<1>2. QED
  BY <1>1, RefundsInductive, PTL

-----------------------------------------------------------------------------
(* Refunds do not disturb what checkout implements, and use their own lock  *)
(* as withLock does.                                                        *)

\* No step of a refund confirms an order, or issues or funds an invoice.
LEMMA RefundsSettleNothing ==
    ASSUME [RefundNext]_<<vars, refundVars>>
    PROVE  [Next]_vars \/ UNCHANGED <<session, confirmations, invoiced>>
<1>1. ASSUME NEW c \in Calls, CallStep(c)
      PROVE  UNCHANGED <<session, confirmations, invoiced>>
  BY <1>1 DEF CallStep, RequestSum, RequestCreate, ApproveLock, ApproveConflict, ApproveSum,
     ApproveGateway, ApproveAnswerLost, ApproveReject, ApproveRecord, ApproveClose,
     ApproveOrder, ApproveOrderWrite, ApproveRelease, CallDies, CallThrows, vars
<1>2. ASSUME \/ \E c \in Calls, p \in Payments, amount \in Amounts : RequestRead(c, p, amount)
             \/ \E c \in Calls, f \in RefundIds : ApproveRead(c, f)
             \/ \E f \in RefundIds, status \in HandStatuses : WriteByHand(f, status)
             \/ \E p \in Payments : RefundLockExpires(p)
      PROVE  UNCHANGED <<session, confirmations, invoiced>>
  BY <1>2 DEF RequestRead, ApproveRead, WriteByHand, RefundLockExpires, vars
<1>3. QED
  BY <1>1, <1>2 DEF RefundNext

\* Beside refunds, checkout still implements its ledger: an order whose money
\* was given back keeps its one confirmation and its invoice, and gets no other.
THEOREM RefundsKeepLedger == RefundSpec => ImplementsLedger
<1>1. RefundInit => Ledger!Init
  BY LedgerStart DEF RefundInit
<1>2. RInv /\ [RefundNext]_<<vars, refundVars>> => [Ledger!Next]_(Ledger!vars)
  BY RefundsSettleNothing, RestStutters, LedgerStep DEF RInv
<1>3. QED
  BY <1>1, <1>2, RefundsInductive, PTL DEF RefundSpec, Ledger!Spec, ImplementsLedger

\* A step in which no call enters or leaves the body changes no one's key.
LEMMA SameApproving ==
    ASSUME UNCHANGED refundLock,
           \A c \in Calls :
              \/ call'[c] = call[c]
              \/ call[c].pc \notin ApprovingPCs /\ call'[c].pc \notin ApprovingPCs
              \/ /\ call[c].pc \in ApprovingPCs /\ call'[c].pc \in ApprovingPCs
                 /\ call'[c].payment = call[c].payment
    PROVE  UNCHANGED RefundLocks!vars
<1>1. Approving' = Approving
  BY DEF Approving
<1>2. QED
  BY <1>1 DEF RefundLocks!vars

\* A call that goes on from await to await inside the body, or outside it.
LEMMA CallGoesOn ==
    ASSUME RefundTypeOK, UNCHANGED refundLock, NEW c \in Calls, NEW pc \in CallPCs,
           Proceed(c, pc), pc \in ApprovingPCs <=> call[c].pc \in ApprovingPCs
    PROVE  UNCHANGED RefundLocks!vars
  BY ProceedCall, SameApproving

\* A call enters the body with SET NX.
LEMMA ApprovalEnters ==
    ASSUME RInv, NEW c \in Calls, ApproveLock(c)
    PROVE  RefundLocks!Next
<1> DEFINE p == call[c].payment
<1>1. call[c].pc = "approve_lock" /\ RefundLocks!SetNX(p, c) /\ Proceed(c, "approve_sum")
  BY DEF ApproveLock
<1>2. p \in Payments
  BY <1>1 DEF RInv, CallInv
<1>3. /\ \A d \in Calls : d # c => call'[d] = call[d]
      /\ call'[c].pc = "approve_sum" /\ call'[c].payment = p
  BY <1>1, ProceedCall DEF RInv, CallPCs, ApprovingPCs
<1>4. c \notin Approving[p]
  BY <1>1, <1>2, InApproving DEF ApprovingPCs, PaidPCs
<1>5. Approving' = [Approving EXCEPT ![p] = @ \cup {c}]
  <2>1. "approve_sum" \in ApprovingPCs /\ "approve_lock" \notin ApprovingPCs
    BY DEF ApprovingPCs, PaidPCs
  <2>2. QED
    BY <1>1, <1>2, <1>3, <2>1 DEF Approving
<1>6. RefundLocks!Acquire(p, c)
  BY <1>1, <1>4, <1>5 DEF RefundLocks!Acquire
<1>7. QED
  BY <1>2, <1>6 DEF RefundLocks!Next

\* A call leaves it with the release script, or with its process.
LEMMA ApprovalLeaves ==
    ASSUME RInv, NEW c \in Calls, call[c].pc \in ApprovingPCs,
           ApproveRelease(c) \/ CallDies(c)
    PROVE  RefundLocks!Next
<1> DEFINE p == call[c].payment
<1>1. p \in Payments
  <2>1. call[c].pc # "idle"
    BY DEF ApprovingPCs, PaidPCs
  <2>2. QED
    BY <2>1 DEF RInv, CallInv
<1>2. \/ RefundLocks!DelIfOwner(p, c) /\ Finish(c)
      \/ UNCHANGED refundLock /\ Finish(c)
  BY DEF ApproveRelease, CallDies
<1>3. /\ \A d \in Calls : d # c => call'[d] = call[d]
      /\ call'[c] = NoCall
  BY <1>2, FinishCall DEF RInv
<1>4. call'[c].pc \notin ApprovingPCs
  BY <1>3, NoCallTyped DEF ApprovingPCs, PaidPCs
<1>5. c \in Approving[p]
  BY <1>1, InApproving
<1>6. Approving' = [Approving EXCEPT ![p] = @ \ {c}]
  BY <1>1, <1>3, <1>4 DEF Approving
<1>7. RefundLocks!Release(p, c) \/ RefundLocks!Die(p, c)
  BY <1>2, <1>5, <1>6 DEF RefundLocks!Release, RefundLocks!Die
<1>8. QED
  BY <1>1, <1>7 DEF RefundLocks!Next

LEMMA RefundLockStep ==
    RInv /\ [RefundNext]_<<vars, refundVars>> => [RefundLocks!Next]_(RefundLocks!vars)
<1> SUFFICES ASSUME RInv, [RefundNext]_<<vars, refundVars>>
             PROVE  RefundLocks!Next \/ UNCHANGED RefundLocks!vars
  OBVIOUS
<1> DEFINE Same == UNCHANGED RefundLocks!vars
<1>t. RefundTypeOK
  BY DEF RInv
<1>1. UNCHANGED <<refundLock, call>> => Same
  BY SameApproving
<1>2. ASSUME NEW c \in Calls, CallDies(c), call[c].pc \notin ApprovingPCs PROVE Same
  <2>1. /\ \A d \in Calls : d # c => call'[d] = call[d]
        /\ call'[c] = NoCall
    BY <1>2, <1>t, FinishCall DEF CallDies
  <2>2. call'[c].pc \notin ApprovingPCs
    BY <2>1, NoCallTyped DEF ApprovingPCs, PaidPCs
  <2>3. QED
    BY <1>2, <2>1, <2>2, SameApproving DEF CallDies
<1>3. ASSUME NEW c \in Calls,
             RequestCreate(c) \/ ApproveConflict(c) \/ (RequestSum(c) /\ Finish(c))
      PROVE  Same
  <2>1. UNCHANGED refundLock /\ Finish(c) /\ call[c].pc \notin ApprovingPCs
    BY <1>3 DEF RequestCreate, ApproveConflict, RequestSum, ApprovingPCs, PaidPCs
  <2>2. /\ \A d \in Calls : d # c => call'[d] = call[d]
        /\ call'[c] = NoCall
    BY <1>t, <2>1, FinishCall
  <2>3. call'[c].pc \notin ApprovingPCs
    BY <2>2, NoCallTyped DEF ApprovingPCs, PaidPCs
  <2>4. QED
    BY <2>1, <2>2, <2>3, SameApproving
<1>4. ASSUME NEW c \in Calls, RequestSum(c) PROVE Same
  <2>1. CASE Proceed(c, "request_create")
    BY <1>4, <1>t, <2>1, CallGoesOn DEF RequestSum, CallPCs, ApprovingPCs, PaidPCs
  <2>2. QED
    BY <1>3, <1>4, <2>1 DEF RequestSum
<1>5. ASSUME NEW c \in Calls, ApproveSum(c) PROVE Same
  <2>1. /\ UNCHANGED refundLock /\ call[c].pc \in ApprovingPCs
        /\ \A d \in Calls : d # c => call'[d] = call[d]
        /\ call'[c].pc \in ApprovingPCs /\ call'[c].payment = call[c].payment
    BY <1>5, <1>t, TypeParts DEF ApproveSum, ApprovingPCs, PaidPCs, CallType
  <2>2. QED
    BY <2>1, SameApproving
<1>6. ASSUME NEW c \in Calls,
             \/ ApproveGateway(c) \/ ApproveAnswerLost(c) \/ ApproveReject(c)
             \/ ApproveRecord(c) \/ ApproveClose(c) \/ ApproveOrder(c)
             \/ ApproveOrderWrite(c) \/ CallThrows(c)
      PROVE  Same
  <2>1. /\ UNCHANGED refundLock /\ call[c].pc \in ApprovingPCs
        /\ \E pc \in ApprovingPCs : Proceed(c, pc)
    BY <1>6 DEF ApproveGateway, ApproveAnswerLost, ApproveReject, ApproveRecord,
       ApproveClose, ApproveOrder, ApproveOrderWrite, CallThrows, ApprovingPCs, PaidPCs
  <2>2. QED
    BY <1>t, <2>1, CallGoesOn DEF CallPCs
<1>7. ASSUME NEW c \in Calls, CallStep(c) PROVE RefundLocks!Next \/ Same
  <2>1. ApproveRelease(c) => call[c].pc \in ApprovingPCs
    BY DEF ApproveRelease, ApprovingPCs
  <2>2. QED
    BY <1>2, <1>3, <1>4, <1>5, <1>6, <1>7, <2>1, ApprovalEnters, ApprovalLeaves DEF CallStep
<1>8. ASSUME NEW c \in Calls,
             \/ \E p \in Payments, amount \in Amounts : RequestRead(c, p, amount)
             \/ \E f \in RefundIds : ApproveRead(c, f)
      PROVE  Same
  <2> DEFINE Starts == \E new : /\ call' = [call EXCEPT ![c] = new]
                                /\ new.pc = "request_sum" \/ new.pc = "approve_lock"
  <2>1. UNCHANGED refundLock /\ call[c] = NoCall /\ Starts
    <3>1. ASSUME NEW p \in Payments, NEW amount \in Amounts, RequestRead(c, p, amount)
          PROVE  Starts
      <4> DEFINE new == [NoCall EXCEPT !.pc = "request_sum", !.payment = p, !.amount = amount]
      <4>1. call' = [call EXCEPT ![c] = new]
        BY <3>1 DEF RequestRead
      <4>2. new.pc = "request_sum"
        BY DEF NoCall
      <4> HIDE DEF new
      <4>3. QED
        BY <4>1, <4>2
    <3>2. ASSUME NEW f \in RefundIds, ApproveRead(c, f) PROVE Starts
      <4> DEFINE new == [pc |-> "approve_lock", refund |-> f, payment |-> refund[f].payment,
                         ref |-> payment[refund[f].payment].ref,
                         amount |-> refund[f].amount, already |-> 0]
      <4>1. call' = [call EXCEPT ![c] = new] /\ new.pc = "approve_lock"
        BY <3>2 DEF ApproveRead
      <4> HIDE DEF new
      <4>2. QED
        BY <4>1
    <3> HIDE DEF Starts
    <3>3. QED
      BY <1>8, <3>1, <3>2 DEF RequestRead, ApproveRead
  <2>4. /\ \A d \in Calls : d # c => call'[d] = call[d]
        /\ call'[c].pc = "request_sum" \/ call'[c].pc = "approve_lock"
    <3>1. call \in [Calls -> CallType]
      BY <1>t, TypeParts
    <3>2. QED
      BY <2>1, <3>1
  <2>2. call[c].pc \notin ApprovingPCs /\ call'[c].pc \notin ApprovingPCs
    BY <2>1, <2>4, NoCallTyped DEF ApprovingPCs, PaidPCs
  <2>3. QED
    BY <2>1, <2>2, <2>4, SameApproving
<1>9. ASSUME NEW p \in Payments, RefundLockExpires(p) PROVE RefundLocks!Next
  BY <1>9 DEF RefundLockExpires, RefundLocks!Next
<1>10. ASSUME NEW f \in RefundIds, NEW status \in HandStatuses, WriteByHand(f, status)
       PROVE  Same
  BY <1>1, <1>10 DEF WriteByHand
<1>11. (Next /\ UNCHANGED refundVars) \/ UNCHANGED <<vars, refundVars>> => Same
  BY <1>1 DEF refundVars
<1>12. QED
  BY <1>7, <1>8, <1>9, <1>10, <1>11 DEF RefundNext

\* Approvals take and free the Redis key of a payment as withLock does, for any
\* number of administrators, whether or not a call outlives its lease.
THEOREM RefinesRefundLock == RefundSpec => ImplementsRefundLock
<1>1. RefundInit => RefundLocks!Init
  <2> SUFFICES ASSUME RefundInit PROVE RefundLocks!Init
    OBVIOUS
  <2>1. \A c \in Calls : call[c].pc \notin ApprovingPCs
    BY NoCallTyped DEF RefundInit, ApprovingPCs, PaidPCs
  <2>2. QED
    BY <2>1 DEF RefundInit, RefundLocks!Init, Approving
<1>2. QED
  BY <1>1, RefundLockStep, RefundsInductive, PTL
     DEF RefundSpec, RefundLocks!Spec, ImplementsRefundLock

\* Beside refunds, verification too goes on to use its key as withLock does.
THEOREM RefundsKeepLock == RefundSpec => ImplementsLock
<1>1. RefundInit => Locks!Init
  BY LockStart DEF RefundInit
<1>2. RInv /\ [RefundNext]_<<vars, refundVars>> => [Locks!Next]_(Locks!vars)
  <2> SUFFICES ASSUME RInv, [RefundNext]_<<vars, refundVars>>
               PROVE  Locks!Next \/ UNCHANGED Locks!vars
    OBVIOUS
  <2>1. CASE Next \/ UNCHANGED vars
    BY <2>1, LockStep DEF RInv
  <2>2. CASE UNCHANGED <<verifyLock, req>>
    BY <2>2, SameWork DEF RInv
  <2>3. ASSUME NEW c \in Calls, CallStep(c) PROVE UNCHANGED <<verifyLock, req>>
    BY <2>3 DEF CallStep, RequestSum, RequestCreate, ApproveLock, ApproveConflict, ApproveSum,
       ApproveGateway, ApproveAnswerLost, ApproveReject, ApproveRecord, ApproveClose,
       ApproveOrder, ApproveOrderWrite, ApproveRelease, CallDies, CallThrows, vars
  <2>4. QED
    BY <2>1, <2>2, <2>3 DEF RefundNext, RequestRead, ApproveRead, WriteByHand,
       RefundLockExpires
<1>3. QED
  BY <1>1, <1>2, RefundsInductive, PTL DEF RefundSpec, Locks!Spec, ImplementsLock

RefundKeys == INSTANCE LeaseLockProofs
    WITH Keys <- Payments, Holders <- Calls, lock <- refundLock, working <- Approving

\* As long as no call outlives its lease, one call at a time approves refunds of
\* a payment: what withLock promises holds of the place where it is used.
THEOREM ApprovesAlone ==
    ASSUME LeasesLapse = FALSE
    PROVE  RefundSpec => []ApprovalsExclude
<1>1. RefundKeys!Spec => []RefundKeys!MutualExclusion
  BY RefundKeys!LockExcludes
<1>2. RefundLocks!Init => RefundKeys!Init
  BY DEF RefundLocks!Init, RefundKeys!Init
<1>3. [RefundLocks!Next]_(RefundLocks!vars) => [RefundKeys!Next]_(RefundKeys!vars)
  BY DEF RefundLocks!Next, RefundLocks!vars, RefundLocks!Acquire, RefundLocks!Release,
     RefundLocks!Die, RefundLocks!Expire, RefundLocks!SetNX, RefundLocks!DelIfOwner,
     RefundKeys!Next, RefundKeys!vars, RefundKeys!Acquire, RefundKeys!Release,
     RefundKeys!Die, RefundKeys!Expire, RefundKeys!SetNX, RefundKeys!DelIfOwner
<1>4. RefundKeys!MutualExclusion => ApprovalsExclude
  BY DEF ApprovalsExclude, RefundKeys!MutualExclusion, RefundLocks!MutualExclusion
<1>5. QED
  BY <1>1, <1>2, <1>3, <1>4, RefinesRefundLock, PTL
     DEF ImplementsRefundLock, RefundLocks!Spec, RefundKeys!Spec
=============================================================================
