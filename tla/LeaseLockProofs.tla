--------------------------- MODULE LeaseLockProofs --------------------------
(***************************************************************************)
(* withLock is mutually exclusive for any keys and any callers, provided   *)
(* that no call outlives its lease.                                        *)
(***************************************************************************)
EXTENDS LeaseLock, TLAPS

(* Every call inside the body still owns the key it works under, and a key *)
(* stores one token: what makes MutualExclusion inductive.                 *)
OwnerInv ==
    /\ TypeOK
    /\ \A k \in Keys : working[k] \subseteq lock[k]
    /\ \A k \in Keys : \A g, h \in lock[k] : g = h

\* The lock table and the running calls keep their shape in every behavior.
THEOREM LockTyped == Spec => []TypeOK
<1>1. Init => TypeOK
  BY DEF Init, TypeOK
<1>2. TypeOK /\ [Next]_vars => TypeOK'
  BY DEF TypeOK, Next, vars, Acquire, Release, Die, Expire, SetNX, DelIfOwner
<1>3. QED
  BY <1>1, <1>2, PTL DEF Spec

\* When leases do not lapse under a working holder, at most one call at a
\* time runs its body under a key, as verifyPayment and refunds rely on.
THEOREM LockExcludes ==
    ASSUME LeasesLapse = FALSE
    PROVE  Spec => []MutualExclusion
<1>1. Init => OwnerInv
  BY DEF Init, OwnerInv, TypeOK
<1>2. OwnerInv /\ [Next]_vars => OwnerInv'
  <2> SUFFICES ASSUME OwnerInv, [Next]_vars
               PROVE  OwnerInv'
    OBVIOUS
  <2>t. TypeOK'
    BY DEF OwnerInv, TypeOK, Next, vars, Acquire, Release, Die, Expire, SetNX,
           DelIfOwner
  <2>1. ASSUME NEW k \in Keys, NEW h \in Holders, Acquire(k, h)
        PROVE  OwnerInv'
    BY <2>1, <2>t DEF Acquire, SetNX, OwnerInv, TypeOK
  <2>2. ASSUME NEW k \in Keys, NEW h \in Holders, Release(k, h)
        PROVE  OwnerInv'
    BY <2>2, <2>t DEF Release, DelIfOwner, OwnerInv, TypeOK
  <2>3. ASSUME NEW k \in Keys, NEW h \in Holders, Die(k, h)
        PROVE  OwnerInv'
    BY <2>3, <2>t DEF Die, OwnerInv, TypeOK
  <2>4. ASSUME NEW k \in Keys, Expire(k)
        PROVE  OwnerInv'
    BY <2>4, <2>t DEF Expire, OwnerInv, TypeOK
  <2>5. CASE UNCHANGED vars
    BY <2>5 DEF vars, OwnerInv, TypeOK
  <2>6. QED
    BY <2>1, <2>2, <2>3, <2>4, <2>5 DEF Next
<1>3. OwnerInv => MutualExclusion
  BY DEF OwnerInv, MutualExclusion
<1>4. QED
  BY <1>1, <1>2, <1>3, PTL DEF Spec
=============================================================================
