----------------------------- MODULE LeaseLock ------------------------------
(***************************************************************************)
(* withLock (shared/concurrency/distributed-lock.ts): one try, no waiting, *)
(* a lease with a time to live, and a release that deletes the key only    *)
(* while it still holds the caller's own token.                            *)
(***************************************************************************)

CONSTANTS
    Keys,        \* lock keys, one per payment
    Holders,     \* calls of withLock; the call stands for its random token
    LeasesLapse  \* TRUE: a lease may run out while its holder still works

VARIABLES
    lock,     \* lock[k]: the token stored under k, as a set of at most one
    working   \* working[k]: the calls now running their body under k

vars == <<lock, working>>

TypeOK ==
    /\ lock \in [Keys -> SUBSET Holders]
    /\ working \in [Keys -> SUBSET Holders]

Init ==
    /\ lock = [k \in Keys |-> {}]
    /\ working = [k \in Keys |-> {}]

\* Faulty variant: SET without NX.
SetAnyway(k, h) == lock' = [lock EXCEPT ![k] = {h}]

\* SET key token PX ttl NX
SetNX(k, h) ==
    /\ lock[k] = {}
    /\ lock' = [lock EXCEPT ![k] = {h}]

\* The release script: delete the key if it still stores our token.
DelIfOwner(k, h) == lock' = [lock EXCEPT ![k] = @ \ {h}]

Acquire(k, h) ==
    /\ h \notin working[k]
    /\ SetNX(k, h)
    /\ working' = [working EXCEPT ![k] = @ \cup {h}]

\* The body returned or threw: `finally` runs the release script.
Release(k, h) ==
    /\ h \in working[k]
    /\ DelIfOwner(k, h)
    /\ working' = [working EXCEPT ![k] = @ \ {h}]

\* The process died inside the body: nothing is released.
Die(k, h) ==
    /\ h \in working[k]
    /\ working' = [working EXCEPT ![k] = @ \ {h}]
    /\ UNCHANGED lock

\* Faulty variant: SET without PX, a key that Redis never drops.
NoTimeToLive(k) ==
    /\ lock[k] = {}
    /\ UNCHANGED vars

\* Redis drops the key when its time to live ends.
Expire(k) ==
    /\ lock[k] # {}
    /\ LeasesLapse \/ lock[k] \cap working[k] = {}
    /\ lock' = [lock EXCEPT ![k] = {}]
    /\ UNCHANGED working

Next ==
    \E k \in Keys :
        \/ Expire(k)
        \/ \E h \in Holders : Acquire(k, h) \/ Release(k, h) \/ Die(k, h)

Spec == Init /\ [][Next]_vars

\* No two calls run their body under the same key (when every call ends
\* within its lease): what verifyPayment and updateStatus take the lock for.
MutualExclusion == \A k \in Keys : \A g, h \in working[k] : g = h
=============================================================================
