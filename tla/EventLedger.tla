----------------------------- MODULE EventLedger -----------------------------
(***************************************************************************)
(* What the outbox promises of an event, without relays and processes: it  *)
(* is emitted at most once each time it is claimed, it goes back at most   *)
(* MaxRetries times, and what is done, failed or stranded stays so.        *)
(* Stranded is an event whose claim ended without a word: the code has no  *)
(* way back for it.                                                        *)
(***************************************************************************)
EXTENDS Naturals

CONSTANTS Events, MaxRetries

VARIABLES
    phase,     \* phase[e]: where e is
    emissions  \* emissions[e]: how often e was handed to the event bus

vars == <<phase, emissions>>

Phases == {"unwritten", "waiting", "claimed", "emitted", "done", "failed", "stranded"}

Init ==
    /\ phase = [e \in Events |-> "unwritten"]
    /\ emissions = [e \in Events |-> 0]

Write(e) ==
    /\ phase[e] = "unwritten"
    /\ phase' = [phase EXCEPT ![e] = "waiting"]
    /\ UNCHANGED emissions

Claim(E) ==
    /\ \A e \in E : phase[e] = "waiting"
    /\ phase' = [e \in Events |-> IF e \in E THEN "claimed" ELSE phase[e]]
    /\ UNCHANGED emissions

Emit(e) ==
    /\ phase[e] = "claimed"
    /\ phase' = [phase EXCEPT ![e] = "emitted"]
    /\ emissions' = [emissions EXCEPT ![e] = @ + 1]

\* A claim may end without a word about an event, emitted or not; a failure is
\* recorded as long as there are retries.
Outcomes(e) ==
    IF phase[e] = "emitted"
    THEN {"done", "stranded", IF emissions[e] > MaxRetries THEN "failed" ELSE "waiting"}
    ELSE {"stranded"}

LetGo(E) ==
    /\ \A e \in E : phase[e] \in {"claimed", "emitted"}
    /\ phase' \in [Events -> Phases]
    /\ \A e \in Events :
          IF e \in E THEN phase'[e] \in Outcomes(e) ELSE phase'[e] = phase[e]
    /\ UNCHANGED emissions

Next ==
    \/ \E e \in Events : Write(e) \/ Emit(e)
    \/ \E E \in SUBSET Events : Claim(E) \/ LetGo(E)

Spec == Init /\ [][Next]_vars
=============================================================================
