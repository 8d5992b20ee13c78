---------------------------- MODULE SynthesisGate ----------------------------
(***************************************************************************)
(* The concurrency gate in front of the TTS engine                         *)
(* (apps/realtime-gateway/src/synthesis-gate.ts).  run() decides in the    *)
(* caller's own step; a caller that waits is resolved by a finishing one,  *)
(* but takes its slot only when its continuation runs, a microtask later,  *)
(* and other callers may run in between.                                   *)
(***************************************************************************)
EXTENDS Integers, Sequences, FiniteSets

CONSTANTS Callers, MaxInFlight, MaxWaiting

ASSUME GateAssumption ==
    /\ IsFiniteSet(Callers)
    /\ MaxInFlight \in Nat \ {0}
    /\ MaxWaiting \in Nat

VARIABLES
    inFlight,  \* inFlight
    waiting,   \* waiting: the callers whose resolve function is queued
    at         \* where each caller's run() is

gateVars == <<inFlight, waiting, at>>

GateInit == /\ inFlight = 0
            /\ waiting = <<>>
            /\ at = [c \in Callers |-> "outside"]

Places == {"outside", "waiting", "resolved", "working", "refused"}

CallersAt(p) == {c \in Callers : at[c] = p}

Enter(c) == /\ at[c] = "outside"
            /\ inFlight < MaxInFlight
            /\ inFlight' = inFlight + 1
            /\ at' = [at EXCEPT ![c] = "working"]
            /\ UNCHANGED waiting

Wait(c) == /\ at[c] = "outside"
           /\ inFlight >= MaxInFlight
           /\ Len(waiting) < MaxWaiting
           /\ waiting' = Append(waiting, c)
           /\ at' = [at EXCEPT ![c] = "waiting"]
           /\ UNCHANGED inFlight

\* SynthesisBusyError
Refuse(c) == /\ at[c] = "outside"
             /\ inFlight >= MaxInFlight
             /\ Len(waiting) >= MaxWaiting
             /\ at' = [at EXCEPT ![c] = "refused"]
             /\ UNCHANGED <<inFlight, waiting>>

\* The resolved caller's continuation: it does not look at inFlight again.
Resume(c) == /\ at[c] = "resolved"
             /\ inFlight' = inFlight + 1
             /\ at' = [at EXCEPT ![c] = "working"]
             /\ UNCHANGED waiting

\* Mistake: a finishing caller hands its slot to nobody.
FinishSilently(c) == /\ at[c] = "working"
                     /\ inFlight' = inFlight - 1
                     /\ at' = [at EXCEPT ![c] = "outside"]
                     /\ UNCHANGED waiting

\* However work ends, its slot is released and the oldest waiter resolved.
Finish(c) ==
    /\ at[c] = "working"
    /\ inFlight' = inFlight - 1
    /\ IF waiting = <<>>
       THEN /\ at' = [at EXCEPT ![c] = "outside"]
            /\ UNCHANGED waiting
       ELSE /\ at' = [at EXCEPT ![c] = "outside", ![Head(waiting)] = "resolved"]
            /\ waiting' = Tail(waiting)

\* A refused request may be sent again.
Retry(c) == /\ at[c] = "refused"
            /\ at' = [at EXCEPT ![c] = "outside"]
            /\ UNCHANGED <<inFlight, waiting>>

GateNext == \E c \in Callers :
            \/ Enter(c) \/ Wait(c) \/ Refuse(c) \/ Resume(c)
            \/ Finish(c) \/ Retry(c)

GateSpec == GateInit /\ [][GateNext]_gateVars

-----------------------------------------------------------------------------
(* Properties.                                                             *)

\* Type invariant of the gate.
GateTypeOK == /\ inFlight \in Nat
              /\ waiting \in Seq(Callers)
              /\ at \in [Callers -> Places]

\* "A failing engine cannot leak capacity": the count of slots in use is at all
\* times the number of callers at work.
NoSlotLeaks == inFlight = Cardinality(CallersAt("working"))

\* "Queue shallowly, then refuse": no more than maxQueued callers ever wait.
QueueIsShallow == Len(waiting) <= MaxWaiting

\* No wakeup is lost: while anybody waits, every slot is taken or is about to
\* be taken by a caller already resolved.
NobodyWaitsForAFreeSlot ==
    waiting # <<>> =>
        inFlight + Cardinality(CallersAt("resolved")) >= MaxInFlight

\* Whoever waits gets to work.
WaitersAreServed ==
    \A c \in Callers : at[c] = "waiting" ~> at[c] = "working"
=============================================================================
