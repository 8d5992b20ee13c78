---------------------------- MODULE TurnLifecycle ----------------------------
(***************************************************************************)
(* What the duplex kernel promises its callers, whatever they call and in  *)
(* whatever order: turns are opened one at a time and never come back once *)
(* over, a reply that has started to sound is never taken back to capture, *)
(* and of all the work handles ever given out at most one is live.         *)
(***************************************************************************)
EXTENDS Naturals

CONSTANTS TurnIds, Revisions

VARIABLES
    phase,  \* what each turn is doing
    live    \* the handles <<turn, revision>> not yet told to stop

vars == <<phase, live>>

Phases == {"new", "capturing", "answering", "speaking", "over"}
OpenPhases == {"capturing", "answering", "speaking"}

IsOpen(t) == phase[t] \in OpenPhases

Init == /\ phase = [t \in TurnIds |-> "new"]
        /\ live = {}

\* A user starts to speak, or a typed or agent turn starts past capture.
Open(t) == /\ \A u \in TurnIds : ~IsOpen(u)
           /\ phase[t] = "new"
           /\ \E p \in {"capturing", "answering"} :
                 phase' = [phase EXCEPT ![t] = p]
           /\ live' = {<<t, 0>>}

\* Superseding ends the old turn and opens the new one with nothing between.
Supersede(old, t) ==
    /\ IsOpen(old)
    /\ phase[t] = "new"
    /\ \E p \in {"capturing", "answering"} :
          phase' = [phase EXCEPT ![old] = "over", ![t] = p]
    /\ live' = {<<t, 0>>}

Answer(t) == /\ phase[t] = "capturing"
             /\ phase' = [phase EXCEPT ![t] = "answering"]
             /\ UNCHANGED live

\* Only a turn that has not sounded yet goes back, under a fresh handle.
Reopen(t, r) == /\ phase[t] = "answering"
                /\ live = {<<t, r>>}
                /\ r + 1 \in Revisions
                /\ phase' = [phase EXCEPT ![t] = "capturing"]
                /\ live' = {<<t, r + 1>>}

Speak(t) == /\ phase[t] = "answering"
            /\ phase' = [phase EXCEPT ![t] = "speaking"]
            /\ UNCHANGED live

End(t) == /\ IsOpen(t)
          /\ phase' = [phase EXCEPT ![t] = "over"]
          /\ live' = {}

Next == \E t \in TurnIds :
           \/ Open(t) \/ Answer(t) \/ Speak(t) \/ End(t)
           \/ \E old \in TurnIds : Supersede(old, t)
           \/ \E r \in Revisions : Reopen(t, r)

Spec == Init /\ [][Next]_vars
=============================================================================
