---------------------------- MODULE DuplexSession ----------------------------
(***************************************************************************)
(* The kernel under an arbitrary caller: any method, any turn id it ever   *)
(* gave out (stale ones included), in any order.  A refused call leaves    *)
(* the session alone and is not a step.                                    *)
(***************************************************************************)
EXTENDS DuplexKernel

VARIABLE duplex

Issued == {t \in TurnIds : t <= duplex.issued}

CanIssue == duplex.issued < MaxTurns

Init == duplex = NewSession

\* Called once, by the owner, before anything else.
Start == duplex.state = "idle" /\ duplex' = start(duplex)

StartUserSpeech ==
    CanIssue /\ mayStartUserSpeech(duplex) /\ duplex' = startUserSpeech(duplex)

StartUserText ==
    CanIssue /\ mayStartIdleTurn(duplex) /\ duplex' = startUserText(duplex)

StartAgentTurn ==
    CanIssue /\ mayStartIdleTurn(duplex) /\ duplex' = startAgentTurn(duplex)

Finalize(t) == mayFinalize(duplex, t) /\ duplex' = finalizeUserSpeech(duplex, t)

SoftFinalize(t) ==
    mayFinalize(duplex, t) /\ duplex' = softFinalizeUserSpeech(duplex, t)

Reopen(t) == /\ mayReopen(duplex, t)
             /\ duplex.revs[t] < MaxRevision
             /\ duplex' = reopen(duplex, t)

StartThinking(t) == mayThink(duplex, t) /\ duplex' = startThinking(duplex, t)

StartSpeaking(t) == maySpeak(duplex, t) /\ duplex' = startSpeaking(duplex, t)

\* The loop that awaits an engine stamps the engine's milestone.
Mark(t) ==
    \E point \in {"asr_done", "llm_first", "tts_first_audio", "playback_first"} :
        duplex' = mark(duplex, t, point)

Complete(t) == mayComplete(duplex, t) /\ duplex' = complete(duplex, t)

Interrupt == \E reason \in Reasons : duplex' = interrupt(duplex, reason)

Close == duplex' = close(duplex)

Next ==
    \/ Start \/ StartUserSpeech \/ StartUserText \/ StartAgentTurn
    \/ \E t \in Issued : \/ Finalize(t) \/ SoftFinalize(t) \/ Reopen(t)
                         \/ StartThinking(t) \/ StartSpeaking(t)
                         \/ Mark(t) \/ Complete(t)
    \/ Interrupt \/ Close

Spec == Init /\ [][Next]_duplex

-----------------------------------------------------------------------------
(* Properties.                                                             *)

\* Type invariant of the session record.
TypeOK ==
    /\ duplex.state \in SessionStates
    /\ duplex.turn \in 0..MaxTurns
    /\ duplex.reopenable \in BOOLEAN
    /\ duplex.marks \in SUBSET TimingPoints
    /\ duplex.issued \in 0..MaxTurns
    /\ duplex.revs \in [TurnIds -> 0..MaxRevision]
    /\ duplex.aborted \in SUBSET Handles
    /\ duplex.finished \in SUBSET Handles
    /\ duplex.timings \in [TurnIds -> Nat]
    /\ duplex.endings \in [TurnIds -> Nat]

\* There is an active turn exactly in the four turn states: no sequence of
\* calls strands a turn in a listening or closed session, or leaves the
\* session in a turn state that nothing can end.
TurnMatchesState == (duplex.turn # 0) <=> (duplex.state \in TurnStates)

\* Of all the handles ever handed out, the only one not told to stop is the
\* active turn's last revision.  Superseding, interrupting, reopening and
\* closing therefore never leave work of an older turn running.
OnlyCurrentHandleLives ==
    LiveHandles(duplex) =
        IF duplex.turn = 0 THEN {} ELSE {Current(duplex)}

\* Every turn that is over, and no other, has emitted one turn.timing and one
\* turn.completed or turn.interrupted ("Emitted once per turn when it ends,
\* however it ends").
EachTurnEndsOnce ==
    \A t \in TurnIds :
        /\ duplex.timings[t] = duplex.endings[t]
        /\ duplex.timings[t] =
              IF t <= duplex.issued /\ t # duplex.turn THEN 1 ELSE 0

\* The timing profile of a reopened turn starts again: the points the state
\* changes stamp are those of the present revision, so a reply's latency is
\* never measured from a superseded one.
ProfileFollowsState ==
    /\ "vad_end" \in duplex.marks => duplex.state # "speech_started"
    /\ "thinking" \in duplex.marks <=> duplex.state \in {"thinking", "speaking"}
    /\ "speaking" \in duplex.marks <=> duplex.state = "speaking"

\* Speaking is the commitment point: a turn that has started to speak is
\* never reopenable again.
SpeakingCommits == duplex.state = "speaking" => ~duplex.reopenable

-----------------------------------------------------------------------------
(* The kernel implements TurnLifecycle.                                    *)

Lifecycle == INSTANCE TurnLifecycle
             WITH Revisions <- 0..MaxRevision,
                  phase <- phaseOf(duplex),
                  live <- LiveHandles(duplex)

\* Whatever its caller does, the kernel keeps the promise of TurnLifecycle:
\* one open turn, no return from speaking to capture, nothing after over.
ImplementsLifecycle == Lifecycle!Spec
=============================================================================
