---------------------------- MODULE DuplexKernel ----------------------------
(***************************************************************************)
(* The duplex session kernel (packages/duplex-session/src/index.ts, class  *)
(* DuplexSession) as operators on a session record.  Every kernel method   *)
(* is synchronous, and callers chain several of them in one turn of the    *)
(* event loop, so each method is a function from record to record and a    *)
(* caller's atomic step is a composition of them.                          *)
(*                                                                         *)
(* A session record d has the fields                                       *)
(*   state       currentState                                              *)
(*   turn        active.id, 0 when active is undefined                     *)
(*   reopenable  active.reopenable                                         *)
(*   marks       the timing points stamped in active.timing                *)
(*   issued      how many turn ids newTurnId has produced                  *)
(*   revs        the last revision of every turn                           *)
(*   aborted     the handles <<turn, revision>> whose AbortSignal fired    *)
(*   finished    the handles whose turn was completed                      *)
(*   timings     turn.timing events emitted, per turn                      *)
(*   endings     turn.completed and turn.interrupted events, per turn      *)
(* The last four record what observers and holders of a signal have seen.  *)
(***************************************************************************)
EXTENDS Naturals

CONSTANTS
    MaxTurns,         \* bound: turns one session ever starts
    MaxRevision,      \* bound: times one turn is reopened
    ObserverReenters  \* onEvent interrupts again on a spoken barge-in

ASSUME KernelAssumption ==
    /\ MaxTurns \in Nat
    /\ MaxRevision \in Nat
    /\ ObserverReenters \in BOOLEAN

TurnIds == 1..MaxTurns
Handles == TurnIds \X (0..MaxRevision)

SessionStates == {"idle", "listening", "speech_started", "finalizing",
                  "thinking", "speaking", "closed"}

\* A turn exists in exactly these states.
TurnStates == {"speech_started", "finalizing", "thinking", "speaking"}

TimingPoints == {"vad_end", "thinking", "asr_done", "llm_first", "speaking",
                 "tts_first_audio", "playback_first"}

Reasons == {"barge_in", "cancel", "shutdown"}

NewSession ==
    [state |-> "idle", turn |-> 0, reopenable |-> FALSE, marks |-> {},
     issued |-> 0, revs |-> [t \in TurnIds |-> 0],
     aborted |-> {}, finished |-> {},
     timings |-> [t \in TurnIds |-> 0], endings |-> [t \in TurnIds |-> 0]]

\* The handle a caller of the kernel holds for the active turn.
Current(d) == <<d.turn, d.revs[d.turn]>>

\* Every handle the kernel has given out.
HandedOut(d) == {h \in Handles : h[1] <= d.issued /\ h[2] <= d.revs[h[1]]}

\* The handles whose holder still believes it may work for its turn.
LiveHandles(d) == {h \in HandedOut(d) : h \notin d.aborted \cup d.finished}

\* Any handle whose signal has fired; what turn.signal.aborted reads.
Aborted(d, h) == h \in d.aborted

\* What each turn of the session is doing, in the words of TurnLifecycle.
phaseOf(d) ==
    [t \in TurnIds |->
        CASE t > d.issued -> "new"
          [] t <= d.issued /\ t # d.turn -> "over"
          [] t = d.turn /\ d.state = "speech_started" -> "capturing"
          [] t = d.turn /\ d.state = "speaking" -> "speaking"
          [] OTHER -> "answering"]

isCurrent(d, t) == d.turn # 0 /\ d.turn = t

-----------------------------------------------------------------------------
(* Ending a turn.                                                          *)

\* turn.timing, then turn.completed or turn.interrupted, n times each.
emitEnd(d, n) ==
    [d EXCEPT !.timings[d.turn] = @ + n, !.endings[d.turn] = @ + n]

\* active = undefined, then the transition to listening unless closed.
dropActive(d) ==
    [d EXCEPT !.turn = 0, !.reopenable = FALSE, !.marks = {},
              !.state = IF @ = "closed" THEN @ ELSE "listening"]

\* turn.interrupted is delivered while the turn is still active and the state
\* still "speaking".  The gateway's observer stops agent narration there, and
\* the narration sink interrupts the kernel again before the first call ends.
announcements(d, reason) ==
    IF ObserverReenters /\ reason = "barge_in" /\ d.state = "speaking"
    THEN 2 ELSE 1

interrupt(d, reason) ==
    IF d.turn = 0 THEN d
    ELSE dropActive(emitEnd([d EXCEPT !.aborted = @ \cup {Current(d)}],
                            announcements(d, reason)))

mayComplete(d, t) == isCurrent(d, t) /\ d.state \in {"thinking", "speaking"}

\* Mistake: the completed turn reports no timing.
completeUntimed(d, t) ==
    IF mayComplete(d, t)
    THEN dropActive([d EXCEPT !.finished = @ \cup {Current(d)},
                              !.endings[d.turn] = @ + 1])
    ELSE d

complete(d, t) ==
    IF mayComplete(d, t)
    THEN dropActive(emitEnd([d EXCEPT !.finished = @ \cup {Current(d)}], 1))
    ELSE d

close(d) ==
    IF d.state = "closed" THEN d
    ELSE [interrupt(d, "shutdown") EXCEPT !.state = "closed"]

-----------------------------------------------------------------------------
(* Starting a turn.                                                        *)

start(d) == [d EXCEPT !.state = "listening"]

newTurn(d, state) ==
    [d EXCEPT !.turn = d.issued + 1, !.issued = d.issued + 1,
              !.reopenable = FALSE, !.marks = {}, !.state = state]

\* requireState throws in the two other states.
mayStartUserSpeech(d) == d.state \notin {"idle", "closed"}

startUserSpeech(d) == newTurn(interrupt(d, "barge_in"), "speech_started")

mayStartIdleTurn(d) == d.state = "listening" /\ d.turn = 0

startUserText(d) ==
    IF mayStartIdleTurn(d) THEN newTurn(d, "finalizing") ELSE d

startAgentTurn(d) ==
    IF mayStartIdleTurn(d) THEN newTurn(d, "finalizing") ELSE d

-----------------------------------------------------------------------------
(* Moving a turn along.                                                    *)

mark(d, t, point) ==
    IF isCurrent(d, t) THEN [d EXCEPT !.marks = @ \cup {point}] ELSE d

mayFinalize(d, t) == isCurrent(d, t) /\ d.state = "speech_started"

finalizeUserSpeech(d, t) ==
    IF mayFinalize(d, t)
    THEN [mark(d, t, "vad_end") EXCEPT !.reopenable = FALSE,
                                       !.state = "finalizing"]
    ELSE d

softFinalizeUserSpeech(d, t) ==
    IF mayFinalize(d, t)
    THEN [mark(d, t, "vad_end") EXCEPT !.reopenable = TRUE,
                                       !.state = "finalizing"]
    ELSE d

\* Mistake: any reopenable turn reopens, whatever it is doing.
mayReopenAnyState(d, t) == isCurrent(d, t) /\ d.reopenable

mayReopen(d, t) ==
    isCurrent(d, t) /\ d.reopenable /\ d.state \in {"finalizing", "thinking"}

\* Mistake: the superseded revision's signal is never fired.
reopenUnaborted(d, t) ==
    IF mayReopen(d, t)
    THEN [d EXCEPT !.revs[t] = @ + 1, !.marks = {}, !.state = "speech_started"]
    ELSE d

reopen(d, t) ==
    IF mayReopen(d, t)
    THEN [d EXCEPT !.aborted = @ \cup {Current(d)}, !.revs[t] = @ + 1,
                   !.marks = {}, !.state = "speech_started"]
    ELSE d

mayThink(d, t) == isCurrent(d, t) /\ d.state = "finalizing"

startThinking(d, t) ==
    IF mayThink(d, t)
    THEN [mark(d, t, "thinking") EXCEPT !.state = "thinking"]
    ELSE d

maySpeak(d, t) == isCurrent(d, t) /\ d.state = "thinking"

startSpeaking(d, t) ==
    IF maySpeak(d, t)
    THEN [mark(d, t, "speaking") EXCEPT !.reopenable = FALSE,
                                        !.state = "speaking"]
    ELSE d
=============================================================================
