--------------------------- MODULE ConversationLoop ---------------------------
(***************************************************************************)
(* The conversation loop (packages/conversation/src/index.ts,              *)
(* runConversation) over the duplex kernel, in its LLM-reply mode.         *)
(*                                                                         *)
(* Three kinds of process interleave at the awaits of one event loop:      *)
(*   - the frame loop: one frame at a time, suspended in vad.push;         *)
(*   - one dispatch (processTurn or speakAgentTurn) per work handle,       *)
(*     suspended in ASR, observers, the model, a tool or the player;       *)
(*   - the owner of the session: typed text, an interrupt command, queued  *)
(*     agent speech and stop (apps/realtime-gateway/src/session.ts).       *)
(* Everything between two awaits is one action.  The engine milestones the *)
(* loop stamps with mark() only annotate turn.timing and are left out here;*)
(* module DuplexSession has them.                                          *)
(***************************************************************************)
EXTENDS DuplexKernel

CONSTANTS
    Sessions,   \* the sessions a run looks at: options, and what their owner does
    MaxQueued   \* bound: agent speech waiting in agentSpeechQueue

\* Optional parts of a session, and the controls its owner uses.  calls bounds
\* the tool calls one dispatch makes; with 0 the session has no tools.
Features == {"welcome", "nudge", "keyterms"}
Controls == {"turn.text", "turn.interrupt", "agent.speech", "session.stop"}

ASSUME LoopAssumption ==
    /\ Sessions \subseteq [allowBargeIn : BOOLEAN, speculative : BOOLEAN,
                           features : SUBSET Features, controls : SUBSET Controls,
                           calls : Nat]
    /\ MaxQueued \in Nat

VARIABLES
    options,      \* the session's options and the controls its owner uses
    duplex,       \* the kernel's session record
    loop,         \* where the frame loop is suspended
    push,         \* the awaited vad.push: its event, and whether it is stale
    segment,      \* the utterance the VAD is assembling
    mic,          \* activeTurn: the handle capturing speech
    prefix,       \* continuationPrefix is set
    speculative,  \* speculative.turnId, 0 when undefined
    suppressed,   \* suppressInputUntil: past, a deadline, or infinity
    nudge,        \* nudgeDeadlineMs is set
    queued,       \* agentSpeechQueue.length
    work,         \* every dispatch ever started, by its handle
    pending,      \* pendingExternal, named by the dispatch that parked it
    settled       \* how each parked action left pendingExternal, and by whom

\* What dispatches and the owner leave to the frame loop.
micVars == <<options, loop, push, segment, mic, prefix, speculative>>
vars == <<options, duplex, loop, push, segment, mic, prefix, speculative, suppressed,
          nudge, queued, work, pending, settled>>

NoHandle == <<0, 0>>

VadEvents == {"none", "start", "confirmed", "dropped", "end"}

\* Where a dispatch is suspended; "model" covers the reply pipeline.
Suspensions == {"asr", "keyterms", "model", "tool", "closing"}

NoWork == [at |-> "unstarted", kind |-> "user", offered |-> NoHandle,
           said |-> FALSE, acted |-> FALSE, calls |-> 0, voiced |-> FALSE]

\* transcript from ASR, not yet available.
AudioWork == [NoWork EXCEPT !.at = "asr"]

\* A typed turn reaches the model without suspending.
TextWork == [NoWork EXCEPT !.at = "model", !.kind = "text", !.offered = pending]

\* speakAgentTurn has its whole text from the start; only the welcome line
\* arms the nudge.
AgentWork(kind) == [NoWork EXCEPT !.at = "model", !.kind = kind, !.said = TRUE]

\* What the dispatches are after the signals d has fired: a fresh abort stops
\* the player, and from then on the dispatch only looks for a way out.  Of its
\* locals it keeps what it has already said.
AfterAborts(d) ==
    [h \in Handles |->
        IF Aborted(d, h) /\ ~Aborted(duplex, h) /\ work[h].at # "unstarted"
        THEN [NoWork EXCEPT !.at = work[h].at, !.said = work[h].said]
        ELSE work[h]]

ByAgent(w) == w.kind \in {"agent", "welcome"}

Init ==
    /\ options \in Sessions
    /\ duplex = start(NewSession)
    /\ work = [h \in Handles |-> NoWork]
    /\ loop = "starting"
    /\ push = [event |-> "none", stale |-> FALSE]
    /\ segment = "quiet"
    /\ mic = NoHandle
    /\ prefix = FALSE
    /\ speculative = 0
    /\ suppressed = "no"
    /\ nudge = FALSE
    /\ queued = 0
    /\ pending = NoHandle
    /\ settled = {}

-----------------------------------------------------------------------------
(* The frame loop up to its await of vad.push.                             *)

\* runConversation up to its first frame: the controls exist from here on, and
\* the welcome line, when there is one, is the first turn.
Begin ==
    /\ loop = "starting"
    /\ duplex.state # "closed"
    /\ loop' = "frame"
    /\ \/ UNCHANGED <<duplex, work>>
       \/ /\ "welcome" \in options.features
          /\ MaxTurns > 0
          /\ duplex' = startThinking(startAgentTurn(duplex), 1)
          /\ work' = [work EXCEPT ![<<1, 0>>] = AgentWork("welcome")]
    /\ UNCHANGED <<push, segment, mic, prefix, speculative, suppressed, nudge,
                   queued, pending, settled, options>>

InputSuppressed ==
    ~options.allowBargeIn /\ (duplex.state = "speaking" \/ suppressed # "no")

FrameAfterClose ==
    /\ loop = "frame"
    /\ duplex.state = "closed"
    /\ loop' = "ended"
    /\ UNCHANGED <<duplex, push, segment, mic, prefix, speculative, suppressed,
                   nudge, queued, work, pending, settled, options>>

SuppressedFrame ==
    /\ loop = "frame"
    /\ duplex.state # "closed"
    /\ InputSuppressed
    /\ segment' = "quiet"
    /\ UNCHANGED <<duplex, loop, push, mic, prefix, speculative, suppressed,
                   nudge, queued, work, pending, settled, options>>

\* What the segmenter may report of an utterance it is assembling.
Reportable ==
    CASE segment = "quiet"       -> {"none", "start"}
      [] segment = "provisional" -> {"none", "confirmed", "dropped"}
      [] segment = "confirmed"   -> {"none", "end"}

\* The segmenter's state after it reported the event.
Segmented(event) ==
    CASE event = "none"      -> segment
      [] event = "start"     -> "provisional"
      [] event = "confirmed" -> "confirmed"
      [] OTHER               -> "quiet"

\* Mistake: the marker outlives its turn.
StaleSpeculative == speculative

\* A marker whose turn is no longer current is dropped before it is used.
FreshSpeculative ==
    IF duplex.turn = speculative THEN speculative ELSE 0

IdleGap == mic = NoHandle /\ FreshSpeculative = 0

\* Queued speech first, then the nudge; the kernel grants at most one of them.
\* A push that reports nothing is not suspended in: nothing follows its await.
Frame(event) ==
    /\ loop = "frame"
    /\ duplex.state # "closed"
    /\ ~InputSuppressed
    /\ event \in Reportable
    /\ \E due \in BOOLEAN :
        LET granted == mayStartIdleTurn(duplex) /\ duplex.issued < MaxTurns
            speaks  == queued > 0 /\ IdleGap /\ granted
            fires   == nudge /\ due /\ IdleGap
            starts  == speaks \/ (fires /\ granted)
            t       == duplex.issued + 1
            d       == IF starts THEN startThinking(startAgentTurn(duplex), t)
                       ELSE duplex
        IN  /\ due => nudge
            /\ event = "confirmed" /\ mic = NoHandle => d.issued < MaxTurns
            /\ duplex' = d
            /\ work' = IF starts THEN [work EXCEPT ![<<t, 0>>] = AgentWork("agent")]
                       ELSE work
            /\ queued' = IF speaks THEN queued - 1 ELSE queued
            /\ nudge' = (nudge /\ ~fires)
    /\ speculative' = FreshSpeculative
    /\ segment' = Segmented(event)
    /\ push' = [event |-> event, stale |-> FALSE]
    /\ loop' = IF event = "none" THEN "frame" ELSE "push"
    /\ UNCHANGED <<mic, prefix, suppressed, pending, settled, options>>

-----------------------------------------------------------------------------
(* The frame loop after vad.push: one action per event.                    *)

Resume(event) ==
    /\ loop = "push"
    /\ ~push.stale
    /\ push.event = event
    /\ push' = [event |-> "none", stale |-> FALSE]
    /\ UNCHANGED <<segment, suppressed, queued, pending, settled, options>>

\* vadGeneration moved while the push was awaited: its events are dropped.
StalePush ==
    /\ loop = "push"
    /\ push.stale
    /\ push' = [event |-> "none", stale |-> FALSE]
    /\ segment' = "quiet"
    /\ loop' = "frame"
    /\ UNCHANGED <<duplex, mic, prefix, speculative, suppressed, nudge, queued,
                   work, pending, settled, options>>

\* recent: the frame came within reopenMs of the soft end.
SpeechStart ==
    /\ Resume("start")
    /\ loop' = "frame"
    /\ nudge' = FALSE
    /\ \E recent \in BOOLEAN :
         IF /\ recent /\ speculative # 0 /\ mic = NoHandle
            /\ mayReopen(duplex, speculative)
            /\ duplex.revs[speculative] < MaxRevision
         THEN /\ duplex' = reopen(duplex, speculative)
              /\ mic' = Current(duplex')
              /\ prefix' = TRUE
              /\ speculative' = 0
              /\ work' = AfterAborts(duplex')
         ELSE UNCHANGED <<duplex, mic, prefix, speculative, work>>

\* startUserSpeech throws in a closed session, which ends the loop.
SpeechConfirmed ==
    /\ Resume("confirmed")
    /\ IF mic # NoHandle
       THEN loop' = "frame" /\ UNCHANGED <<duplex, mic, work>>
       ELSE IF mayStartUserSpeech(duplex)
       THEN /\ loop' = "frame"
            /\ duplex' = startUserSpeech(duplex)
            /\ mic' = Current(duplex')
            /\ work' = AfterAborts(duplex')
       ELSE loop' = "crashed" /\ UNCHANGED <<duplex, mic, work>>
    /\ UNCHANGED <<prefix, speculative, nudge>>

\* The captured audio goes to ASR: startWork runs up to the transcription.
SoftEnded(h) ==
    /\ duplex' = startThinking(softFinalizeUserSpeech(duplex, h[1]), h[1])
    /\ work' = [work EXCEPT ![h] = AudioWork]
    /\ speculative' = h[1]

HardEnded(h) ==
    /\ duplex' = startThinking(finalizeUserSpeech(duplex, h[1]), h[1])
    /\ work' = [work EXCEPT ![h] = AudioWork]
    /\ UNCHANGED speculative

\* Mistake: a reopen that never became speech is simply forgotten.
SpeechDroppedForgets ==
    /\ Resume("dropped")
    /\ loop' = "frame"
    /\ mic' = NoHandle
    /\ prefix' = FALSE
    /\ UNCHANGED <<duplex, speculative, work, nudge>>

\* Mistake: the dispatch is put back and the frame loop still holds the turn.
SpeechDroppedHolding ==
    /\ Resume("dropped")
    /\ loop' = "frame"
    /\ IF mic # NoHandle /\ prefix
       THEN /\ prefix' = FALSE
            /\ IF mayFinalize(duplex, mic[1])
               THEN SoftEnded(mic)
               ELSE UNCHANGED <<duplex, work, speculative>>
       ELSE UNCHANGED <<duplex, prefix, speculative, work>>
    /\ UNCHANGED <<mic, nudge>>

\* A reopen that never became speech puts the dispatch back; any other burst
\* of noise only annotates the speaking turn (recordFalseBargeIn).
SpeechDropped ==
    /\ Resume("dropped")
    /\ loop' = "frame"
    /\ IF mic # NoHandle /\ prefix
       THEN /\ mic' = NoHandle
            /\ prefix' = FALSE
            /\ IF mayFinalize(duplex, mic[1])
               THEN SoftEnded(mic)
               ELSE UNCHANGED <<duplex, work, speculative>>
       ELSE UNCHANGED <<duplex, mic, prefix, speculative, work>>
    /\ UNCHANGED nudge

SpeechEnd ==
    /\ Resume("end")
    /\ loop' = "frame"
    /\ IF mic = NoHandle
       THEN UNCHANGED <<duplex, mic, prefix, speculative, work>>
       ELSE /\ prefix' = FALSE
            /\ IF mayFinalize(duplex, mic[1])
               THEN /\ mic' = NoHandle
                    /\ IF options.speculative THEN SoftEnded(mic) ELSE HardEnded(mic)
               ELSE UNCHANGED <<duplex, mic, speculative, work>>
    /\ UNCHANGED nudge

FrameLoop ==
    \/ Begin \/ FrameAfterClose \/ SuppressedFrame
    \/ \E event \in VadEvents : Frame(event)
    \/ StalePush \/ SpeechStart \/ SpeechConfirmed
    \/ SpeechDropped \/ SpeechEnd

-----------------------------------------------------------------------------
(* Dispatches.  Only these fields differ from step to step.                *)

Goes(h, at) == work' = [work EXCEPT ![h].at = at]

\* The dispatch's promise settles; nothing of its locals is kept.
Returns(h) == work' = [work EXCEPT ![h] = [NoWork EXCEPT !.at = "done"]]

\* The finally block of the reply pipeline.
Released == IF options.allowBargeIn THEN suppressed ELSE "until"

\* Mistake: suppression is not lifted on the way out.
LeavesPipelineDeaf(h) == Returns(h) /\ UNCHANGED suppressed

\* Handle h's dispatch returns from inside the reply pipeline.
LeavesPipeline(h) == Returns(h) /\ suppressed' = Released

\* onTranscript, then the pending action is captured for this dispatch.
OffersPending(h) ==
    work' = [work EXCEPT ![h].at = "model", ![h].offered = pending]

\* Mistake: an empty transcript ends the dispatch and not its turn.
TranscribedQuietly(h) ==
    /\ work[h].at = "asr"
    /\ IF Aborted(duplex, h)
       THEN Returns(h)
       ELSE Returns(h) \/ OffersPending(h)
    /\ UNCHANGED <<duplex, micVars, suppressed, nudge, queued, pending, settled>>

\* ASR answered and onUtterance returned.  The request's signal may fire too
\* late to stop the answer; the only abort check before the model is here.
Transcribed(h) ==
    /\ work[h].at = "asr"
    /\ IF Aborted(duplex, h)
       THEN Returns(h) /\ UNCHANGED duplex
       ELSE \/ /\ IF "keyterms" \in options.features THEN Goes(h, "keyterms")
                ELSE OffersPending(h)
             /\ UNCHANGED duplex
            \/ Returns(h) /\ duplex' = interrupt(duplex, "cancel")
    /\ UNCHANGED <<micVars, suppressed, nudge, queued, pending, settled>>

\* No abort check follows this await.
KeytermsArrive(h) ==
    /\ work[h].at = "keyterms"
    /\ OffersPending(h)
    /\ UNCHANGED <<duplex, micVars, suppressed, nudge, queued, pending, settled>>

\* The first delta of the reply.
ModelSpeaks(h) ==
    /\ work[h].at = "model"
    /\ ~work[h].said
    /\ ~Aborted(duplex, h)
    /\ work' = [work EXCEPT ![h].said = TRUE]
    /\ UNCHANGED <<duplex, micVars, suppressed, nudge, queued, pending, settled>>

\* The model calls a tool; the loop's abort check precedes each call.
Calls(h) ==
    /\ work[h].at = "model"
    /\ ~ByAgent(work[h])
    /\ work[h].calls < options.calls
    /\ ~Aborted(duplex, h)
    /\ UNCHANGED <<duplex, micVars, suppressed, nudge, queued>>

\* A call answered without suspending.
Answered(h, ok) ==
    work' = [work EXCEPT ![h].calls = @ + 1, ![h].acted = @ \/ ok]

\* A call whose handler is awaited.
Executes(h) ==
    work' = [work EXCEPT ![h].calls = @ + 1, ![h].at = "tool"]

\* A read or session tool runs at once.
CallTool(h) == Calls(h) /\ Executes(h) /\ UNCHANGED <<pending, settled>>

\* Bad arguments, an unknown tool, a second external call while one waits, or
\* a confirmation of nothing: a structured refusal.
CallRefused(h) == Calls(h) /\ Answered(h, FALSE) /\ UNCHANGED <<pending, settled>>

\* An external tool is held, not run.
CallParked(h) ==
    /\ Calls(h)
    /\ pending = NoHandle
    /\ pending' = h
    /\ Answered(h, TRUE)
    /\ UNCHANGED settled

\* Mistake: whatever is pending may be confirmed.
MayConfirmAny(h) == pending # NoHandle

MayConfirm(h) == work[h].offered # NoHandle /\ pending = work[h].offered

Settle(h, how) ==
    /\ pending' = NoHandle
    /\ settled' = settled \cup {[action |-> pending, by |-> h, how |-> how]}

\* Mistake: the slot is cleared only once the handler has answered.
CallConfirmHeld(h) ==
    /\ Calls(h) /\ MayConfirm(h)
    /\ settled' = settled \cup {[action |-> pending, by |-> h, how |-> "ran"]}
    /\ Executes(h)
    /\ UNCHANGED pending

\* confirm_action clears the slot, then awaits the real handler.
CallConfirm(h) ==
    Calls(h) /\ MayConfirm(h) /\ Settle(h, "ran") /\ Executes(h)

CallCancel(h) ==
    Calls(h) /\ MayConfirm(h) /\ Settle(h, "cancelled") /\ Answered(h, TRUE)

\* A handler's failure is its result, never an exception of the dispatch.
ToolReturns(h) ==
    /\ work[h].at = "tool"
    /\ \E ok \in BOOLEAN :
          work' = [work EXCEPT ![h].at = "model",
                                ![h].acted = @ \/ (ok /\ ~Aborted(duplex, h))]
    /\ UNCHANGED <<duplex, micVars, suppressed, nudge, queued, pending, settled>>

\* Mistake: a late piece is played without asking the signal.
PieceUnchecked(h) ==
    /\ work[h].at = "model"
    /\ work[h].said
    /\ duplex' = startSpeaking(duplex, h[1])
    /\ suppressed' = IF options.allowBargeIn THEN suppressed ELSE "forever"
    /\ work' = [work EXCEPT ![h].voiced = TRUE]
    /\ UNCHANGED <<micVars, nudge, queued, pending, settled>>

\* A piece of what was said reaches the player.  The pipeline is pulled from this
\* end: while a tool is awaited nothing is synthesized or played.
Piece(h) ==
    /\ work[h].at = "model"
    /\ work[h].said
    /\ ~Aborted(duplex, h)
    /\ duplex' = startSpeaking(duplex, h[1])
    /\ suppressed' = IF options.allowBargeIn THEN suppressed ELSE "forever"
    /\ work' = [work EXCEPT ![h].voiced = TRUE]
    /\ UNCHANGED <<micVars, nudge, queued, pending, settled>>

\* The aborted dispatch notices its signal inside the pipeline and returns.
Unwinds(h) ==
    /\ work[h].at \in {"model", "closing"}
    /\ Aborted(duplex, h)
    /\ LeavesPipeline(h)
    /\ UNCHANGED <<duplex, micVars, nudge, queued, pending, settled>>

\* Mistake: an empty reply ends the dispatch and not its turn.
EmptyReplyQuietly(h) ==
    /\ work[h].at = "model"
    /\ ~work[h].said /\ ~work[h].acted
    /\ ~Aborted(duplex, h)
    /\ LeavesPipeline(h)
    /\ UNCHANGED <<duplex, micVars, nudge, queued, pending, settled>>

\* Neither words nor a successful tool: llm_empty.
EmptyReply(h) ==
    /\ work[h].at = "model"
    /\ ~work[h].said /\ ~work[h].acted
    /\ ~Aborted(duplex, h)
    /\ duplex' = interrupt(duplex, "cancel")
    /\ LeavesPipeline(h)
    /\ UNCHANGED <<micVars, nudge, queued, pending, settled>>

\* Generation is over: an offer left unanswered is dropped, and player.close()
\* is awaited for the audible tail.
ReplyEnds(h) ==
    /\ work[h].at = "model"
    /\ work[h].said \/ work[h].acted
    /\ ~Aborted(duplex, h)
    /\ IF MayConfirm(h) THEN Settle(h, "dropped") ELSE UNCHANGED <<pending, settled>>
    /\ Goes(h, "closing")
    /\ UNCHANGED <<duplex, micVars, suppressed, nudge, queued>>

\* Mistake: the signal is not asked again after player.close().
PlayerClosesUnchecked(h) ==
    /\ work[h].at = "closing"
    /\ duplex' = complete(duplex, h[1])
    /\ LeavesPipeline(h)
    /\ UNCHANGED <<micVars, nudge, queued, pending, settled>>

\* The reply is audibly done.
PlayerCloses(h) ==
    /\ work[h].at = "closing"
    /\ ~Aborted(duplex, h)
    /\ duplex' = complete(duplex, h[1])
    /\ nudge' = (nudge \/ ("nudge" \in options.features /\ work[h].kind # "agent"))
    /\ LeavesPipeline(h)
    /\ UNCHANGED <<micVars, queued, pending, settled>>

\* An await rejected or an observer threw: the engines and the player included.
Fails(h) ==
    /\ work[h].at \in Suspensions \ {"tool"}
    /\ duplex' = IF Aborted(duplex, h) THEN duplex ELSE interrupt(duplex, "cancel")
    /\ Returns(h)
    /\ suppressed' = IF work[h].at \in {"model", "closing"} THEN Released
                     ELSE suppressed
    /\ UNCHANGED <<micVars, nudge, queued, pending, settled>>

Dispatch(h) ==
    \/ Transcribed(h) \/ KeytermsArrive(h)
    \/ ModelSpeaks(h) \/ Piece(h)
    \/ CallTool(h) \/ CallRefused(h) \/ CallParked(h)
    \/ CallConfirm(h) \/ CallCancel(h) \/ ToolReturns(h)
    \/ Unwinds(h) \/ EmptyReply(h) \/ ReplyEnds(h) \/ PlayerCloses(h)
    \/ Fails(h)

-----------------------------------------------------------------------------
(* The owner of the session, and time.                                     *)

\* Mistake: the push being awaited is not recognized as stale.
TypedTextFresh ==
    /\ "turn.text" \in options.controls
    /\ loop # "starting"
    /\ duplex.state \notin {"idle", "closed"}
    /\ duplex.issued < MaxTurns
    /\ LET d == IF duplex.state = "listening" THEN duplex
                ELSE interrupt(duplex, "barge_in")
           t == duplex.issued + 1
       IN  /\ duplex' = startThinking(startUserText(d), t)
           /\ work' = [AfterAborts(d) EXCEPT ![<<t, 0>>] = TextWork]
    /\ mic' = NoHandle
    /\ segment' = "quiet"
    /\ nudge' = FALSE
    /\ speculative' = 0
    /\ prefix' = FALSE
    /\ UNCHANGED <<options, loop, push, suppressed, queued, pending, settled>>

\* turn.text: interrupt whatever runs, then submitUserText, in one step.
TypedText ==
    /\ "turn.text" \in options.controls
    /\ loop # "starting"
    /\ duplex.state \notin {"idle", "closed"}
    /\ duplex.issued < MaxTurns
    /\ LET d == IF duplex.state = "listening" THEN duplex
                ELSE interrupt(duplex, "barge_in")
           t == duplex.issued + 1
       IN  /\ duplex' = startThinking(startUserText(d), t)
           /\ work' = [AfterAborts(d) EXCEPT ![<<t, 0>>] = TextWork]
    /\ mic' = NoHandle
    /\ push' = [push EXCEPT !.stale = (loop = "push")]
    /\ segment' = "quiet"
    /\ nudge' = FALSE
    /\ speculative' = 0
    /\ prefix' = FALSE
    /\ UNCHANGED <<options, loop, suppressed, queued, pending, settled>>

\* turn.interrupt, naming the current turn.
OwnerInterrupt ==
    /\ "turn.interrupt" \in options.controls
    /\ duplex.turn # 0
    /\ duplex' = interrupt(duplex, "cancel")
    /\ work' = AfterAborts(duplex')
    /\ UNCHANGED <<micVars, suppressed, nudge, queued, pending, settled>>

\* session.stop, a lost socket's grace running out, the session ceiling.
Stop ==
    /\ "session.stop" \in options.controls
    /\ duplex.state # "closed"
    /\ duplex' = close(duplex)
    /\ work' = AfterAborts(duplex')
    /\ UNCHANGED <<micVars, suppressed, nudge, queued, pending, settled>>

QueueAgentSpeech ==
    /\ "agent.speech" \in options.controls
    /\ loop # "starting"
    /\ queued < MaxQueued
    /\ queued' = queued + 1
    /\ UNCHANGED <<duplex, micVars, suppressed, nudge, work, pending, settled>>

ClearQueuedAgentSpeech ==
    /\ queued > 0
    /\ queued' = 0
    /\ UNCHANGED <<duplex, micVars, suppressed, nudge, work, pending, settled>>

\* The 750 ms after a reply's last sound have passed.
SuppressionPasses ==
    /\ suppressed = "until"
    /\ suppressed' = "no"
    /\ UNCHANGED <<duplex, micVars, nudge, queued, work, pending, settled>>

Owner ==
    \/ TypedText \/ OwnerInterrupt \/ Stop
    \/ QueueAgentSpeech \/ ClearQueuedAgentSpeech

Next == FrameLoop \/ (\E h \in Handles : Dispatch(h)) \/ Owner \/ SuppressionPasses

\* Engines, observers, tools and the player settle every await; frames keep
\* arriving, and the segmenter bounds an utterance (silenceMs, maxSpeechMs).
Fairness ==
    /\ \A h \in Handles : WF_vars(Dispatch(h))
    /\ WF_vars(FrameLoop)
    /\ SF_vars(Frame("end"))
    /\ SF_vars(Frame("confirmed") \/ Frame("dropped"))
    /\ WF_vars(SuppressionPasses)

Spec == Init /\ [][Next]_vars

FairSpec == Spec /\ Fairness

-----------------------------------------------------------------------------
(* Properties.                                                             *)

\* Type invariant of the loop and its dispatches.
TypeOK ==
    /\ options \in Sessions
    /\ duplex.state \in SessionStates \ {"idle", "finalizing"}
    /\ duplex.issued \in 0..MaxTurns
    /\ loop \in {"starting", "frame", "push", "ended", "crashed"}
    /\ push \in [event : VadEvents, stale : BOOLEAN]
    /\ segment \in {"quiet", "provisional", "confirmed"}
    /\ mic \in Handles \cup {NoHandle}
    /\ prefix \in BOOLEAN
    /\ speculative \in 0..MaxTurns
    /\ suppressed \in {"no", "until", "forever"}
    /\ nudge \in BOOLEAN
    /\ queued \in 0..MaxQueued
    /\ work \in [Handles -> [at : Suspensions \cup {"unstarted", "done"},
                            kind : {"user", "text", "agent", "welcome"},
                            offered : Handles \cup {NoHandle},
                            said : BOOLEAN, acted : BOOLEAN,
                            calls : 0..options.calls, voiced : BOOLEAN]]
    /\ pending \in Handles \cup {NoHandle}
    /\ settled \subseteq [action : Handles, by : Handles,
                          how : {"ran", "cancelled", "dropped"}]

\* Speech is never captured for a turn the frame loop does not hold: whenever
\* the kernel is in speech_started, activeTurn is that turn's newest handle,
\* so some speech.end can still finalize it.
CaptureIsHeld == duplex.state = "speech_started" => mic = Current(duplex)

\* A turn past capture always has a running dispatch of its newest revision:
\* no early return, failure or reopen leaves the session thinking or speaking
\* with nobody left to end it.
ThinkingIsWorkedOn ==
    duplex.state \in {"thinking", "speaking"} =>
        work[Current(duplex)].at \in Suspensions

\* From its first word to its end a turn has somebody who will end it.
EveryTurnIsOwned == CaptureIsHeld /\ ThinkingIsWorkedOn

\* Only the newest revision's own dispatch makes its turn speak; a superseded
\* dispatch that yields a late piece of audio never does.
OnlyCurrentWorkSpeaks ==
    duplex.state = "speaking" => work[Current(duplex)].voiced

\* Only a turn's own dispatch completes it: a superseded dispatch whose player
\* closes late never ends the turn its successor is still answering.
CompletedByOwnWork == \A h \in duplex.finished : work[h].at = "done"

\* A superseded dispatch neither speaks for its successor nor ends its turn.
SupersededWorkIsMute == OnlyCurrentWorkSpeaks /\ CompletedByOwnWork

\* An external action leaves the confirmation slot once: it is run, cancelled
\* or dropped by one dispatch, so a reopen during its handler cannot run it
\* twice.
SettledOnce ==
    \A s1, s2 \in settled : s1.action = s2.action => s1 = s2

\* A dispatch never confirms the action it parked itself: the model cannot ask
\* and answer within one reply.
NeverConfirmedByItself == \A s \in settled : s.action # s.by

\* An external action is asked about first, and then decided once.
ActionsAreAskedOnce == SettledOnce /\ NeverConfirmedByItself

\* A voice turn is opened only for an utterance the segmenter still holds:
\* speech that a typed turn discarded while vad.push was awaited never comes
\* back to interrupt that typed turn.
OnlyHeldSpeechOpensTurn ==
    [][ mic = NoHandle /\ mic' # NoHandle /\ duplex'.issued > duplex.issued
        => segment = "confirmed" ]_vars

\* Between utterances the frame loop holds no turn, so the next utterance can
\* open one: a held turn whose end was missed blocks the microphone, the nudge
\* and agent speech.
QuietMicHoldsNoTurn ==
    (loop = "frame" /\ segment = "quiet" /\ duplex.state # "closed")
        => mic = NoHandle

\* "The window is consumed when a turn completes audibly": a dispatch that
\* dropped the offered action was never aborted.
DroppedOnlyByHeardTurns ==
    \A s \in settled : s.how = "dropped" => s.by \notin duplex.aborted

\* "Never executed without spoken confirmation": an action only runs once the
\* turn that asked for it has completed.
RunOnlyAfterHeardQuestion ==
    \A s \in settled : s.how = "ran" => s.action \in duplex.finished

\* In protected mode the loop is never left deaf: while the microphone is
\* suppressed without end, some dispatch has yet to lift it on its way out.
DeafnessIsOwned ==
    suppressed = "forever" =>
        \E h \in Handles : work[h].at \in {"model", "tool", "closing"}

\* Every turn ends: whatever is captured, reopened, asked, parked or failing,
\* the session comes back to listening or closes.  So does the marker of a
\* soft-ended turn: it never keeps the idle gap closed to the nudge and to agent
\* speech once that turn is over.
EveryTurnEnds ==
    /\ \A t \in TurnIds : duplex.turn = t ~> duplex.turn # t
    /\ speculative # 0 ~> (speculative = 0 \/ duplex.state = "closed")

Lifecycle == INSTANCE TurnLifecycle
             WITH Revisions <- 0..MaxRevision,
                  phase <- phaseOf(duplex),
                  live <- LiveHandles(duplex)

\* Every step of the loop, its dispatches and its owner is one step of the
\* turn lifecycle: they never chain kernel calls into a forbidden one.
ImplementsLifecycle == Lifecycle!Spec
=============================================================================
