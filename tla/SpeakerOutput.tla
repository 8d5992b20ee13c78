--------------------------- MODULE SpeakerOutput ---------------------------
(***************************************************************************)
(* The browser's playback of one conversation (apps/web/src/lib/audio.ts,  *)
(* SpeakerOutput and its worklet; the playback events of                   *)
(* apps/web/src/conversation.ts): the page posts to the render thread and  *)
(* hears from it over a message port, and acknowledges a rendition when    *)
(* its audio was played.                                                   *)
(*                                                                         *)
(* Audio counts in chunks.  The gateway's events come in the order of one  *)
(* socket; the port keeps the order of each direction, and neither keeps   *)
(* the order of the other.                                                 *)
(***************************************************************************)
EXTENDS Naturals, Sequences

CONSTANTS
    MaxRenditions,  \* bound: renditions the gateway starts
    MaxChunks,      \* bound: chunks of one rendition
    MaxTarget       \* bound: chunks the worklet waits for before it plays

ASSUME SpeakerAssumption == MaxTarget \in Nat \ {0}

Renditions == 1..MaxRenditions

VARIABLES
    reply,     \* the gateway's present rendition: its chunks sent, whether it goes on
    speaker,   \* the page's object
    port,      \* the messages to the worklet and from it
    worklet,   \* the render thread's queue, flags and target (and its rendition)
    fallback,  \* chunks scheduled beside the worklet, and the drain timer's rendition
    acked,     \* renditions acknowledged
    stale      \* of the properties: a report drained one rendition for another

speakerVars == <<reply, speaker, port, worklet, fallback, acked, stale>>

None == 0
Resting(target, r) ==
    [queue |-> <<>>, playing |-> FALSE, ended |-> FALSE, drained |-> FALSE,
     target |-> target, of |-> r]

SpeakerInit ==
    /\ reply = [of |-> None, sent |-> 0, going |-> FALSE]
    /\ speaker = [turn |-> None, active |-> FALSE, callback |-> None]
    /\ port = [down |-> <<>>, up |-> <<>>]
    /\ worklet = Resting(1, None)
    /\ fallback = [queue |-> <<>>, timer |-> None]
    /\ acked = {} /\ stale = FALSE

post(type) == port' = [port EXCEPT !.down = Append(@, [type |-> type, of |-> reply'.of])]

-----------------------------------------------------------------------------
(* The gateway's events, as the page handles them                          *)

\* playback.start: a reply follows one that ended or was interrupted.
beginContinuousRendition ==
    /\ ~reply.going /\ reply.of < MaxRenditions
    /\ reply' = [of |-> reply.of + 1, sent |-> 0, going |-> TRUE]
    /\ speaker' = [turn |-> reply'.of, active |-> TRUE, callback |-> None]
    /\ post("start")
    /\ UNCHANGED <<worklet, fallback, acked, stale>>

\* Audio goes to the worklet while the rendition is active, and is scheduled as
\* single sources when a stale report has deactivated it.
enqueue ==
    /\ reply.going /\ reply.sent < MaxChunks
    /\ reply' = [reply EXCEPT !.sent = @ + 1]
    /\ IF speaker.active THEN post("enqueue") /\ UNCHANGED fallback
       ELSE fallback' = [fallback EXCEPT !.queue = Append(@, reply.of)] /\ UNCHANGED port
    /\ UNCHANGED <<speaker, worklet, acked, stale>>

\* playback.ended: tell when what was sent has been heard.
notifyWhenDrained ==
    /\ reply.going
    /\ reply' = [reply EXCEPT !.going = FALSE]
    /\ IF speaker.active
       THEN /\ speaker' = [speaker EXCEPT !.callback = reply.of]
            /\ post("end") /\ UNCHANGED fallback
       ELSE fallback' = [fallback EXCEPT !.timer = reply.of] /\ UNCHANGED <<speaker, port>>
    /\ UNCHANGED <<worklet, acked, stale>>

\* turn.interrupted or playback.interrupted, while it is sent or waited for.
stopPlayback ==
    /\ reply.going \/ speaker.callback # None \/ fallback.timer # None
    /\ reply' = [reply EXCEPT !.going = FALSE]
    /\ speaker' = [speaker EXCEPT !.active = FALSE, !.callback = None]
    /\ fallback' = [queue |-> <<>>, timer |-> None]
    /\ post("stop")
    /\ UNCHANGED <<worklet, acked, stale>>

\* The callback of notifyWhenDrained: playback.complete for the turn it was
\* registered for, if that is still the turn that plays.
Acknowledges(r) == acked' = IF r # None /\ speaker.turn = r THEN acked \union {r} ELSE acked

-----------------------------------------------------------------------------
(* The worklet                                                             *)

\* reportDrainedIfReady: once, when the input has ended and all was rendered.
isDrained(w) == w.ended /\ w.queue = <<>> /\ ~w.drained

\* The worklet comes to w while the port is p, and reports if it is drained.
Becomes(w, p) ==
    /\ worklet' = IF isDrained(w) THEN [w EXCEPT !.drained = TRUE, !.playing = FALSE] ELSE w
    /\ port' = IF isDrained(w) THEN [p EXCEPT !.up = Append(@, w.of)] ELSE p

receive ==
    /\ port.down # <<>>
    /\ LET m == Head(port.down)
           rest == [port EXCEPT !.down = Tail(@)]
       IN CASE m.type = "enqueue" ->
                 /\ worklet' = IF worklet.ended THEN worklet
                               ELSE [worklet EXCEPT !.queue = Append(@, m.of)]
                 /\ port' = rest
            [] m.type = "end" -> Becomes([worklet EXCEPT !.ended = TRUE], rest)
            [] OTHER -> worklet' = Resting(worklet.target, m.of) /\ port' = rest
    /\ UNCHANGED <<reply, speaker, fallback, acked, stale>>

\* Mistake: what is left below the target when the input ends is not played out.
startsBuffered(w) == Len(w.queue) >= w.target

\* Playback starts with the target reached, or with whatever is there at the end.
starts(w) == Len(w.queue) >= w.target \/ (w.ended /\ w.queue # <<>>)

\* One render call plays one chunk.  An empty queue before the end is an underrun:
\* playback pauses and waits for more than before; ten steady seconds lower that.
process ==
    /\ worklet.playing \/ starts(worklet)
    /\ IF worklet.queue # <<>>
       THEN \E target \in {worklet.target} \union (1..MaxTarget \intersect {worklet.target - 1}) :
              Becomes([worklet EXCEPT !.queue = Tail(@), !.playing = TRUE, !.target = target], port)
       ELSE /\ ~worklet.ended
            /\ worklet' = [worklet EXCEPT !.playing = FALSE,
                                          !.target = IF @ < MaxTarget THEN @ + 1 ELSE @]
            /\ UNCHANGED port
    /\ UNCHANGED <<reply, speaker, fallback, acked, stale>>

-----------------------------------------------------------------------------
(* The page hears that the audio was played                                *)

\* handlePlaybackWorkletMessage, "drained": the report names no rendition.
Drained ==
    /\ port.up # <<>>
    /\ port' = [port EXCEPT !.up = Tail(@)]
    /\ IF speaker.active
       THEN /\ speaker' = [speaker EXCEPT !.active = FALSE, !.callback = None]
            /\ Acknowledges(speaker.callback)
            /\ stale' = (stale \/ Head(port.up) # speaker.turn)
       ELSE UNCHANGED <<speaker, acked, stale>>
    /\ UNCHANGED <<reply, worklet, fallback>>

\* The playhead of the single sources has passed their end.
DrainTimerFires ==
    /\ fallback.timer # None
    /\ fallback' = [queue |-> <<>>, timer |-> None]
    /\ Acknowledges(fallback.timer)
    /\ UNCHANGED <<reply, speaker, port, worklet, stale>>

-----------------------------------------------------------------------------
SpeakerNext ==
    \/ beginContinuousRendition \/ enqueue \/ notifyWhenDrained \/ stopPlayback
    \/ receive \/ process \/ Drained \/ DrainTimerFires

\* The render thread renders, the port delivers, timers fire.
SpeakerFairness ==
    /\ WF_speakerVars(receive) /\ WF_speakerVars(process)
    /\ WF_speakerVars(Drained) /\ WF_speakerVars(DrainTimerFires)

-----------------------------------------------------------------------------
(* Properties                                                              *)

SpeakerTypeOK ==
    /\ reply.of \in 0..MaxRenditions /\ reply.sent \in 0..MaxChunks
    /\ speaker.turn \in 0..reply.of /\ speaker.callback \in {None, speaker.turn}
    /\ worklet.target \in 1..MaxTarget /\ worklet.queue \in Seq(Renditions)
    /\ fallback.timer \in 0..reply.of /\ acked \subseteq Renditions

\* The gateway is told that a turn was heard when none of its audio is left, on the
\* way to the render thread or in its queue: its quota of the turn, and whether a
\* barge-in is one, depend on it.  stale is the one exception, a report of the
\* rendition before that the page takes for this one's.
AckMeansHeard ==
    \A r \in acked :
        stale \/ /\ \A i \in 1..Len(worklet.queue) : worklet.queue[i] # r
                 /\ \A i \in 1..Len(port.down) : port.down[i] # [type |-> "enqueue", of |-> r]
                 /\ \A i \in 1..Len(fallback.queue) : fallback.queue[i] # r

\* A rendition whose end was announced is acknowledged or called off: it does not
\* wait for more audio than it has.
DrainAnswers ==
    \A r \in Renditions :
        speaker.callback = r \/ fallback.timer = r
            ~> speaker.callback # r /\ fallback.timer # r
=============================================================================
