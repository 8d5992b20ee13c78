---------------------------- MODULE LiveKitAudio ----------------------------
(***************************************************************************)
(* The reply audio of one LiveKit room                                     *)
(* (apps/realtime-gateway/src/livekit-agent-adapter.ts): the session's     *)
(* chunks pass through a chain of promises, are cut into frames of the     *)
(* native source, and are played there; the end of a reply is acknowledged *)
(* when they have been, and a full chain holds the session's pump.         *)
(*                                                                         *)
(* Audio is counted in half frames, each marked with the turn it is of.    *)
(* The native queue and its player are external.                           *)
(***************************************************************************)
EXTENDS Naturals, Sequences, FiniteSets, SequencesExt

CONSTANTS
    MaxReplyTurns,   \* bound: turns that speak
    MaxHalves,       \* bound: half frames of one turn
    NativeLimit,     \* frames the native source queues (its 1000 ms)
    PressureAt       \* adapterBackpressureMs, in half frames

ASSUME AudioAssumption ==
    MaxReplyTurns \in Nat /\ MaxHalves \in Nat /\ NativeLimit \in Nat \ {0} /\ PressureAt \in Nat \ {0}

Replies == 1..MaxReplyTurns
Padding == 0

VARIABLES
    speech,      \* the session's turn: its id and whether it speaks, has ended, is over
    tail,        \* audioTail: the chunks not published yet, the first one in hand
    generation,  \* outputGeneration and playoutGeneration, which go together
    carry,       \* the half frame left over for the next chunk
    native,      \* the source's queue of frames
    playouts,    \* each turn's playback.ended on its way to playback.complete
    sent, heard, \* half frames of each turn, sent and played
    congested    \* backpressured, and the session waits for its drain

audioVars == <<speech, tail, generation, carry, native, playouts, sent, heard, congested>>

NoPlayout == [at |-> "none", generation |-> 0, ahead |-> 0]

AudioInit ==
    /\ speech = [id |-> 0, at |-> "over"]
    /\ tail = <<>> /\ generation = 0 /\ carry = <<>> /\ native = <<>>
    /\ playouts = [t \in Replies |-> NoPlayout]
    /\ sent = [t \in Replies |-> 0] /\ heard = [t \in Replies |-> 0]
    /\ congested = FALSE

Of(t, n) == [i \in 1..n |-> t]
Halves(audio, t) == Cardinality({i \in DOMAIN audio : audio[i] = t})
pendingAudio(chunks) == FoldSeq(LAMBDA c, n : c.size + n, 0, chunks)

-----------------------------------------------------------------------------
(* The session                                                             *)

Speaks == /\ speech.at = "over" /\ speech.id < MaxReplyTurns
          /\ speech' = [id |-> speech.id + 1, at |-> "speaking"]
          /\ UNCHANGED <<tail, generation, carry, native, playouts, sent, heard, congested>>

\* send() of audio: the chunk joins the chain, and a long chain is backpressure.
SendAudio ==
    /\ speech.at = "speaking" /\ ~congested
    /\ \E n \in 1..3 :
          /\ sent[speech.id] + n <= MaxHalves
          /\ tail' = Append(tail, [audio |-> Of(speech.id, n), size |-> n,
                                   generation |-> generation, at |-> "queued"])
          /\ sent' = [sent EXCEPT ![speech.id] = @ + n]
    /\ congested' = (pendingAudio(tail') >= PressureAt)
    /\ UNCHANGED <<speech, generation, carry, native, playouts, heard>>

\* playback.ended: its acknowledgement waits for the chain as it is now.
EndPlayback ==
    /\ speech.at = "speaking" /\ sent[speech.id] > 0
    /\ speech' = [speech EXCEPT !.at = "ended"]
    /\ playouts' = [playouts EXCEPT ![speech.id] =
                       [at |-> "tail", generation |-> generation, ahead |-> Len(tail)]]
    /\ UNCHANGED <<tail, generation, carry, native, sent, heard, congested>>

\* playback.interrupted: clearPlayout() forgets what was not played.
InterruptPlayback ==
    /\ speech.at # "over"
    /\ speech' = [speech EXCEPT !.at = "over"]
    /\ generation' = generation + 1
    /\ carry' = <<>> /\ native' = <<>>
    /\ UNCHANGED <<tail, playouts, sent, heard, congested>>

\* The session does not wait for an acknowledgement for ever.
SessionMovesOn == /\ speech.at = "ended"
                  /\ speech' = [speech EXCEPT !.at = "over"]
                  /\ UNCHANGED <<tail, generation, carry, native, playouts, sent, heard, congested>>

-----------------------------------------------------------------------------
(* The chain                                                               *)

Passes(p) == IF p.at = "tail" /\ p.ahead > 0 THEN [p EXCEPT !.ahead = @ - 1] ELSE p

\* finally: the chunk is no longer pending, and a chain half empty is drained.
LeavesTail ==
    /\ tail' = Tail(tail)
    /\ playouts' = [t \in Replies |-> Passes(playouts[t])]
    /\ congested' = (congested /\ 2 * pendingAudio(Tail(tail)) >= PressureAt)

\* Mistake: a chunk that is not published is not counted off.
SkipStaleHolding ==
    /\ tail # <<>> /\ Head(tail).at = "queued" /\ Head(tail).generation # generation
    /\ tail' = Tail(tail)
    /\ playouts' = [t \in Replies |-> Passes(playouts[t])]
    /\ UNCHANGED <<speech, generation, carry, native, sent, heard, congested>>

\* A chunk of an interrupted reply is passed over.
SkipStale ==
    /\ tail # <<>> /\ Head(tail).at = "queued" /\ Head(tail).generation # generation
    /\ LeavesTail
    /\ UNCHANGED <<speech, generation, carry, native, sent, heard>>

\* publishAudio: the chunk is joined to what was left over.
PublishBegins ==
    /\ tail # <<>> /\ Head(tail).at = "queued" /\ Head(tail).generation = generation
    /\ LET joined == carry \o Head(tail).audio
       IN  IF Len(joined) < 2
           THEN carry' = joined /\ LeavesTail
           ELSE /\ tail' = [tail EXCEPT ![1] = [@ EXCEPT !.audio = joined, !.at = "capturing"]]
                /\ UNCHANGED <<carry, playouts, congested>>
    /\ UNCHANGED <<speech, generation, native, sent, heard>>

\* One frame was captured.  The generation is looked at before the next frame,
\* not before the rest becomes the carry.
CaptureFrame ==
    /\ tail # <<>> /\ Head(tail).at = "capturing" /\ Len(native) < NativeLimit
    /\ LET audio == Head(tail).audio
           rest == SubSeq(audio, 3, Len(audio))
       IN  /\ native' = Append(native, SubSeq(audio, 1, 2))
           /\ IF Len(rest) < 2 THEN carry' = rest /\ LeavesTail
              ELSE IF Head(tail).generation # generation THEN LeavesTail /\ UNCHANGED carry
              ELSE /\ tail' = [tail EXCEPT ![1] = [@ EXCEPT !.audio = rest]]
                   /\ UNCHANGED <<carry, playouts, congested>>
    /\ UNCHANGED <<speech, generation, sent, heard>>

Plays ==
    /\ native # <<>>
    /\ native' = Tail(native)
    /\ heard' = [t \in Replies |-> heard[t] + Halves(Head(native), t)]
    /\ UNCHANGED <<speech, tail, generation, carry, playouts, sent, congested>>

-----------------------------------------------------------------------------
(* The acknowledgement                                                     *)

At(t, at) == playouts' = [playouts EXCEPT ![t].at = at]

\* waitForPlayout, unless the reply was interrupted: what is left over is padded
\* to a frame of its own.
AwaitPlayout(t) ==
    /\ playouts[t].at = "tail" /\ playouts[t].ahead = 0
    /\ IF playouts[t].generation # generation THEN At(t, "dropped") /\ UNCHANGED <<carry, native>>
       ELSE IF carry = <<>> THEN At(t, "playing") /\ UNCHANGED <<carry, native>>
       ELSE /\ Len(native) < NativeLimit
            /\ native' = Append(native, carry \o <<Padding>>)
            /\ carry' = <<>>
            /\ At(t, "playing")
    /\ UNCHANGED <<speech, tail, generation, sent, heard, congested>>

\* Mistake: the end is acknowledged when everything has been handed over.
PlayoutEndsEarly(t) ==
    /\ playouts[t].at = "playing"
    /\ At(t, IF playouts[t].generation # generation THEN "dropped" ELSE "complete")
    /\ speech' = IF playouts[t].generation = generation /\ speech = [id |-> t, at |-> "ended"]
                 THEN [speech EXCEPT !.at = "over"] ELSE speech
    /\ UNCHANGED <<tail, generation, carry, native, sent, heard, congested>>

\* The source has played all; playback.complete unless interrupted meanwhile.
PlayoutEnds(t) ==
    /\ playouts[t].at = "playing" /\ native = <<>>
    /\ At(t, IF playouts[t].generation # generation THEN "dropped" ELSE "complete")
    /\ speech' = IF playouts[t].generation = generation /\ speech = [id |-> t, at |-> "ended"]
                 THEN [speech EXCEPT !.at = "over"] ELSE speech
    /\ UNCHANGED <<tail, generation, carry, native, sent, heard, congested>>

-----------------------------------------------------------------------------
AudioNext ==
    \/ Speaks \/ SendAudio \/ EndPlayback \/ InterruptPlayback \/ SessionMovesOn
    \/ SkipStale \/ PublishBegins \/ CaptureFrame \/ Plays
    \/ \E t \in Replies : AwaitPlayout(t) \/ PlayoutEnds(t)

\* Promises settle and a native source plays what it was given.
AudioFairness ==
    /\ WF_audioVars(SkipStale) /\ WF_audioVars(PublishBegins)
    /\ SF_audioVars(CaptureFrame) /\ WF_audioVars(Plays)
    /\ \A t \in Replies : SF_audioVars(AwaitPlayout(t)) /\ SF_audioVars(PlayoutEnds(t))

-----------------------------------------------------------------------------
(* Properties                                                              *)

AudioSpec == AudioInit /\ [][AudioNext]_audioVars /\ AudioFairness

AudioTypeOK ==
    /\ speech \in [id : 0..MaxReplyTurns, at : {"speaking", "ended", "over"}]
    /\ generation \in 0..MaxReplyTurns /\ congested \in BOOLEAN
    /\ Len(carry) < 2 /\ Len(native) <= NativeLimit
    /\ \A i \in DOMAIN tail : tail[i].at = "capturing" => i = 1
    /\ \A t \in Replies : playouts[t].at \in {"none", "tail", "playing", "dropped", "complete"}

\* The adapter reports a reply as played out only when every bit of it has left
\* the source: the session keeps its turn in speaking until then.
CompleteMeansHeard ==
    [][speech.at = "ended" /\ playouts[speech.id].at # "complete"
         /\ playouts'[speech.id].at = "complete"
       => heard[speech.id] >= sent[speech.id]]_audioVars

\* A session that was told to wait is let go, and one that waits for the end of
\* its reply hears of it, however interruptions and chunks follow one another.
PlayoutAnswers ==
    /\ congested ~> ~congested
    /\ \A t \in Replies : playouts[t].at \in {"tail", "playing"} ~>
                             playouts[t].at \in {"dropped", "complete"}

\* docs/realtime-media-transport.md:735: "no audible stale audio after a stream
\* is interrupted or superseded": nothing of an interrupted reply is kept for the
\* one after it.
LeftoverIsFresh ==
    [][carry' # carry /\ carry' # <<>> => Head(tail).generation = generation]_audioVars
=============================================================================
