-------------------------- MODULE SpeechSegmenter --------------------------
(***************************************************************************)
(* From microphone frames to utterances: the gateway's frame queue         *)
(* (realtime-gateway/src/session.ts), the segmenters of                    *)
(* packages/duplex-session, and the inference session that the Silero      *)
(* segmenters of all conversations share (platforms/bun/src/silero.ts).    *)
(*                                                                         *)
(* Audio is a number of samples; which of it is loud, and what the network *)
(* makes of it, is chosen freely.  fed counts what a segmenter was given,  *)
(* so that a stretch of audio is an interval of it.                        *)
(***************************************************************************)
EXTENDS Naturals, FiniteSets, Sequences, SequencesExt

CONSTANTS
    Streams,     \* conversations
    FrameSizes,
    WindowSize,  \* what the network takes at a time
    MinSpeech, Silence, MaxSpeech, PreRoll,
    MaxBuffered, \* of the frame queue
    MaxClock,    \* bound: what each conversation may hear
    Never

ASSUME SegmenterAssumption ==
    /\ WindowSize \in Nat \ {0} /\ MaxSpeech \in Nat \ {0} /\ FrameSizes \subseteq Nat \ {0}
    /\ {MinSpeech, Silence, PreRoll, MaxBuffered} \subseteq Nat /\ IsFiniteSet(FrameSizes)
    /\ MaxClock \in [Streams -> Nat] /\ Never \notin Nat

VARIABLES
    ear,      \* the frame queue of each conversation, and its clock
    vad,      \* which detector a conversation has
    seg,      \* its segmenter, with the push that is under way
    net,      \* its recurrence: what context and state were last made of
    backend,  \* the shared one: whether it is there, the inferences in line
    utterance \* what the loop was last told of the utterance

segmenterVars == <<ear, vad, seg, net, backend, utterance>>

-----------------------------------------------------------------------------
(* Stretches of audio, the latest of them that fit                         *)

Size(item) == item.to - item.from
Total(items) == FoldLeft(LAMBDA n, item : n + Size(item), 0, items)

Latest(items, limit) ==
    LET From(n) == SubSeq(items, n, Len(items))
    IN  From(CHOOSE n \in 1..(Len(items) + 1) :
                 Total(From(n)) <= limit /\ \A m \in 1..(n - 1) : Total(From(m)) > limit)

-----------------------------------------------------------------------------
(* VadSegmentAssembler, as operators on its record                         *)

Silent == [pre |-> <<>>, speech |-> <<>>, speaking |-> FALSE, confirmed |-> FALSE, voiced |-> 0, silence |-> 0]

\* pushPreRoll
Kept(items) == Latest(items, PreRoll)

append(a, item, voiced) ==
    LET confirms == ~a.confirmed /\ a.voiced + (IF voiced THEN Size(item) ELSE 0) >= MinSpeech
        longer == [a EXCEPT !.speech = Append(@, item), !.confirmed = @ \/ confirms,
                            !.voiced = IF voiced THEN @ + Size(item) ELSE @,
                            !.silence = IF voiced THEN 0 ELSE @ + Size(item)]
        over == Total(longer.speech) >= MaxSpeech \/ longer.silence >= Silence
        ending == [type |-> IF longer.confirmed THEN "end" ELSE "dropped", at |-> item, samples |-> longer.speech]
    IN  [asm |-> IF over THEN Silent ELSE longer,
         events |-> (IF confirms THEN <<[type |-> "confirmed", at |-> item]>> ELSE <<>>)
                    \o (IF over THEN <<ending>> ELSE <<>>)]

\* Mistake: the audio that triggers is put into the pre-roll first.
onsetTwice(a, item) == [Silent EXCEPT !.speaking = TRUE, !.speech = Kept(Append(a.pre, item))]

onset(a, item) == [Silent EXCEPT !.speaking = TRUE, !.speech = a.pre]

\* push(): its next record, and its events.
pushed(a, item, voiced) ==
    CASE a.speaking -> append(a, item, voiced)
      [] ~a.speaking /\ ~voiced -> [asm |-> [a EXCEPT !.pre = Kept(Append(@, item))], events |-> <<>>]
      [] ~a.speaking /\ voiced ->
            LET first == append(onset(a, item), item, TRUE) IN
            [first EXCEPT !.events = <<[type |-> "start", at |-> item]>> \o @]

-----------------------------------------------------------------------------
(* The segmenter of a conversation                                         *)

\* since is what is known of the last reset, or the last utterance; onset of the present one.
NewSegmenter == [at |-> "idle", anchor |-> Never, consumed |-> 0, fed |-> 0, taken |-> 0, on |-> FALSE,
                 asm |-> Silent, out |-> <<>>, stale |-> FALSE, since |-> 0, mixed |-> FALSE]
FreshNet == [context |-> 0, state |-> 0]

\* reset(), of the assembler, of what is pending, and of the network with them.
reset(g) == [g EXCEPT !.asm = Silent, !.anchor = Never, !.consumed = 0, !.on = FALSE,
                      !.taken = g.fed, !.since = g.fed, !.mixed = FALSE]
Resets(s, g) == seg' = [seg EXCEPT ![s] = reset(g)] /\ net' = [net EXCEPT ![s] = FreshNet]

\* What one item of audio does to the segmenter.
judged(g, item, voiced) ==
    LET next == pushed(g.asm, item, voiced)
        ended == \E n \in DOMAIN next.events : next.events[n].type \in {"end", "dropped"}
    IN  [g EXCEPT !.asm = next.asm, !.on = voiced, !.out = @ \o
             [n \in DOMAIN next.events |-> [event |-> next.events[n], since |-> g.since]],
             !.since = IF ended THEN item.to ELSE @]

SegmenterInit ==
    /\ ear = [s \in Streams |-> [queue |-> <<>>, clock |-> 0]]
    /\ vad = [s \in Streams |-> "none"] /\ seg = [s \in Streams |-> NewSegmenter]
    /\ net = [s \in Streams |-> FreshNet] /\ utterance = [s \in Streams |-> "none"]
    /\ backend = [at |-> "none", line |-> <<>>]

\* Between two windows of one push nothing else runs.
Undisturbed == \A s \in Streams : seg[s].at # "windows"
Listens(s) == vad[s] \in {"energy", "silero"} /\ seg[s].at # "ended"

-----------------------------------------------------------------------------
(* createSessionVad, loadSileroVadModel                                    *)

\* Energy by choice; Silero as asked for, or as preferred.
Chooses(s) ==
    /\ Undisturbed /\ vad[s] = "none"
    /\ \/ vad' = [vad EXCEPT ![s] = "energy"] /\ UNCHANGED backend
       \/ /\ backend.at = "ready" /\ UNCHANGED backend
          /\ vad' = [vad EXCEPT ![s] = "silero"]
       \/ /\ backend.at # "ready" /\ backend' = [backend EXCEPT !.at = "loading"]
          /\ vad' = [vad EXCEPT ![s] = "asked"] \/ vad' = [vad EXCEPT ![s] = "preferred"]
    /\ UNCHANGED <<ear, seg, net, utterance>>

\* One attempt for all who wait; a failed one is forgotten.
Loads ==
    /\ Undisturbed /\ backend.at = "loading"
    /\ \/ /\ backend' = [backend EXCEPT !.at = "ready"]
          /\ vad' = [s \in Streams |-> IF vad[s] \in {"asked", "preferred"} THEN "silero" ELSE vad[s]]
       \/ /\ backend' = [backend EXCEPT !.at = "none"]
          /\ vad' = [s \in Streams |-> CASE vad[s] = "asked" -> "failed"
                                         [] vad[s] = "preferred" -> "energy"
                                         [] OTHER -> vad[s]]
    /\ UNCHANGED <<ear, seg, net, utterance>>

-----------------------------------------------------------------------------
(* Frames                                                                  *)

\* FrameQueue.push: the oldest make room.
Buffered(queue) == Latest(queue, MaxBuffered)

\* A frame is a stretch of what the conversation may hear.
Captures(s, n) ==
    /\ Undisturbed /\ Listens(s) /\ ear[s].clock + n <= MaxClock[s]
    /\ ear' = [ear EXCEPT ![s] = [queue |-> Buffered(Append(@.queue, [from |-> @.clock, to |-> @.clock + n])),
                                  clock |-> @.clock + n]]
    /\ UNCHANGED <<vad, seg, net, backend, utterance>>

\* A pause in what arrives moves the clock.
Pauses(s) ==
    /\ Undisturbed /\ Listens(s) /\ ear[s].clock < MaxClock[s]
    /\ ear' = [ear EXCEPT ![s].clock = @ + 1]
    /\ UNCHANGED <<vad, seg, net, backend, utterance>>

\* The loop takes a frame while its microphone is suppressed, ...
Suppresses(s) ==
    /\ Undisturbed /\ seg[s].at = "idle" /\ ear[s].queue # <<>>
    /\ ear' = [ear EXCEPT ![s].queue = Tail(@)]
    /\ Resets(s, seg[s]) /\ utterance' = [utterance EXCEPT ![s] = "none"]
    /\ UNCHANGED <<vad, backend>>

\* ... or gives it to the segmenter: EnergyVadSegmenter.push, ...
PushesEnergy(s) ==
    /\ Undisturbed /\ vad[s] = "energy" /\ seg[s].at = "idle" /\ ear[s].queue # <<>>
    /\ ear' = [ear EXCEPT ![s].queue = Tail(@)]
    /\ \E voiced \in BOOLEAN :
          LET item == [from |-> seg[s].fed, to |-> seg[s].fed + Size(Head(ear[s].queue))]
          IN  seg' = [seg EXCEPT ![s] =
                  [judged(@, item, voiced) EXCEPT !.at = "answered", !.fed = item.to, !.taken = item.to]]
    /\ UNCHANGED <<vad, net, backend, utterance>>

\* ... or SileroVadSegmenter.push.
PushesSilero(s) ==
    /\ Undisturbed /\ vad[s] = "silero" /\ seg[s].at = "idle" /\ ear[s].queue # <<>>
    /\ ear' = [ear EXCEPT ![s].queue = Tail(@)]
    /\ LET frame == Head(ear[s].queue) IN
       seg' = [seg EXCEPT ![s] = [seg[s] EXCEPT !.at = "windows", !.fed = @ + Size(frame),
                                                !.anchor = IF @ = Never THEN frame.from ELSE @]]
    /\ UNCHANGED <<vad, net, backend, utterance>>

\* takeWindow: a quiet one is silence, another goes to the network.
Windows(s) ==
    /\ seg[s].at = "windows"
    /\ LET item == [from |-> seg[s].taken, to |-> seg[s].taken + WindowSize]
           after == [seg[s] EXCEPT !.taken = item.to, !.consumed = @ + WindowSize]
       IN  IF item.to > seg[s].fed
           THEN seg' = [seg EXCEPT ![s].at = "answered"] /\ UNCHANGED <<net, backend>>
           ELSE \/ seg' = [seg EXCEPT ![s] = judged(after, item, FALSE)] /\ UNCHANGED <<net, backend>>
                \/ /\ seg' = [seg EXCEPT ![s] = [after EXCEPT !.at = "inferring"]]
                   /\ backend' = [backend EXCEPT !.line = Append(@,
                          [of |-> s, item |-> item, context |-> net[s].context, state |-> Never])]
                   /\ net' = [net EXCEPT ![s].context = item.to]
    /\ UNCHANGED <<ear, vad, utterance>>

-----------------------------------------------------------------------------
(* The shared inference session                                            *)

\* enqueue: one at a time; the state is what it is by then.
Runs ==
    /\ Undisturbed /\ backend.line # <<>> /\ Head(backend.line).state = Never
    /\ backend' = [backend EXCEPT !.line[1].state = net[Head(backend.line).of].state]
    /\ UNCHANGED <<ear, vad, seg, net, utterance>>

Computing == backend.line # <<>> /\ Head(backend.line).state # Never
Released == backend' = [backend EXCEPT !.line = Tail(@)]

\* A probability, on one side or the other of the threshold that holds now.
Infers ==
    LET job == Head(backend.line) s == job.of IN
    /\ Undisturbed /\ Computing /\ Released
    /\ net' = [net EXCEPT ![s].state = job.item.to]
    /\ \E probability \in {"low", "between", "high"} :
          LET voiced == probability = "high" \/ (probability = "between" /\ seg[s].on)
          IN  seg' = [seg EXCEPT ![s] = [judged(seg[s], job.item, voiced) EXCEPT
                         !.at = "windows", !.mixed = @ \/ job.context # job.state]]
    /\ UNCHANGED <<ear, vad, utterance>>

\* Mistake: those in line go with the one that failed.
FailsAll ==
    /\ Undisturbed /\ Computing
    /\ backend' = [backend EXCEPT !.line = <<>>]
    /\ seg' = [seg EXCEPT ![Head(backend.line).of].at = "ended"]
    /\ UNCHANGED <<ear, vad, net, utterance>>

\* An inference fails, and with it its conversation.
InferFails ==
    /\ Undisturbed /\ Computing /\ Released
    /\ seg' = [seg EXCEPT ![Head(backend.line).of].at = "ended"]
    /\ UNCHANGED <<ear, vad, net, utterance>>

-----------------------------------------------------------------------------
(* The loop                                                                *)

\* A typed turn, whatever the segmenter is doing.
TypedText(s) ==
    /\ Undisturbed /\ Listens(s)
    /\ Resets(s, [seg[s] EXCEPT !.stale = seg[s].at # "idle"])
    /\ utterance' = [utterance EXCEPT ![s] = "none"]
    /\ UNCHANGED <<ear, vad, backend>>

Told(p, heard) ==
    CASE heard.event.type = "start" -> "started"
      [] heard.event.type = "confirmed" -> "confirmed"
      [] OTHER -> "none"

\* Mistake: a late answer is only thrown away.
HearsOnce(s) ==
    /\ Undisturbed /\ seg[s].at = "answered"
    /\ seg' = [seg EXCEPT ![s] = [@ EXCEPT !.at = "idle", !.out = <<>>, !.stale = FALSE]]
    /\ utterance' = IF seg[s].stale THEN utterance ELSE [utterance EXCEPT ![s] = FoldLeft(Told, @, seg[s].out)]
    /\ UNCHANGED <<ear, vad, net, backend>>

\* vadGeneration: a late answer is thrown away, and what it did to the segmenter undone.
Hears(s) ==
    LET heard == [seg[s] EXCEPT !.at = "idle", !.out = <<>>, !.stale = FALSE] IN
    /\ Undisturbed /\ seg[s].at = "answered"
    /\ IF seg[s].stale
       THEN Resets(s, heard) /\ UNCHANGED utterance
       ELSE /\ seg' = [seg EXCEPT ![s] = heard] /\ UNCHANGED net
            /\ utterance' = [utterance EXCEPT ![s] = FoldLeft(Told, @, seg[s].out)]
    /\ UNCHANGED <<ear, vad, backend>>

SegmenterNext ==
    \/ Loads \/ Runs \/ Infers \/ InferFails
    \/ \E s \in Streams :
          \/ Chooses(s) \/ Pauses(s) \/ Suppresses(s) \/ PushesEnergy(s) \/ PushesSilero(s)
          \/ Windows(s) \/ TypedText(s) \/ Hears(s)
          \/ \E n \in FrameSizes : Captures(s, n)

-----------------------------------------------------------------------------
LongestItem == LET sizes == {WindowSize} \union FrameSizes IN CHOOSE n \in sizes : \A m \in sizes : m <= n

\* An utterance is one stretch of what was heard since the last reset or the last utterance,
\* with nothing left out or repeated, and no longer than its limit allows; ...
Whole(heard) ==
    LET items == heard.event.samples
        start == Head(items).from IN
    /\ start >= heard.since /\ Last(items).to = heard.event.at.to
    /\ \A n \in 1..(Len(items) - 1) : items[n + 1].from = items[n].to
    /\ Total(items) < MaxSpeech + PreRoll + LongestItem

\* ... its events come in their order, ...
Ordered(p, events) ==
    \A n \in DOMAIN events :
        LET type == events[n].event.type
            before == FoldLeft(Told, p, SubSeq(events, 1, n - 1)) IN
        CASE type = "start" -> before = "none"
          [] type = "confirmed" -> before = "started"
          [] type = "end" -> before = "confirmed"
          [] type = "dropped" -> before = "started"

\* ... and all of it was judged by a network whose state was that of its context.
UtterancesHold == \A s \in Streams :
    seg[s].at = "answered" /\ ~seg[s].stale =>
        /\ Ordered(utterance[s], seg[s].out) /\ ~seg[s].mixed
        /\ \A n \in DOMAIN seg[s].out : seg[s].out[n].event.type = "end" => Whole(seg[s].out[n])

\* Whatever becomes of the inferences of the others, one that is awaited is in line, once.
InferencesAreAnswered == \A s \in Streams :
    Cardinality({n \in DOMAIN backend.line : backend.line[n].of = s}) = IF seg[s].at = "inferring" THEN 1 ELSE 0

\* Speech is cut into utterances, by reset, failure and company undisturbed.
SpeechIsSegmented == UtterancesHold /\ InferencesAreAnswered

\* The segmenter's clock is the frames' (duplex-session/src/index.ts:381-382).  No run checks
\* it: frames that were dropped, or a pause, are not counted, and it falls behind.
ClocksAgree == \A s \in Streams :
    vad[s] = "silero" /\ seg[s].at = "idle" /\ seg[s].anchor # Never /\ ear[s].queue # <<>> =>
        Head(ear[s].queue).from = seg[s].anchor + seg[s].consumed + (seg[s].fed - seg[s].taken)
=============================================================================
