--------------------------- MODULE SessionTools ---------------------------
(***************************************************************************)
(* The tools a conversation offers its model, where they keep something:   *)
(* createBuiltinTools, createStudioReferents and createStudioTools         *)
(* (packages/conversation/src/builtin.ts), as GatewaySession.start and the *)
(* listen command wire them.  A dispatch is one answer to one utterance or *)
(* typed text; of those that were superseded the handlers still run, their *)
(* results being thrown away but not what they do.                         *)
(*                                                                         *)
(* An utterance is named by the dispatch that recorded it.  Each voice of  *)
(* the bank lives on an engine of its own and gives it its name.           *)
(***************************************************************************)
EXTENDS Naturals, Sequences, SequencesExt

CONSTANTS
    MaxDispatches,  \* bound: dispatches of the conversation
    Terms, Readings,
    Speakers,       \* the voice bank
    Unset

ASSUME ToolsAssumption == MaxDispatches \in Nat /\ Speakers # {} /\ Unset \notin Readings

VARIABLES
    dispatch,  \* the dispatches, the last one being the live one
    parked,    \* pendingExternal
    heard,     \* the referents: current, previous and pinned utterance
    lexicon,   \* pronunciations of the session, the unsaved among them, the config file, and
               \* the terms that some write took back to an older copy of the file
    speaker,   \* conversationOptions.voice, ttsEngineName
    saved      \* voices that were registered: the sample asked about, the one taken

toolsVars == <<dispatch, parked, heard, lexicon, speaker, saved>>

Nothing == [do |-> "nothing"]
NotParked == [tool |-> "none", by |-> 0, of |-> 0, loose |-> FALSE]
Live == Len(dispatch)
NoReadings == [t \in Terms |-> Unset]

ToolsInit ==
    /\ dispatch = <<>> /\ parked = NotParked /\ saved = {}
    /\ heard = [current |-> 0, previous |-> 0, pinned |-> 0]
    /\ lexicon = [said |-> NoReadings, overlay |-> NoReadings, file |-> NoReadings,
                  reverted |-> {}]
    /\ \E v \in Speakers : speaker = [voice |-> v, engine |-> v]

-----------------------------------------------------------------------------
(* Dispatches                                                              *)

\* A reply takes its voice, and the action it may confirm, when its model is asked.
Asking(d) == [d EXCEPT !.at = "model", !.offered = parked, !.voice = speaker.voice]
Dispatch(turn, kind) ==
    [turn |-> turn, kind |-> kind, at |-> "asr", spoke |-> FALSE, offered |-> NotParked,
     voice |-> Unset, doing |-> Nothing]

\* What is left of a dispatch when it ended or was superseded.
Quiet(d) == [d EXCEPT !.at = "over", !.spoke = FALSE, !.offered = NotParked, !.voice = Unset]
Supersedes(new) == dispatch' = Append(IF dispatch = <<>> THEN <<>> ELSE [dispatch EXCEPT ![Live] = Quiet(@)], new)

\* Speech or text begins a turn, over whatever the last one was doing.
Begins(kind) ==
    LET turn == IF dispatch = <<>> THEN 1 ELSE Last(dispatch).turn + 1
        new == Dispatch(turn, kind) IN
    /\ Live < MaxDispatches
    /\ Supersedes(IF kind = "spoken" THEN new ELSE Asking(new))
    /\ UNCHANGED <<parked, heard, lexicon, speaker, saved>>

\* A soft end was too early: the utterance goes on, and is transcribed again as a whole.
Reopened ==
    /\ Live \in 1..(MaxDispatches - 1)
    /\ LET old == Last(dispatch) IN
          /\ old.kind = "spoken" /\ old.at # "over" /\ ~old.spoke
          /\ Supersedes(Dispatch(old.turn, "spoken"))
    /\ UNCHANGED <<parked, heard, lexicon, speaker, saved>>

\* recordUtterance, whatever the transcript; an empty one ends the turn.
Transcribed ==
    /\ dispatch # <<>> /\ Last(dispatch).at = "asr"
    /\ heard' = [heard EXCEPT !.current = Live, !.previous = heard.current]
    /\ \/ dispatch' = [dispatch EXCEPT ![Live] = Asking(@)]
       \/ dispatch' = [dispatch EXCEPT ![Live] = Quiet(@)]
    /\ UNCHANGED <<parked, lexicon, speaker, saved>>

Answering == dispatch # <<>> /\ Last(dispatch).at = "model" /\ Last(dispatch).doing = Nothing

Synthesizes ==
    /\ Answering
    /\ dispatch' = [dispatch EXCEPT ![Live].spoke = TRUE]
    /\ UNCHANGED <<parked, heard, lexicon, speaker, saved>>

\* The reply is complete, and with it the window in which to confirm.
Completes ==
    /\ Answering
    /\ dispatch' = [dispatch EXCEPT ![Live] = Quiet(@)]
    /\ parked' = IF Last(dispatch).offered = parked THEN NotParked ELSE parked
    /\ UNCHANGED <<heard, lexicon, speaker, saved>>

-----------------------------------------------------------------------------
(* Calls of tools                                                          *)

Does(what) == dispatch' = [dispatch EXCEPT ![Live].doing = what]

\* Mistake: the pin is the command itself.
pinCurrent(tool) == IF tool = "save" THEN heard.current ELSE heard.pinned

\* onToolPending: the utterance before the command's.
pin(tool) == IF tool = "save" THEN heard.previous ELSE heard.pinned

\* An external tool waits to be confirmed, one at a time.
Parks(tool) ==
    /\ Answering /\ parked = NotParked
    /\ parked' = [tool |-> tool, by |-> Live, of |-> heard.previous, loose |-> FALSE]
    /\ heard' = [heard EXCEPT !.pinned = pin(tool)]
    /\ UNCHANGED <<dispatch, lexicon, speaker, saved>>

clearPin ==
    /\ heard' = [heard EXCEPT !.pinned = 0]
    /\ parked' = IF parked.tool = "save" THEN [parked EXCEPT !.loose = TRUE] ELSE parked

\* lastUtterance()
lastUtterance == IF heard.pinned # 0 THEN heard.pinned ELSE heard.previous

Offered == Answering /\ parked # NotParked /\ Last(dispatch).offered = parked

\* save_last_utterance_as_voice, once it is confirmed: registers what it finds then.
ConfirmsSave ==
    /\ Offered /\ parked.tool = "save" /\ parked' = NotParked
    /\ IF lastUtterance = 0 THEN UNCHANGED dispatch
       ELSE Does([do |-> "save", take |-> lastUtterance, of |-> parked.of, loose |-> parked.loose])
    /\ UNCHANGED <<heard, lexicon, speaker, saved>>

\* persist_pronunciations: the unsaved ones of that moment.
ConfirmsPersist ==
    /\ Offered /\ parked.tool = "persist" /\ parked' = NotParked
    /\ IF lexicon.overlay = NoReadings THEN UNCHANGED dispatch
       ELSE Does([do |-> "persist", entries |-> lexicon.overlay, base |-> NoReadings, at |-> "reading"])
    /\ UNCHANGED <<heard, lexicon, speaker, saved>>

\* cancel_action: the pin goes even where nothing was offered to this dispatch.
CancelsAction ==
    /\ Answering
    /\ IF Offered THEN parked' = NotParked /\ heard' = [heard EXCEPT !.pinned = 0] ELSE clearPin
    /\ UNCHANGED <<dispatch, lexicon, speaker, saved>>

\* remember_pronunciation
Remembers(t, r) ==
    /\ Answering
    /\ lexicon' = [lexicon EXCEPT !.said[t] = r, !.overlay[t] = r]
    /\ UNCHANGED <<dispatch, parked, heard, speaker, saved>>

\* set_voice: asks for the bank.
AsksForVoice(v) ==
    /\ Answering /\ Does([do |-> "voice", voice |-> v])
    /\ UNCHANGED <<parked, heard, lexicon, speaker, saved>>

-----------------------------------------------------------------------------
(* Handlers settle, also those of superseded dispatches                    *)

Doing(d, what) == dispatch[d].doing.do = what
Settled(d) == dispatch' = [dispatch EXCEPT ![d].doing = Nothing]

\* Failed, refused, or not in the bank.
HandlerFails(d) ==
    /\ dispatch[d].doing # Nothing /\ Settled(d)
    /\ UNCHANGED <<parked, heard, lexicon, speaker, saved>>

\* The voice with its engine, or on the engine there is where no engine tells its voices.
SetsVoice(d) ==
    /\ Doing(d, "voice") /\ Settled(d)
    /\ \E engine \in {dispatch[d].doing.voice, speaker.engine} :
          speaker' = [voice |-> dispatch[d].doing.voice, engine |-> engine]
    /\ UNCHANGED <<parked, heard, lexicon, saved>>

Saves(d) ==
    /\ Doing(d, "save") /\ Settled(d) /\ clearPin
    /\ saved' = saved \union {[of |-> dispatch[d].doing.of, take |-> dispatch[d].doing.take,
                               loose |-> dispatch[d].doing.loose]}
    /\ UNCHANGED <<lexicon, speaker>>

\* persistPronunciationsFile: the file is read, changed and written.
ReadsConfig(d) ==
    /\ Doing(d, "persist") /\ dispatch[d].doing.at = "reading"
    /\ dispatch' = [dispatch EXCEPT ![d].doing.at = "writing", ![d].doing.base = lexicon.file]
    /\ UNCHANGED <<parked, heard, lexicon, speaker, saved>>

\* What was written since this persist read the file, it does not know of.
Reverted(base) == lexicon.reverted \union {t \in Terms : base[t] # lexicon.file[t]}

Override(f, g) == [t \in Terms |-> IF g[t] = Unset THEN f[t] ELSE g[t]]
Forget(f, g) == [t \in Terms |-> IF g[t] = Unset THEN f[t] ELSE Unset]

\* Mistake: everything that was unsaved is taken to be saved now.
WritesAll(d) ==
    /\ Doing(d, "persist") /\ dispatch[d].doing.at = "writing" /\ Settled(d)
    /\ lexicon' = [lexicon EXCEPT !.file = Override(dispatch[d].doing.base, dispatch[d].doing.entries),
                                  !.overlay = NoReadings,
                                  !.reverted = Reverted(dispatch[d].doing.base)]
    /\ UNCHANGED <<parked, heard, speaker, saved>>

\* ... and the terms that were written are no longer unsaved.
WritesConfig(d) ==
    /\ Doing(d, "persist") /\ dispatch[d].doing.at = "writing" /\ Settled(d)
    /\ lexicon' = [lexicon EXCEPT !.file = Override(dispatch[d].doing.base, dispatch[d].doing.entries),
                                  !.overlay = Forget(lexicon.overlay, dispatch[d].doing.entries),
                                  !.reverted = Reverted(dispatch[d].doing.base)]
    /\ UNCHANGED <<parked, heard, speaker, saved>>

ToolsNext ==
    \/ \E kind \in {"spoken", "typed"} : Begins(kind)
    \/ \E tool \in {"save", "persist"} : Parks(tool)
    \/ \E t \in Terms, r \in Readings : Remembers(t, r)
    \/ \E v \in Speakers : AsksForVoice(v)
    \/ Reopened \/ Transcribed \/ Synthesizes \/ Completes
    \/ ConfirmsSave \/ ConfirmsPersist \/ CancelsAction
    \/ \E d \in DOMAIN dispatch :
          HandlerFails(d) \/ SetsVoice(d) \/ Saves(d) \/ ReadsConfig(d) \/ WritesConfig(d)

-----------------------------------------------------------------------------
\* Terms that a persist under way may yet write.
Writing == {t \in Terms : \E d \in DOMAIN dispatch : Doing(d, "persist") /\ dispatch[d].doing.entries[t] # Unset}

\* What finishes late changes nothing it was not asked about: the sample of a voice is
\* the one its question was about, if there was one, and no cancellation and no other
\* registration came in between; of the terms the session remembers, each is unsaved
\* still, in its last reading, or the file has it, however a persist went, unless another
\* persist, that had read the file before, has written it back without the term.
ReferentsHold ==
    /\ \A s \in saved : s.of = 0 \/ s.loose \/ s.take = s.of
    /\ parked.tool = "save" => parked.loose \/ heard.pinned = parked.of
    /\ \A t \in Terms :
          /\ lexicon.overlay[t] \in {Unset, lexicon.said[t]}
          /\ lexicon.said[t] # Unset /\ lexicon.overlay[t] = Unset =>
                lexicon.file[t] # Unset \/ t \in lexicon.reverted

\* What a save registers was said before its command (builtin.ts:151-156).  No run checks
\* it: a command that was reopened, or typed, has another utterance before it.
PinIsTheSample ==
    parked.tool = "save" /\ heard.pinned # 0 =>
        /\ dispatch[heard.pinned].turn < dispatch[parked.by].turn
        /\ \A d \in DOMAIN dispatch : dispatch[d].kind = "spoken" /\ dispatch[d].at # "asr"
              /\ dispatch[d].turn < dispatch[parked.by].turn => d <= heard.pinned

\* ... and is what the question was about (builtin.ts:182-185).  No run checks it: the
\* success of another registration, or a cancellation, takes the pin away, and without
\* a pin the command is taken.
SavedAsAsked == \A s \in saved : s.take = s.of

\* A reply is synthesized by the engine of its voice (session.ts:492-493).  No run checks
\* it: set_voice sends the rest of the reply to another engine, under the old voice.
ReplyHasItsEngine == Answering => Last(dispatch).voice = speaker.engine

\* What was saved stays saved (builtin.ts:293).  No run checks it: of two persists under
\* way the one that read the file first may write it last, without the other's terms.
SavedStaysSaved == \A t \in Terms :
    lexicon.said[t] # Unset /\ lexicon.overlay[t] = Unset => lexicon.file[t] # Unset

\* What was remembered is not forgotten before it is saved.  No run checks it: a term
\* remembered again while it is being written is.
NoReadingIsLost == \A t \in Terms \ Writing :
    lexicon.said[t] # Unset /\ lexicon.overlay[t] = Unset => lexicon.file[t] = lexicon.said[t]
=============================================================================
