---------------------------- MODULE Gateway_proofs ----------------------------
(***************************************************************************)
(* What the parts of the gateway's process keep, for any number of         *)
(* conversations, requests and voices and any limits, and what a client of *)
(* it sees, over any number of sockets that break.                         *)
(*                                                                         *)
(* The client's section is about messages on their way.  A socket carries  *)
(* at most one question from which a session may come (AsksOnce), and none *)
(* once it was answered (Answered); so the socket a session speaks to was  *)
(* told of no other (RouteOK), and what is on its way to a client that is  *)
(* attached ends with how its session looks (Learns).  A step in which a   *)
(* session only speaks keeps all of this at once (SessionSpeaks).          *)
(***************************************************************************)
EXTENDS SessionTools, VoiceBank, EngineServer, SessionLink, FiniteSetTheorems,
        SequenceTheorems, TLAPS

-----------------------------------------------------------------------------
(* The tools of a conversation.                                            *)

ToolsSpec == ToolsInit /\ [][ToolsNext]_toolsVars

Lexicons == [Terms -> Readings \union {Unset}]

Actions == [tool : {"none", "save", "persist"}, by : Nat, of : Nat, loose : BOOLEAN]

\* What a handler under way holds.
SaveWork == [do : {"save"}, take : Nat, of : Nat, loose : BOOLEAN]
PersistWork == [do : {"persist"}, entries : Lexicons, base : Lexicons,
                at : {"reading", "writing"}]
VoiceWork == [do : {"voice"}, voice : Speakers]
Work == {Nothing} \union SaveWork \union PersistWork \union VoiceWork

Dispatches == [turn : Nat, kind : {"spoken", "typed"}, at : {"asr", "model", "over"},
               spoke : BOOLEAN, offered : Actions, voice : Speakers \union {Unset},
               doing : Work]

ToolsShape ==
    /\ dispatch \in Seq(Dispatches)
    /\ parked \in Actions
    /\ heard \in [current : Nat, previous : Nat, pinned : Nat]
    /\ lexicon \in [said : Lexicons, overlay : Lexicons, file : Lexicons,
                    reverted : SUBSET Terms]
    /\ speaker \in [voice : Speakers, engine : Speakers]
    /\ saved \subseteq [of : Nat, take : Nat, loose : BOOLEAN]

\* A registration under way takes the sample that was asked about, if there was one
\* and nothing has taken it away.
SavesAsAsked ==
    \A d \in DOMAIN dispatch :
        dispatch[d].doing.do = "save" =>
            \/ dispatch[d].doing.of = 0 \/ dispatch[d].doing.loose
            \/ dispatch[d].doing.take = dispatch[d].doing.of

ToolsInv == ToolsShape /\ SavesAsAsked /\ ReferentsHold

\* A step after which no handler has anything it did not have.
WorkKept ==
    /\ dispatch' \in Seq(Dispatches)
    /\ \A d \in DOMAIN dispatch' :
          \/ dispatch'[d].doing = Nothing
          \/ d \in DOMAIN dispatch /\ dispatch'[d].doing = dispatch[d].doing

\* The last dispatch of a conversation.
LEMMA LiveIs ==
  ASSUME ToolsShape, dispatch # <<>>
  PROVE  /\ Live \in DOMAIN dispatch /\ Last(dispatch) = dispatch[Live]
         /\ dispatch[Live] \in Dispatches /\ Live \in Nat
  BY DEF ToolsShape, Live, Last

\* No dispatch does something merely because another is heard, speaks or ends.
LEMMA LiveChanges ==
  ASSUME ToolsShape, dispatch # <<>>, NEW x \in Dispatches,
         x.doing = dispatch[Live].doing, dispatch' = [dispatch EXCEPT ![Live] = x]
  PROVE  WorkKept
<1>1. Live \in DOMAIN dispatch
  BY LiveIs
<1>2. dispatch' \in Seq(Dispatches) /\ DOMAIN dispatch' = DOMAIN dispatch
  BY <1>1 DEF ToolsShape
<1>3. \A d \in DOMAIN dispatch : dispatch'[d] = IF d = Live THEN x ELSE dispatch[d]
  BY <1>1 DEF ToolsShape
<1> QED
  BY <1>2, <1>3 DEF WorkKept

\* A dispatch that ends keeps what its handler does.
LEMMA QuietIs ==
  ASSUME NEW x \in Dispatches
  PROVE  /\ Quiet(x) \in Dispatches /\ Quiet(x).doing = x.doing
         /\ Quiet(x).turn = x.turn
  BY DEF Quiet, Dispatches, NotParked, Actions

\* So does one that asks its model.
LEMMA AskingIs ==
  ASSUME ToolsShape, NEW x \in Dispatches
  PROVE  Asking(x) \in Dispatches /\ Asking(x).doing = x.doing
  BY DEF Asking, Dispatches, ToolsShape

\* A dispatch begins with nothing under way.
LEMMA DispatchIs ==
  ASSUME NEW turn \in Nat, NEW kind \in {"spoken", "typed"}
  PROVE  Dispatch(turn, kind) \in Dispatches /\ Dispatch(turn, kind).doing = Nothing
  BY DEF Dispatch, Dispatches, NotParked, Actions, Work

\* A new dispatch supersedes the last one, whose handler goes on.
LEMMA SupersedesKeeps ==
  ASSUME ToolsShape, NEW new \in Dispatches, new.doing = Nothing, Supersedes(new)
  PROVE  WorkKept
<1>1. CASE dispatch = <<>>
  <2>1. dispatch' = Append(<<>>, new)
    BY <1>1 DEF Supersedes
  <2>2. dispatch' = <<new>>
    BY <2>1
  <2> QED
    BY <2>2 DEF WorkKept
<1>2. CASE dispatch # <<>>
  <2> DEFINE old == [dispatch EXCEPT ![Live] = Quiet(@)]
  <2>1. /\ Live \in DOMAIN dispatch /\ dispatch[Live] \in Dispatches
    BY <1>2, LiveIs
  <2>2. Quiet(dispatch[Live]) \in Dispatches /\ Quiet(dispatch[Live]).doing = dispatch[Live].doing
    BY <2>1, QuietIs
  <2>3. old \in Seq(Dispatches) /\ DOMAIN old = DOMAIN dispatch /\ Len(old) = Len(dispatch)
    BY <2>1, <2>2 DEF ToolsShape
  <2>4. \A d \in DOMAIN dispatch : old[d].doing = dispatch[d].doing
    BY <2>1, <2>2 DEF ToolsShape
  <2>5. dispatch' = Append(old, new)
    BY <1>2 DEF Supersedes
  <2> HIDE DEF old
  <2>6. dispatch' \in Seq(Dispatches)
    BY <2>3, <2>5
  <2>7. ASSUME NEW d \in DOMAIN dispatch'
        PROVE  \/ dispatch'[d].doing = Nothing
               \/ d \in DOMAIN dispatch /\ dispatch'[d].doing = dispatch[d].doing
    <3>1. CASE d = Len(old) + 1
      BY <2>3, <2>5, <3>1
    <3>2. CASE d \in DOMAIN old
      <4>1. dispatch'[d] = old[d]
        BY <2>3, <2>5, <3>2
      <4> QED
        BY <2>3, <2>4, <3>2, <4>1
    <3>3. d \in DOMAIN old \/ d = Len(old) + 1
      BY <2>3, <2>5
    <3> QED
      BY <3>1, <3>2, <3>3
  <2> QED
    BY <2>6, <2>7 DEF WorkKept
<1> QED
  BY <1>1, <1>2

\* ... and so does every registration under way.
LEMMA WorkStays ==
  ASSUME ToolsInv, WorkKept
  PROVE  SavesAsAsked'
<1> SUFFICES ASSUME NEW d \in DOMAIN dispatch', dispatch'[d].doing.do = "save"
             PROVE  \/ dispatch'[d].doing.of = 0 \/ dispatch'[d].doing.loose
                    \/ dispatch'[d].doing.take = dispatch'[d].doing.of
  BY DEF SavesAsAsked
<1>1. d \in DOMAIN dispatch /\ dispatch'[d].doing = dispatch[d].doing
  BY DEF WorkKept, Nothing
<1> QED
  BY <1>1 DEF ToolsInv, SavesAsAsked

\* What is parked, when it is a registration, has its pin.
Pinned == parked.tool = "save" => parked.loose \/ heard.pinned = parked.of

\* A step of the conversation that settles no handler.
LEMMA TalkKeeps ==
  ASSUME ToolsInv, WorkKept, UNCHANGED <<lexicon, speaker, saved>>,
         parked' \in Actions, heard' \in [current : Nat, previous : Nat, pinned : Nat],
         Pinned'
  PROVE  ToolsInv'
<1>1. SavesAsAsked'
  BY WorkStays
<1>2. ToolsShape'
  BY DEF ToolsInv, ToolsShape, WorkKept
<1>3. ReferentsHold'
  BY DEF ToolsInv, ReferentsHold, Pinned
<1> QED
  BY <1>1, <1>2, <1>3 DEF ToolsInv

\* What the invariant says of the parked action and of the referents.
LEMMA ParkedIs ==
  ASSUME ToolsInv
  PROVE  /\ parked \in Actions /\ heard \in [current : Nat, previous : Nat, pinned : Nat]
         /\ Pinned /\ ToolsShape
  BY DEF ToolsInv, ToolsShape, ReferentsHold, Pinned

\* Speech and text begin turns.
LEMMA BeginsKeeps ==
  ASSUME ToolsInv, NEW kind \in {"spoken", "typed"}, Begins(kind)
  PROVE  ToolsInv'
<1> DEFINE turn == IF dispatch = <<>> THEN 1 ELSE Last(dispatch).turn + 1
           new == Dispatch(turn, kind)
           first == IF kind = "spoken" THEN new ELSE Asking(new)
<1>1. turn \in Nat
  BY ParkedIs, LiveIs DEF Dispatches
<1>2. first \in Dispatches /\ first.doing = Nothing
  BY <1>1, ParkedIs, DispatchIs, AskingIs
<1>3. Supersedes(first) /\ UNCHANGED <<parked, heard, lexicon, speaker, saved>>
  BY DEF Begins
<1> HIDE DEF first
<1>4. WorkKept
  BY <1>2, <1>3, ParkedIs, SupersedesKeeps
<1> QED
  BY <1>3, <1>4, ParkedIs, TalkKeeps DEF Pinned

\* An utterance goes on after a soft end.
LEMMA ReopenedKeeps ==
  ASSUME ToolsInv, Reopened
  PROVE  ToolsInv'
<1> DEFINE new == Dispatch(Last(dispatch).turn, "spoken")
<1>1. dispatch # <<>>
  BY ParkedIs DEF Reopened, ToolsShape, Live
<1>2. Last(dispatch).turn \in Nat
  BY <1>1, ParkedIs, LiveIs DEF Dispatches
<1>3. new \in Dispatches /\ new.doing = Nothing
  BY <1>2, DispatchIs
<1>4. Supersedes(new) /\ UNCHANGED <<parked, heard, lexicon, speaker, saved>>
  BY DEF Reopened
<1> HIDE DEF new
<1>5. WorkKept
  BY <1>3, <1>4, ParkedIs, SupersedesKeeps
<1> QED
  BY <1>4, <1>5, ParkedIs, TalkKeeps DEF Pinned

\* A transcript is recorded.
LEMMA TranscribedKeeps ==
  ASSUME ToolsInv, Transcribed
  PROVE  ToolsInv'
<1>1. /\ dispatch # <<>> /\ UNCHANGED <<parked, lexicon, speaker, saved>>
      /\ heard' = [heard EXCEPT !.current = Live, !.previous = heard.current]
  BY DEF Transcribed
<1>2. Live \in Nat /\ dispatch[Live] \in Dispatches
  BY <1>1, ParkedIs, LiveIs
<1>3. \E x \in Dispatches : /\ x.doing = dispatch[Live].doing
                            /\ dispatch' = [dispatch EXCEPT ![Live] = x]
  BY <1>2, ParkedIs, QuietIs, AskingIs DEF Transcribed
<1>4. WorkKept
  BY <1>1, <1>3, ParkedIs, LiveChanges
<1>5. heard' \in [current : Nat, previous : Nat, pinned : Nat] /\ heard'.pinned = heard.pinned
  BY <1>1, <1>2, ParkedIs
<1> QED
  BY <1>1, <1>4, <1>5, ParkedIs, TalkKeeps DEF Pinned

\* A sentence of the reply is synthesized.
LEMMA SynthesizesKeeps ==
  ASSUME ToolsInv, Synthesizes
  PROVE  ToolsInv'
<1> DEFINE x == [dispatch[Live] EXCEPT !.spoke = TRUE]
<1>1. dispatch # <<>> /\ UNCHANGED <<parked, heard, lexicon, speaker, saved>>
  BY DEF Synthesizes, Answering
<1>2. Live \in DOMAIN dispatch /\ dispatch[Live] \in Dispatches
  BY <1>1, ParkedIs, LiveIs
<1>3. x \in Dispatches /\ x.doing = dispatch[Live].doing
  BY <1>2 DEF Dispatches
<1>4. dispatch' = [dispatch EXCEPT ![Live] = x]
  BY <1>2 DEF Synthesizes
<1> HIDE DEF x
<1>5. WorkKept
  BY <1>1, <1>3, <1>4, ParkedIs, LiveChanges
<1> QED
  BY <1>1, <1>5, ParkedIs, TalkKeeps DEF Pinned

\* A reply is complete.
LEMMA CompletesKeeps ==
  ASSUME ToolsInv, Completes
  PROVE  ToolsInv'
<1>1. dispatch # <<>> /\ UNCHANGED <<heard, lexicon, speaker, saved>>
  BY DEF Completes, Answering
<1>2. Live \in DOMAIN dispatch /\ dispatch[Live] \in Dispatches
  BY <1>1, ParkedIs, LiveIs
<1>3. dispatch' = [dispatch EXCEPT ![Live] = Quiet(dispatch[Live])]
  BY DEF Completes
<1>4. WorkKept
  BY <1>1, <1>2, <1>3, ParkedIs, QuietIs, LiveChanges
<1>5. parked' \in {parked, NotParked}
  BY DEF Completes
<1>6. CASE parked' = parked
  BY <1>1, <1>4, <1>6, ParkedIs, TalkKeeps DEF Pinned
<1>7. CASE parked' = NotParked
  <2>1. parked' \in Actions /\ Pinned'
    BY <1>7 DEF Actions, NotParked, Pinned
  <2> QED
    BY <1>1, <1>4, <2>1, ParkedIs, TalkKeeps
<1> QED
  BY <1>5, <1>6, <1>7

\* What a handler of the live dispatch begins with.
LEMMA DoesIs ==
  ASSUME ToolsInv, Answering, NEW what \in Work, Does(what)
  PROVE  /\ dispatch' \in Seq(Dispatches)
         /\ \A d \in DOMAIN dispatch' :
               \/ dispatch'[d].doing = what
               \/ d \in DOMAIN dispatch /\ dispatch'[d].doing = dispatch[d].doing
<1>1. Live \in DOMAIN dispatch /\ dispatch[Live] \in Dispatches
  BY ParkedIs, LiveIs DEF Answering
<1> DEFINE x == [dispatch[Live] EXCEPT !.doing = what]
<1>2. x \in Dispatches /\ x.doing = what
  BY <1>1 DEF Dispatches
<1>3. dispatch' = [dispatch EXCEPT ![Live] = x]
  BY <1>1 DEF Does
<1> HIDE DEF x
<1>4. dispatch' \in Seq(Dispatches) /\ DOMAIN dispatch' = DOMAIN dispatch
  BY <1>1, <1>2, <1>3, ParkedIs DEF ToolsShape
<1>5. \A d \in DOMAIN dispatch : dispatch'[d] = IF d = Live THEN x ELSE dispatch[d]
  BY <1>1, <1>3, ParkedIs DEF ToolsShape
<1> QED
  BY <1>2, <1>4, <1>5

\* A handler begins that registers nothing, or what was asked.
LEMMA DoingKeeps ==
  ASSUME ToolsInv, Answering, NEW what \in Work, Does(what),
         what.do = "save" => what.of = 0 \/ what.loose \/ what.take = what.of,
         UNCHANGED <<heard, lexicon, speaker, saved>>, parked' \in {parked, NotParked}
  PROVE  ToolsInv'
<1>1. /\ dispatch' \in Seq(Dispatches)
      /\ \A d \in DOMAIN dispatch' :
            \/ dispatch'[d].doing = what
            \/ d \in DOMAIN dispatch /\ dispatch'[d].doing = dispatch[d].doing
  BY DoesIs
<1>2. SavesAsAsked'
  BY <1>1 DEF SavesAsAsked, ToolsInv
<1>3. parked' \in Actions /\ (parked'.tool = "save" => parked' = parked)
  <2>1. parked \in Actions /\ NotParked \in Actions /\ NotParked.tool = "none"
    BY ParkedIs DEF Actions, NotParked
  <2> QED
    BY <2>1
<1>4. ToolsShape'
  BY <1>1, <1>3, ParkedIs DEF ToolsShape
<1>5. ReferentsHold'
  BY <1>3 DEF ToolsInv, ReferentsHold
<1> QED
  BY <1>2, <1>4, <1>5 DEF ToolsInv

\* An external tool waits, with the utterance that it is about pinned.
LEMMA ParksKeeps ==
  ASSUME ToolsInv, NEW tool \in {"save", "persist"}, Parks(tool)
  PROVE  ToolsInv'
<1>1. dispatch # <<>> /\ UNCHANGED <<dispatch, lexicon, speaker, saved>>
  BY DEF Parks, Answering
<1>2. Live \in Nat
  BY <1>1, ParkedIs, LiveIs
<1>3. WorkKept
  BY <1>1, ParkedIs DEF WorkKept, ToolsShape
<1>4. /\ parked' = [tool |-> tool, by |-> Live, of |-> heard.previous, loose |-> FALSE]
      /\ heard' = [heard EXCEPT !.pinned = pin(tool)]
  BY DEF Parks
<1>5. parked' \in Actions
  BY <1>2, <1>4, ParkedIs DEF Actions
<1>6. heard' \in [current : Nat, previous : Nat, pinned : Nat]
  BY <1>4, ParkedIs DEF pin
<1>7. Pinned'
  BY <1>4, ParkedIs DEF pin, Pinned
<1> QED
  BY <1>1, <1>3, <1>5, <1>6, <1>7, TalkKeeps

\* A registration is confirmed: it takes the pinned utterance.
LEMMA ConfirmsSaveKeeps ==
  ASSUME ToolsInv, ConfirmsSave
  PROVE  ToolsInv'
<1> DEFINE what == [do |-> "save", take |-> lastUtterance, of |-> parked.of,
                    loose |-> parked.loose]
<1>1. /\ Answering /\ parked.tool = "save" /\ parked' = NotParked
      /\ UNCHANGED <<heard, lexicon, speaker, saved>>
  BY DEF ConfirmsSave, Offered
<1>2. parked \in Actions /\ Pinned /\ heard \in [current : Nat, previous : Nat, pinned : Nat]
  BY ParkedIs
<1>3. CASE Does(what)
  <2>1. lastUtterance \in Nat
    BY <1>2 DEF lastUtterance
  <2>2. what \in Work
    BY <1>2, <2>1 DEF Work, SaveWork, Actions
  <2>3. what.of = 0 \/ what.loose \/ what.take = what.of
    BY <1>1, <1>2 DEF Pinned, lastUtterance, Actions
  <2> HIDE DEF what
  <2> QED
    BY <1>1, <1>3, <2>2, <2>3, DoingKeeps
<1>4. CASE UNCHANGED dispatch
  <2>1. WorkKept
    BY <1>4, ParkedIs DEF WorkKept, ToolsShape
  <2>2. parked' \in Actions /\ Pinned'
    BY <1>1 DEF Actions, NotParked, Pinned
  <2> QED
    BY <1>1, <1>2, <2>1, <2>2, TalkKeeps
<1> QED
  BY <1>3, <1>4 DEF ConfirmsSave

\* A persist is confirmed: it writes what is unsaved at that moment.
LEMMA ConfirmsPersistKeeps ==
  ASSUME ToolsInv, ConfirmsPersist
  PROVE  ToolsInv'
<1> DEFINE what == [do |-> "persist", entries |-> lexicon.overlay, base |-> NoReadings,
                    at |-> "reading"]
<1>1. /\ Answering /\ parked' = NotParked
      /\ UNCHANGED <<heard, lexicon, speaker, saved>>
  BY DEF ConfirmsPersist, Offered
<1>3. CASE Does(what)
  <2>1. NoReadings \in Lexicons /\ lexicon.overlay \in Lexicons
    BY ParkedIs DEF Lexicons, NoReadings, ToolsShape
  <2>2. what \in Work /\ what.do # "save"
    BY <2>1 DEF Work, PersistWork
  <2> HIDE DEF what
  <2> QED
    BY <1>1, <1>3, <2>2, DoingKeeps
<1>4. CASE UNCHANGED dispatch
  <2>1. WorkKept
    BY <1>4, ParkedIs DEF WorkKept, ToolsShape
  <2>2. parked' \in Actions /\ Pinned'
    BY <1>1 DEF Actions, NotParked, Pinned
  <2> QED
    BY <1>1, <2>1, <2>2, ParkedIs, TalkKeeps
<1> QED
  BY <1>3, <1>4 DEF ConfirmsPersist

\* A cancellation takes the question away, or the pin.
LEMMA CancelsKeeps ==
  ASSUME ToolsInv, CancelsAction
  PROVE  ToolsInv'
<1>1. UNCHANGED <<dispatch, lexicon, speaker, saved>>
  BY DEF CancelsAction
<1>2. WorkKept
  BY <1>1, ParkedIs DEF WorkKept, ToolsShape
<1>3. heard' = [heard EXCEPT !.pinned = 0]
  BY DEF CancelsAction, clearPin
<1>4. heard' \in [current : Nat, previous : Nat, pinned : Nat]
  BY <1>3, ParkedIs
<1>5. parked' = NotParked \/ parked' = (IF parked.tool = "save" THEN [parked EXCEPT !.loose = TRUE] ELSE parked)
  BY DEF CancelsAction, clearPin
<1>6. parked' \in Actions /\ Pinned'
  <2>1. CASE parked' = NotParked
    BY <2>1 DEF Actions, NotParked, Pinned
  <2>2. CASE parked' = (IF parked.tool = "save" THEN [parked EXCEPT !.loose = TRUE] ELSE parked)
    BY <2>2, ParkedIs DEF Actions, Pinned
  <2> QED
    BY <1>5, <2>1, <2>2
<1> QED
  BY <1>1, <1>2, <1>4, <1>6, TalkKeeps

\* The bank is asked for a voice.
LEMMA AsksKeeps ==
  ASSUME ToolsInv, NEW v \in Speakers, AsksForVoice(v)
  PROVE  ToolsInv'
<1> DEFINE what == [do |-> "voice", voice |-> v]
<1>1. /\ Answering /\ UNCHANGED <<parked, heard, lexicon, speaker, saved>>
      /\ Does(what)
  BY DEF AsksForVoice
<1>2. what \in Work /\ what.do # "save"
  BY DEF Work, VoiceWork
<1> HIDE DEF what
<1> QED
  BY <1>1, <1>2, DoingKeeps

\* What a term is after a reading was remembered is its last reading, and unsaved.
LEMMA RemembersKeeps ==
  ASSUME ToolsInv, NEW t \in Terms, NEW r \in Readings, Remembers(t, r)
  PROVE  ToolsInv'
<1>1. /\ UNCHANGED <<dispatch, parked, heard, speaker, saved>>
      /\ lexicon' = [lexicon EXCEPT !.said[t] = r, !.overlay[t] = r]
  BY DEF Remembers
<1>2. lexicon \in [said : Lexicons, overlay : Lexicons, file : Lexicons,
                   reverted : SUBSET Terms]
  BY ParkedIs DEF ToolsShape
<1>3. /\ lexicon' \in [said : Lexicons, overlay : Lexicons, file : Lexicons,
                       reverted : SUBSET Terms]
      /\ lexicon'.said = [lexicon.said EXCEPT ![t] = r]
      /\ lexicon'.overlay = [lexicon.overlay EXCEPT ![t] = r]
      /\ lexicon'.file = lexicon.file /\ lexicon'.reverted = lexicon.reverted
  BY <1>1, <1>2 DEF Lexicons
<1>4. ToolsShape'
  BY <1>1, <1>3, ParkedIs DEF ToolsShape
<1>5. SavesAsAsked'
  BY <1>1 DEF ToolsInv, SavesAsAsked
<1>6. ASSUME NEW u \in Terms
      PROVE  /\ lexicon'.overlay[u] \in {Unset, lexicon'.said[u]}
             /\ lexicon'.said[u] # Unset /\ lexicon'.overlay[u] = Unset =>
                   lexicon'.file[u] # Unset \/ u \in lexicon'.reverted
  <2>1. CASE u = t
    BY <1>2, <1>3, <2>1, ToolsAssumption DEF Lexicons
  <2>2. CASE u # t
    BY <1>2, <1>3, <2>2 DEF Lexicons, ToolsInv, ReferentsHold
  <2> QED
    BY <2>1, <2>2
<1>7. ReferentsHold'
  BY <1>1, <1>6 DEF ToolsInv, ReferentsHold
<1> QED
  BY <1>4, <1>5, <1>7 DEF ToolsInv

\* A handler that settled has nothing under way; the others go on.
LEMMA SettledIs ==
  ASSUME ToolsShape, NEW e \in DOMAIN dispatch, Settled(e)
  PROVE  WorkKept
<1> DEFINE x == [dispatch[e] EXCEPT !.doing = Nothing]
<1>1. dispatch[e] \in Dispatches
  BY DEF ToolsShape
<1>2. x \in Dispatches /\ x.doing = Nothing
  BY <1>1 DEF Dispatches, Work
<1>3. dispatch' = [dispatch EXCEPT ![e] = x]
  BY <1>1 DEF Settled
<1> HIDE DEF x
<1>4. dispatch' \in Seq(Dispatches) /\ DOMAIN dispatch' = DOMAIN dispatch
  BY <1>2, <1>3 DEF ToolsShape
<1>5. \A d \in DOMAIN dispatch : dispatch'[d] = IF d = e THEN x ELSE dispatch[d]
  BY <1>3 DEF ToolsShape
<1> QED
  BY <1>2, <1>4, <1>5 DEF WorkKept

\* A handler fails.
LEMMA FailsKeeps ==
  ASSUME ToolsInv, NEW d \in DOMAIN dispatch, HandlerFails(d)
  PROVE  ToolsInv'
<1>1. Settled(d) /\ UNCHANGED <<parked, heard, lexicon, speaker, saved>>
  BY DEF HandlerFails
<1>2. WorkKept
  BY <1>1, ParkedIs, SettledIs
<1> QED
  BY <1>1, <1>2, ParkedIs, TalkKeeps DEF Pinned

\* What a handler does, it has: each kind has its own fields.
LEMMA WorkIs ==
  ASSUME ToolsInv, NEW d \in DOMAIN dispatch
  PROVE  /\ dispatch[d] \in Dispatches
         /\ Doing(d, "save") => dispatch[d].doing \in SaveWork
         /\ Doing(d, "persist") => dispatch[d].doing \in PersistWork
         /\ Doing(d, "voice") => dispatch[d].doing \in VoiceWork
<1>1. dispatch[d] \in Dispatches
  BY ParkedIs DEF ToolsShape
<1>2. dispatch[d].doing \in Work
  BY <1>1 DEF Dispatches
<1> QED
  BY <1>1, <1>2 DEF Doing, Work, SaveWork, PersistWork, VoiceWork, Nothing

\* The voice is set.
LEMMA SetsVoiceKeeps ==
  ASSUME ToolsInv, NEW d \in DOMAIN dispatch, SetsVoice(d)
  PROVE  ToolsInv'
<1>1. Settled(d) /\ UNCHANGED <<parked, heard, lexicon, saved>>
  BY DEF SetsVoice
<1>2. WorkKept
  BY <1>1, ParkedIs, SettledIs
<1>3. dispatch[d].doing.voice \in Speakers
  BY WorkIs DEF SetsVoice, VoiceWork
<1>4. speaker' \in [voice : Speakers, engine : Speakers]
  BY <1>3, ParkedIs DEF SetsVoice, ToolsShape
<1>5. ToolsShape'
  BY <1>1, <1>2, <1>4, ParkedIs DEF ToolsShape, WorkKept
<1>6. SavesAsAsked'
  BY <1>2, WorkStays
<1>7. ReferentsHold'
  BY <1>1 DEF ToolsInv, ReferentsHold
<1> QED
  BY <1>5, <1>6, <1>7 DEF ToolsInv

\* A voice is registered, and the pin is taken away.
LEMMA SavesKeeps ==
  ASSUME ToolsInv, NEW d \in DOMAIN dispatch, Saves(d)
  PROVE  ToolsInv'
<1> DEFINE s == [of |-> dispatch[d].doing.of, take |-> dispatch[d].doing.take,
                 loose |-> dispatch[d].doing.loose]
<1>1. /\ Settled(d) /\ UNCHANGED <<lexicon, speaker>> /\ Doing(d, "save")
      /\ saved' = saved \union {s}
      /\ heard' = [heard EXCEPT !.pinned = 0]
      /\ parked' = IF parked.tool = "save" THEN [parked EXCEPT !.loose = TRUE] ELSE parked
  BY DEF Saves, clearPin
<1>2. WorkKept
  BY <1>1, ParkedIs, SettledIs
<1>3. dispatch[d].doing \in SaveWork
  BY <1>1, WorkIs
<1>4. s \in [of : Nat, take : Nat, loose : BOOLEAN]
  BY <1>3 DEF SaveWork
<1>5. s.of = 0 \/ s.loose \/ s.take = s.of
  BY <1>1, <1>3 DEF Doing, ToolsInv, SavesAsAsked
<1>6. heard' \in [current : Nat, previous : Nat, pinned : Nat] /\ parked' \in Actions
  BY <1>1, ParkedIs DEF Actions
<1>7. parked'.tool = "save" => parked'.loose
  BY <1>1, ParkedIs DEF Actions
<1> HIDE DEF s
<1>8. ToolsShape'
  BY <1>1, <1>2, <1>4, <1>6, ParkedIs DEF ToolsShape, WorkKept
<1>9. SavesAsAsked'
  BY <1>2, WorkStays
<1>10. ReferentsHold'
  BY <1>1, <1>5, <1>7 DEF ToolsInv, ReferentsHold
<1> QED
  BY <1>8, <1>9, <1>10 DEF ToolsInv

\* A persist has read the file.
LEMMA ReadsKeeps ==
  ASSUME ToolsInv, NEW e \in DOMAIN dispatch, ReadsConfig(e)
  PROVE  ToolsInv'
<1> DEFINE x == [dispatch[e] EXCEPT !.doing.at = "writing", !.doing.base = lexicon.file]
<1>1. /\ UNCHANGED <<parked, heard, lexicon, speaker, saved>>
      /\ Doing(e, "persist")
  BY DEF ReadsConfig
<1>2. dispatch[e] \in Dispatches /\ dispatch[e].doing \in PersistWork
  BY <1>1, WorkIs
<1>3. lexicon.file \in Lexicons
  BY ParkedIs DEF ToolsShape
<1>4. x = [dispatch[e] EXCEPT !.doing = [dispatch[e].doing EXCEPT !.at = "writing", !.base = lexicon.file]]
  BY <1>2 DEF Dispatches
<1>5. [dispatch[e].doing EXCEPT !.at = "writing", !.base = lexicon.file] \in PersistWork
  BY <1>2, <1>3 DEF PersistWork
<1>6. x \in Dispatches /\ x.doing \in PersistWork
  BY <1>2, <1>4, <1>5 DEF Dispatches, Work
<1>7. dispatch' = [dispatch EXCEPT ![e] = x]
  BY <1>2 DEF ReadsConfig
<1> HIDE DEF x
<1>8. dispatch' \in Seq(Dispatches) /\ DOMAIN dispatch' = DOMAIN dispatch
  BY <1>6, <1>7, ParkedIs DEF ToolsShape
<1>9. \A d \in DOMAIN dispatch : dispatch'[d] = IF d = e THEN x ELSE dispatch[d]
  BY <1>7, ParkedIs DEF ToolsShape
<1>10. ToolsShape'
  BY <1>1, <1>8, ParkedIs DEF ToolsShape
<1>11. x.doing.do = "persist"
  BY <1>6 DEF PersistWork
<1>12. SavesAsAsked'
  BY <1>8, <1>9, <1>11 DEF ToolsInv, SavesAsAsked
<1>13. ReferentsHold'
  BY <1>1 DEF ToolsInv, ReferentsHold
<1> QED
  BY <1>10, <1>12, <1>13 DEF ToolsInv

\* A persist writes the file: of what it had read, the terms that changed since are
\* reverted; the terms it was asked to write are in the file, and not unsaved.
LEMMA WritesKeeps ==
  ASSUME ToolsInv, NEW d \in DOMAIN dispatch, WritesConfig(d)
  PROVE  ToolsInv'
<1> DEFINE base == dispatch[d].doing.base
           entries == dispatch[d].doing.entries
<1>1. /\ Settled(d) /\ UNCHANGED <<parked, heard, speaker, saved>> /\ Doing(d, "persist")
      /\ lexicon' = [lexicon EXCEPT !.file = Override(base, entries),
                                    !.overlay = Forget(lexicon.overlay, entries),
                                    !.reverted = Reverted(base)]
  BY DEF WritesConfig
<1>2. WorkKept
  BY <1>1, ParkedIs, SettledIs
<1>3. base \in Lexicons /\ entries \in Lexicons
  BY <1>1, WorkIs DEF PersistWork
<1> HIDE DEF base, entries
<1>4. lexicon \in [said : Lexicons, overlay : Lexicons, file : Lexicons,
                   reverted : SUBSET Terms]
  BY ParkedIs DEF ToolsShape
<1>5. /\ Override(base, entries) \in Lexicons
      /\ Forget(lexicon.overlay, entries) \in Lexicons
      /\ Reverted(base) \in SUBSET Terms
  BY <1>3, <1>4 DEF Override, Forget, Reverted, Lexicons
<1>6. /\ lexicon' \in [said : Lexicons, overlay : Lexicons, file : Lexicons,
                       reverted : SUBSET Terms]
      /\ lexicon'.said = lexicon.said
      /\ lexicon'.overlay = Forget(lexicon.overlay, entries)
      /\ lexicon'.file = Override(base, entries) /\ lexicon'.reverted = Reverted(base)
  BY <1>1, <1>4, <1>5
<1>7. ToolsShape'
  BY <1>1, <1>2, <1>6, ParkedIs DEF ToolsShape, WorkKept
<1>8. SavesAsAsked'
  BY <1>2, WorkStays
<1>9. ASSUME NEW t \in Terms
      PROVE  /\ lexicon'.overlay[t] \in {Unset, lexicon'.said[t]}
             /\ lexicon'.said[t] # Unset /\ lexicon'.overlay[t] = Unset =>
                   lexicon'.file[t] # Unset \/ t \in lexicon'.reverted
  <2>1. /\ lexicon.overlay[t] \in {Unset, lexicon.said[t]}
        /\ lexicon.said[t] # Unset /\ lexicon.overlay[t] = Unset =>
              lexicon.file[t] # Unset \/ t \in lexicon.reverted
    BY DEF ToolsInv, ReferentsHold
  <2>2. /\ lexicon'.overlay[t] = IF entries[t] = Unset THEN lexicon.overlay[t] ELSE Unset
        /\ lexicon'.file[t] = IF entries[t] = Unset THEN base[t] ELSE entries[t]
        /\ t \in lexicon'.reverted <=> t \in lexicon.reverted \/ base[t] # lexicon.file[t]
    BY <1>6 DEF Override, Forget, Reverted
  <2> QED
    BY <1>6, <2>1, <2>2
<1>10. ReferentsHold'
  BY <1>1, <1>9 DEF ToolsInv, ReferentsHold
<1> QED
  BY <1>7, <1>8, <1>10 DEF ToolsInv

\* The invariant of the tools: their handlers hold what they were asked for, whatever
\* happened to the conversation since.
THEOREM ToolsInvariant == ToolsSpec => []ToolsInv
<1>1. ASSUME ToolsInit PROVE ToolsInv
  <2>1. NoReadings \in Lexicons
    BY DEF NoReadings, Lexicons
  <2>2. ToolsShape
    BY <1>1, <2>1 DEF ToolsInit, ToolsShape, NotParked, Actions
  <2>3. SavesAsAsked
    BY <1>1 DEF ToolsInit, SavesAsAsked
  <2>4. ReferentsHold
    BY <1>1 DEF ToolsInit, ReferentsHold, NotParked, NoReadings
  <2> QED
    BY <2>2, <2>3, <2>4 DEF ToolsInv
<1>2. ASSUME ToolsInv, [ToolsNext]_toolsVars PROVE ToolsInv'
  <2>1. CASE ToolsNext
    BY <1>2, <2>1, BeginsKeeps, ParksKeeps, RemembersKeeps, AsksKeeps, ReopenedKeeps,
       TranscribedKeeps, SynthesizesKeeps, CompletesKeeps, ConfirmsSaveKeeps,
       ConfirmsPersistKeeps, CancelsKeeps, FailsKeeps, SetsVoiceKeeps, SavesKeeps,
       ReadsKeeps, WritesKeeps DEF ToolsNext
  <2>2. CASE UNCHANGED toolsVars
    BY <1>2, <2>2 DEF toolsVars, ToolsInv, ToolsShape, SavesAsAsked, ReferentsHold
  <2> QED
    BY <1>2, <2>1, <2>2
<1> QED
  BY <1>1, <1>2, PTL DEF ToolsSpec

\* What finishes late changes nothing it was not asked about (builtin.ts:151-185, 270-298),
\* however many dispatches were superseded and however many registrations and persists
\* are under way at once.
THEOREM ReferentsStayHeld == ToolsSpec => []ReferentsHold
<1>1. ToolsInv => ReferentsHold
  BY DEF ToolsInv
<1> QED
  BY <1>1, ToolsInvariant, PTL

-----------------------------------------------------------------------------
(* The voice bank.                                                         *)

VoiceSpec == VoiceInit /\ [][VoiceNext]_voiceVars

Stages == {"none", "reading", "calling", "answered", "misdirected"}
CallStates == {"none", "out", "taken", "refused", "heard", "lost"}
AskRecords == [kind : Kinds \union {"none"}, stage : Stages, take : Takes \union {NoTake},
           charges : 0..Allowance, call : [Engines -> CallStates]]

\* The charges that the requests hold, when they hold as many as c says.
Tokens(c) == {t \in Asks \X (1..Allowance) : t[2] <= c[t[1]]}
Held == [a \in Asks |-> asks[a].charges]

\* The engines a request pays for.
Paid(r) == {e \in Engines : Open(r.call[e]) \/ r.call[e] = "heard"}

VoiceShape ==
    /\ spent \in 0..Allowance
    /\ asks \in [Asks -> AskRecords]
    /\ bank \in [Engines -> Takes \union {NoTake}]

\* A request has charges and calls only where the route has got so far.
AskIsPaid(r) ==
    /\ r.stage \in {"calling", "answered"} => r.charges = Cardinality(Paid(r))
    /\ r.stage \in {"reading", "misdirected"} => r.charges = 1
    /\ r.stage = "none" => r.charges = 0
    /\ r.stage \in {"none", "reading", "misdirected"} => \A e \in Engines : r.call[e] = "none"

VoiceInv == VoiceShape /\ spent = Cardinality(Tokens(Held)) /\ \A a \in Asks : AskIsPaid(asks[a])

\* The charges are finitely many, and a request that holds k of them instead of those it
\* held changes their number by as much.
LEMMA TokensMove ==
  ASSUME NEW c \in [Asks -> 0..Allowance], NEW a \in Asks, NEW k \in 0..Allowance
  PROVE  /\ IsFiniteSet(Tokens(c)) /\ Cardinality(Tokens(c)) \in Nat
         /\ c[a] <= Cardinality(Tokens(c))
         /\ Cardinality(Tokens([c EXCEPT ![a] = k])) = Cardinality(Tokens(c)) - c[a] + k
<1> DEFINE all == Asks \X (1..Allowance)
           rest == {t \in all : t[1] # a /\ t[2] <= c[t[1]]}
           mine(n) == {a} \X (1..n)
           moved == [c EXCEPT ![a] = k]
<1>1. IsFiniteSet(Asks) /\ Allowance \in Nat
  BY VoiceAssumption
<1>2. IsFiniteSet(1..Allowance)
  BY <1>1, FS_Interval
<1>3. IsFiniteSet(all)
  BY <1>1, <1>2, FS_Product
<1>4. IsFiniteSet(rest) /\ Cardinality(rest) \in Nat
  <2>1. rest \in SUBSET all
    OBVIOUS
  <2> HIDE DEF all, rest
  <2>2. IsFiniteSet(rest)
    BY <1>3, <2>1, FS_Subset
  <2> QED
    BY <2>2, FS_CardinalityType
<1>5. ASSUME NEW n \in 0..Allowance
      PROVE  IsFiniteSet(mine(n)) /\ Cardinality(mine(n)) = n
  <2>1. IsFiniteSet(1..n) /\ Cardinality(1..n) = n
    <3>1. 1 \in Int /\ n \in Int /\ n >= 0
      BY <1>1
    <3>2. IsFiniteSet(1..n) /\ Cardinality(1..n) = IF 1 > n THEN 0 ELSE n - 1 + 1
      BY <3>1, FS_Interval
    <3> QED
      BY <3>1, <3>2
  <2>2. IsFiniteSet({a}) /\ Cardinality({a}) = 1
    BY FS_Singleton
  <2>3. IsFiniteSet(mine(n)) /\ Cardinality(mine(n)) = 1 * n
    BY <2>1, <2>2, FS_Product
  <2> QED
    BY <2>3
<1>6. ASSUME NEW d \in [Asks -> 0..Allowance], \A b \in Asks : b # a => d[b] = c[b]
      PROVE  /\ IsFiniteSet(Tokens(d))
             /\ Cardinality(Tokens(d)) = Cardinality(rest) + d[a]
  <2>1. Tokens(d) = rest \union mine(d[a])
    <3>1. ASSUME NEW t \in all
          PROVE  t \in Tokens(d) <=> t \in rest \/ t \in mine(d[a])
      <4>1. t = <<t[1], t[2]>> /\ t[1] \in Asks /\ t[2] \in 1..Allowance
        OBVIOUS
      <4>2. CASE t[1] = a
        BY <1>1, <4>1, <4>2 DEF Tokens
      <4>3. CASE t[1] # a
        BY <1>6, <4>1, <4>3 DEF Tokens
      <4> QED
        BY <4>2, <4>3
    <3>2. Tokens(d) \subseteq all /\ rest \subseteq all /\ mine(d[a]) \subseteq all
      BY <1>1 DEF Tokens
    <3> QED
      BY <3>1, <3>2
  <2>2. rest \intersect mine(d[a]) = {}
    OBVIOUS
  <2>3. IsFiniteSet(mine(d[a])) /\ Cardinality(mine(d[a])) = d[a]
    BY <1>5
  <2> HIDE DEF rest, mine
  <2>4. /\ IsFiniteSet(rest \union mine(d[a]))
        /\ Cardinality(rest \union mine(d[a])) = Cardinality(rest) + d[a] - Cardinality({})
    BY <1>4, <2>2, <2>3, FS_Union
  <2> QED
    BY <1>4, <2>1, <2>4, FS_EmptySet
<1>7. moved \in [Asks -> 0..Allowance] /\ moved[a] = k /\ \A b \in Asks : b # a => moved[b] = c[b]
  OBVIOUS
<1>8. Cardinality(Tokens(moved)) = Cardinality(rest) + k
  BY <1>6, <1>7
<1>9. IsFiniteSet(Tokens(c)) /\ Cardinality(Tokens(c)) = Cardinality(rest) + c[a]
  BY <1>6
<1>10. c[a] \in Nat /\ k \in Nat
  BY <1>1
<1> HIDE DEF rest, moved
<1> QED
  BY <1>4, <1>8, <1>9, <1>10 DEF moved

\* A request moves on, and the ledger with it.
LEMMA AskMoves ==
  ASSUME VoiceInv, NEW a \in Asks, NEW r \in AskRecords, asks' = [asks EXCEPT ![a] = r],
         AskIsPaid(r), spent' = spent - asks[a].charges + r.charges, spent' <= Allowance,
         bank' \in [Engines -> Takes \union {NoTake}]
  PROVE  VoiceInv'
<1>1. Held \in [Asks -> 0..Allowance] /\ r.charges \in 0..Allowance
  BY DEF VoiceInv, VoiceShape, AskRecords, Held
<1>2. Held' = [Held EXCEPT ![a] = r.charges] /\ Held[a] = asks[a].charges
  BY DEF VoiceInv, VoiceShape, Held
<1>3. spent = Cardinality(Tokens(Held))
  BY DEF VoiceInv
<1>4. /\ Cardinality(Tokens(Held)) \in Nat /\ Held[a] <= Cardinality(Tokens(Held))
      /\ Cardinality(Tokens([Held EXCEPT ![a] = r.charges])) =
            Cardinality(Tokens(Held)) - Held[a] + r.charges
  BY <1>1, TokensMove
<1>5. spent' = Cardinality(Tokens(Held'))
  BY <1>2, <1>3, <1>4
<1>6. spent' \in 0..Allowance
  <2>1. Allowance \in Nat
    BY VoiceAssumption
  <2> QED
    BY <1>1, <1>2, <1>3, <1>4, <2>1
<1>7. asks' \in [Asks -> AskRecords]
  BY DEF VoiceInv, VoiceShape
<1>8. \A b \in Asks : AskIsPaid(asks'[b])
  BY DEF VoiceInv, VoiceShape
<1>9. (spent = Cardinality(Tokens(Held)))'
  BY <1>5 DEF Tokens
<1> QED
  BY <1>6, <1>7, <1>8, <1>9 DEF VoiceInv, VoiceShape, AskIsPaid, Paid, Open

\* What the invariant says of one request, and of the ledger it is paid from.
LEMMA AskIs ==
  ASSUME VoiceInv, NEW a \in Asks
  PROVE  /\ asks[a] \in AskRecords /\ AskIsPaid(asks[a])
         /\ spent \in 0..Allowance /\ asks[a].charges \in 0..Allowance
         /\ asks[a].charges <= spent /\ Allowance \in Nat \ {0}
         /\ bank \in [Engines -> Takes \union {NoTake}]
<1>1. /\ asks[a] \in AskRecords /\ AskIsPaid(asks[a]) /\ spent \in 0..Allowance
      /\ bank \in [Engines -> Takes \union {NoTake}]
  BY DEF VoiceInv, VoiceShape
<1>2. asks[a].charges \in 0..Allowance /\ Allowance \in Nat \ {0}
  BY <1>1, VoiceAssumption DEF AskRecords
<1>3. Held \in [Asks -> 0..Allowance] /\ Held[a] = asks[a].charges
  BY DEF VoiceInv, VoiceShape, AskRecords, Held
<1>4. Held[a] <= Cardinality(Tokens(Held))
  BY <1>2, <1>3, TokensMove
<1> QED
  BY <1>1, <1>2, <1>3, <1>4 DEF VoiceInv

\* A request that has reached no engine pays for none of them.
LEMMA NoCallIsFree ==
  ASSUME NEW r, \A e \in Engines : r.call[e] = "none"
  PROVE  Paid(r) = {} /\ Cardinality(Paid(r)) = 0
<1>1. Paid(r) = {}
  BY DEF Paid, Open
<1> QED
  BY <1>1, FS_EmptySet

\* The charge of the route.
LEMMA AskedKeeps ==
  ASSUME VoiceInv, NEW a \in Asks, NEW kind \in Kinds, NEW take \in Takes,
         Asked(a, kind, take)
  PROVE  VoiceInv'
<1> DEFINE read == [Idle EXCEPT !.kind = kind, !.stage = "reading", !.take = take, !.charges = 1]
           refused == [Idle EXCEPT !.kind = kind, !.stage = "answered"]
<1>1. /\ asks[a] \in AskRecords /\ AskIsPaid(asks[a]) /\ asks[a].stage = "none"
      /\ spent \in 0..Allowance /\ Allowance \in Nat \ {0}
      /\ bank' \in [Engines -> Takes \union {NoTake}]
  BY AskIs DEF Asked
<1>2. asks[a].charges = 0
  BY <1>1 DEF AskIsPaid
<1>3. CASE spent < Allowance
  <2>1. read \in AskRecords /\ read.charges = 1
    <3>1. 1 \in 0..Allowance /\ NoCall \in [Engines -> CallStates]
      BY <1>1 DEF NoCall, CallStates
    <3> QED
      BY <3>1 DEF AskRecords, Idle, Stages
  <2>2. AskIsPaid(read)
    BY DEF AskIsPaid, Idle, NoCall
  <2>3. spent' = spent + 1 /\ asks' = [asks EXCEPT ![a] = read]
    BY <1>3 DEF Asked
  <2> HIDE DEF read
  <2>4. spent' = spent - asks[a].charges + read.charges /\ spent' <= Allowance
    BY <1>1, <1>2, <1>3, <2>1, <2>3
  <2> QED
    BY <1>1, <2>1, <2>2, <2>3, <2>4, AskMoves
<1>4. CASE ~(spent < Allowance)
  <2>1. refused \in AskRecords /\ refused.charges = 0
    <3>1. 0 \in 0..Allowance /\ NoCall \in [Engines -> CallStates]
      BY <1>1 DEF NoCall, CallStates
    <3> QED
      BY <3>1 DEF AskRecords, Idle, Stages
  <2>2. AskIsPaid(refused)
    <3>1. \A e \in Engines : refused.call[e] = "none"
      BY DEF Idle, NoCall
    <3>2. Cardinality(Paid(refused)) = 0
      BY <3>1, NoCallIsFree
    <3>3. refused.stage = "answered" /\ refused.charges = 0
      BY DEF Idle
    <3> QED
      BY <3>1, <3>2, <3>3 DEF AskIsPaid
  <2>3. spent' = spent /\ asks' = [asks EXCEPT ![a] = refused]
    BY <1>4 DEF Asked
  <2> HIDE DEF refused
  <2>4. spent' = spent - asks[a].charges + refused.charges /\ spent' <= Allowance
    BY <1>1, <1>2, <2>1, <2>3
  <2> QED
    BY <1>1, <2>1, <2>2, <2>3, <2>4, AskMoves
<1> QED
  BY <1>3, <1>4

\* A request is answered, with all of its charges given back.
LEMMA RefundKeeps ==
  ASSUME VoiceInv, NEW a \in Asks, asks[a].stage = "reading", Refund(a)
  PROVE  VoiceInv'
<1> DEFINE r == [asks[a] EXCEPT !.stage = "answered", !.charges = 0]
<1>1. /\ asks[a] \in AskRecords /\ AskIsPaid(asks[a]) /\ spent \in 0..Allowance
      /\ asks[a].charges \in 0..Allowance /\ asks[a].charges <= spent
      /\ Allowance \in Nat \ {0} /\ bank' \in [Engines -> Takes \union {NoTake}]
  BY AskIs DEF Refund
<1>2. r \in AskRecords /\ r.charges = 0 /\ r.stage = "answered" /\ r.call = asks[a].call
  <2>1. 0 \in 0..Allowance
    BY <1>1
  <2> QED
    BY <1>1, <2>1 DEF AskRecords, Stages
<1>3. \A e \in Engines : r.call[e] = "none"
  BY <1>1, <1>2 DEF AskIsPaid
<1>4. asks' = [asks EXCEPT ![a] = r] /\ spent' = spent - asks[a].charges
  BY <1>1 DEF Refund
<1> HIDE DEF r
<1>5. AskIsPaid(r)
  BY <1>2, <1>3, NoCallIsFree DEF AskIsPaid
<1>6. spent' = spent - asks[a].charges + r.charges /\ spent' <= Allowance
  BY <1>1, <1>2, <1>4
<1> QED
  BY <1>1, <1>2, <1>4, <1>5, <1>6, AskMoves

\* A request that keeps its charges while it goes on to another stage, or one of its
\* calls does, still pays for the same engines.
LEMMA StaysPaid ==
  ASSUME VoiceInv, NEW a \in Asks, NEW r \in AskRecords, asks' = [asks EXCEPT ![a] = r],
         AskIsPaid(r), r.charges = asks[a].charges, spent' = spent,
         bank' \in [Engines -> Takes \union {NoTake}]
  PROVE  VoiceInv'
<1>1. /\ spent \in 0..Allowance /\ asks[a].charges \in 0..Allowance /\ Allowance \in Nat \ {0}
  BY AskIs
<1>2. spent' = spent - asks[a].charges + r.charges /\ spent' <= Allowance
  BY <1>1
<1> QED
  BY <1>2, AskMoves

\* A refusal that is not free.
LEMMA MisdirectedKeeps ==
  ASSUME VoiceInv, NEW a \in Asks, Misdirected(a)
  PROVE  VoiceInv'
<1> DEFINE r == [asks[a] EXCEPT !.stage = "misdirected"]
<1>1. /\ asks[a] \in AskRecords /\ AskIsPaid(asks[a])
      /\ bank' \in [Engines -> Takes \union {NoTake}] /\ asks[a].stage = "reading"
  BY AskIs DEF Misdirected
<1>2. /\ r \in AskRecords /\ r.charges = asks[a].charges /\ r.stage = "misdirected"
      /\ r.call = asks[a].call
  BY <1>1 DEF AskRecords, Stages
<1>3. asks' = [asks EXCEPT ![a] = r] /\ spent' = spent
  BY <1>1 DEF Misdirected
<1> HIDE DEF r
<1>4. AskIsPaid(r)
  BY <1>1, <1>2 DEF AskIsPaid
<1> QED
  BY <1>1, <1>2, <1>3, <1>4, StaysPaid

\* Every result is in.
LEMMA ResultsKeeps ==
  ASSUME VoiceInv, NEW a \in Asks, Results(a)
  PROVE  VoiceInv'
<1> DEFINE r == [asks[a] EXCEPT !.stage = "answered"]
<1>1. /\ asks[a] \in AskRecords /\ AskIsPaid(asks[a])
      /\ bank' \in [Engines -> Takes \union {NoTake}] /\ asks[a].stage = "calling"
  BY AskIs DEF Results
<1>2. /\ r \in AskRecords /\ r.charges = asks[a].charges /\ r.stage = "answered"
      /\ r.call = asks[a].call
  BY <1>1 DEF AskRecords, Stages
<1>3. asks' = [asks EXCEPT ![a] = r] /\ spent' = spent
  BY <1>1 DEF Results
<1> HIDE DEF r
<1>4. Paid(r) = Paid(asks[a])
  BY <1>2 DEF Paid
<1>5. AskIsPaid(r)
  BY <1>1, <1>2, <1>4 DEF AskIsPaid
<1> QED
  BY <1>1, <1>2, <1>3, <1>5, StaysPaid

\* The calls of a request, which has paid for one engine and pays for the others now.
LEMMA CallsKeeps ==
  ASSUME VoiceInv, NEW a \in Asks, NEW targets \in SUBSET Engines, Calls(a, targets)
  PROVE  VoiceInv'
<1> DEFINE more == Cardinality(targets) - 1
           call == [e \in Engines |-> IF e \in targets THEN "out" ELSE "none"]
           r == [asks[a] EXCEPT !.stage = "calling", !.charges = @ + more, !.call = call]
<1>1. /\ asks[a] \in AskRecords /\ AskIsPaid(asks[a]) /\ spent \in 0..Allowance
      /\ Allowance \in Nat \ {0} /\ bank \in [Engines -> Takes \union {NoTake}]
      /\ asks[a].charges <= spent /\ asks[a].stage = "reading" /\ targets # {}
  BY AskIs DEF Calls
<1>2. asks[a].charges = 1
  BY <1>1 DEF AskIsPaid
<1>3. more \in Nat /\ Cardinality(targets) = 1 + more
  <2>1. IsFiniteSet(targets)
    BY VoiceAssumption, FS_Subset
  <2>2. Cardinality(targets) \in Nat /\ Cardinality(targets) # 0
    BY <1>1, <2>1, FS_CardinalityType, FS_EmptySet
  <2> QED
    BY <2>2
<1>4. CASE spent + more > Allowance
  BY <1>1, <1>4, RefundKeeps DEF Calls
<1>5. CASE ~(spent + more > Allowance)
  <2>1. /\ spent' = spent + more /\ bank' = bank
        /\ asks' = [asks EXCEPT ![a].stage = "calling", ![a].charges = @ + more, ![a].call = call]
    BY <1>5 DEF Calls
  <2>2. call \in [Engines -> CallStates]
    BY DEF CallStates
  <2> HIDE DEF call, more
  <2>3. r.charges = 1 + more /\ r.charges \in 0..Allowance
    BY <1>1, <1>2, <1>3, <1>5 DEF AskRecords
  <2>4. r \in AskRecords /\ r.stage = "calling" /\ r.call = call
    BY <1>1, <2>2, <2>3 DEF AskRecords, Stages
  <2>5. asks' = [asks EXCEPT ![a] = r]
    BY <1>1, <2>1 DEF AskRecords
  <2> HIDE DEF r
  <2>6. Paid(r) = targets
    BY <2>4 DEF Paid, Open, call
  <2>7. AskIsPaid(r)
    <3>1. Cardinality(Paid(r)) = 1 + more
      BY <2>6, <1>3 DEF more
    <3> QED
      BY <2>3, <2>4, <3>1 DEF AskIsPaid
  <2>8. spent' = spent - asks[a].charges + r.charges /\ spent' <= Allowance
    BY <1>1, <1>2, <1>3, <1>5, <2>1, <2>3
  <2> QED
    BY <1>1, <2>1, <2>4, <2>5, <2>7, <2>8, AskMoves
<1> QED
  BY <1>4, <1>5

\* A call that has been made goes on, and is paid for as before.
LEMMA CallGoes ==
  ASSUME VoiceInv, NEW a \in Asks, NEW e \in Engines, NEW x \in {"taken", "refused", "heard"},
         Open(asks[a].call[e]), asks' = [asks EXCEPT ![a].call[e] = x], spent' = spent,
         bank' \in [Engines -> Takes \union {NoTake}]
  PROVE  VoiceInv'
<1> DEFINE r == [asks[a] EXCEPT !.call[e] = x]
<1>1. asks[a] \in AskRecords /\ AskIsPaid(asks[a])
  BY AskIs
<1>2. /\ r \in AskRecords /\ r.charges = asks[a].charges /\ r.stage = asks[a].stage
      /\ r.call = [asks[a].call EXCEPT ![e] = x]
  BY <1>1 DEF AskRecords, CallStates
<1>3. asks' = [asks EXCEPT ![a] = r]
  BY <1>1 DEF AskRecords
<1> HIDE DEF r
<1>4. Paid(r) = Paid(asks[a])
  BY <1>1, <1>2 DEF Paid, Open, AskRecords
<1>5. asks[a].stage \in {"calling", "answered"}
  BY <1>1 DEF AskIsPaid, Open, AskRecords, Stages
<1>6. AskIsPaid(r)
  BY <1>1, <1>2, <1>4, <1>5 DEF AskIsPaid
<1> QED
  BY <1>2, <1>3, <1>6, StaysPaid

\* A call that failed is given back, and it alone.
LEMMA UnreachableKeeps ==
  ASSUME VoiceInv, NEW a \in Asks, NEW e \in Engines, Unreachable(a, e)
  PROVE  VoiceInv'
<1> DEFINE r == [asks[a] EXCEPT !.call[e] = "lost", !.charges = @ - 1]
<1>1. /\ asks[a] \in AskRecords /\ AskIsPaid(asks[a]) /\ spent \in 0..Allowance
      /\ Allowance \in Nat \ {0} /\ asks[a].charges \in 0..Allowance
      /\ bank' \in [Engines -> Takes \union {NoTake}]
  BY AskIs DEF Unreachable
<1>2. /\ Open(asks[a].call[e]) /\ asks[a].charges > 0 /\ spent' = spent - 1
      /\ asks' = [asks EXCEPT ![a].call[e] = "lost", ![a].charges = @ - 1]
  BY DEF Unreachable, refundOne
<1>3. asks[a].charges - 1 \in 0..Allowance
  BY <1>1, <1>2
<1>4. /\ r \in AskRecords /\ r.charges = asks[a].charges - 1 /\ r.stage = asks[a].stage
      /\ r.call = [asks[a].call EXCEPT ![e] = "lost"]
  BY <1>1, <1>3 DEF AskRecords, CallStates
<1>5. asks' = [asks EXCEPT ![a] = r]
  BY <1>1, <1>2 DEF AskRecords
<1> HIDE DEF r
<1>6. Paid(r) = Paid(asks[a]) \ {e} /\ e \in Paid(asks[a])
  BY <1>1, <1>2, <1>4 DEF Paid, Open, AskRecords
<1>7. asks[a].stage \in {"calling", "answered"}
  BY <1>1, <1>2 DEF AskIsPaid, Open, AskRecords, Stages
<1>8. asks[a].charges = Cardinality(Paid(asks[a]))
  BY <1>1, <1>7 DEF AskIsPaid
<1>9. IsFiniteSet(Paid(asks[a]))
  <2>1. Paid(asks[a]) \in SUBSET Engines
    BY DEF Paid
  <2> QED
    BY <2>1, VoiceAssumption, FS_Subset
<1>10. Cardinality(Paid(r)) = Cardinality(Paid(asks[a])) - 1
  BY <1>6, <1>9, FS_RemoveElement
<1>11. AskIsPaid(r)
  BY <1>4, <1>7, <1>8, <1>10 DEF AskIsPaid
<1>12. spent' = spent - asks[a].charges + r.charges /\ spent' <= Allowance
  BY <1>1, <1>2, <1>4
<1> QED
  BY <1>1, <1>4, <1>5, <1>11, <1>12, AskMoves

\* The invariant of the bank: the ledger holds exactly the charges of the requests, and a
\* request those of the engines that answered it or may still answer.
THEOREM VoiceInvariant == VoiceSpec => []VoiceInv
<1>1. ASSUME VoiceInit PROVE VoiceInv
  <2>1. /\ spent = 0 /\ asks = [a \in Asks |-> Idle] /\ bank = [e \in Engines |-> NoTake]
        /\ Allowance \in Nat \ {0}
    BY <1>1, VoiceAssumption DEF VoiceInit
  <2>2. Idle \in AskRecords
    <3>1. 0 \in 0..Allowance /\ NoCall \in [Engines -> CallStates]
      BY <2>1 DEF NoCall, CallStates
    <3> QED
      BY <3>1 DEF AskRecords, Idle, Stages
  <2>3. VoiceShape
    BY <2>1, <2>2 DEF VoiceShape
  <2>4. Tokens(Held) = {}
    <3>1. \A t \in Asks \X (1..Allowance) : ~(t[2] <= Held[t[1]])
      BY <2>1 DEF Held, Idle
    <3> QED
      BY <3>1 DEF Tokens
  <2>5. \A a \in Asks : AskIsPaid(asks[a])
    BY <2>1 DEF AskIsPaid, Idle, NoCall
  <2> QED
    BY <2>1, <2>3, <2>4, <2>5, FS_EmptySet DEF VoiceInv
<1>2. ASSUME VoiceInv, [VoiceNext]_voiceVars PROVE VoiceInv'
  <2>1. ASSUME UNCHANGED voiceVars PROVE VoiceInv'
    BY <1>2, <2>1 DEF voiceVars, VoiceInv, VoiceShape, AskIsPaid, Paid, Open, Tokens, Held
  <2>2. ASSUME NEW e \in Engines, Deletes(e) PROVE VoiceInv'
    BY <1>2, <2>2 DEF Deletes, VoiceInv, VoiceShape, AskIsPaid, Paid, Open, Tokens, Held
  <2>3. ASSUME NEW a \in Asks, TurnedAway(a) PROVE VoiceInv'
    BY <1>2, <2>3, RefundKeeps DEF TurnedAway
  <2>4. ASSUME NEW a \in Asks, NEW take \in Takes,
               Registers(a, take) \/ Designs(a, take) \/ Promotes(a, take) \/ Speaks(a, take)
        PROVE  VoiceInv'
    BY <1>2, <2>4, AskedKeeps DEF Registers, Designs, Promotes, Speaks, Kinds
  <2>5. ASSUME NEW a \in Asks, NEW e \in Engines, EngineTakes(a, e) PROVE VoiceInv'
    <3>1. /\ Open(asks[a].call[e]) /\ asks' = [asks EXCEPT ![a].call[e] = "taken"]
          /\ spent' = spent
      BY <2>5 DEF EngineTakes, Open
    <3>2. bank' \in [Engines -> Takes \union {NoTake}]
      BY <1>2, <2>5, AskIs DEF EngineTakes, AskRecords
    <3> QED
      BY <1>2, <3>1, <3>2, CallGoes
  <2>6. ASSUME NEW a \in Asks, NEW e \in Engines, EngineRefuses(a, e) \/ Heard(a, e)
        PROVE  VoiceInv'
    <3>1. /\ Open(asks[a].call[e]) /\ spent' = spent /\ bank' = bank
          /\ \E x \in {"taken", "refused", "heard"} : asks' = [asks EXCEPT ![a].call[e] = x]
      BY <2>6 DEF EngineRefuses, Heard, Open
    <3>2. bank' \in [Engines -> Takes \union {NoTake}]
      BY <1>2, <3>1, AskIs
    <3> QED
      BY <1>2, <3>1, <3>2, CallGoes
  <2> QED
    BY <1>2, <2>1, <2>2, <2>3, <2>4, <2>5, <2>6, MisdirectedKeeps, ResultsKeeps, CallsKeeps,
       UnreachableKeeps DEF VoiceNext, Lists
<1> QED
  BY <1>1, <1>2, PTL DEF VoiceSpec

\* What is paid is what was done (server.ts:1196-1244), for any requests, engines and
\* allowance: no charge is kept for an engine that was not reached, none is given back
\* twice, and a request that cannot pay for all of its engines reaches none.
THEOREM PaidStaysDone == VoiceSpec => []PaidIsDone
<1>1. ASSUME VoiceInv PROVE PaidIsDone
  <2>1. Charges = Tokens(Held)
    BY DEF Charges, Tokens, Held
  <2>2. spent = Cardinality(Charges)
    BY <1>1, <2>1 DEF VoiceInv
  <2>3. spent <= Allowance
    BY <1>1, VoiceAssumption DEF VoiceInv, VoiceShape
  <2>4. ASSUME NEW a \in Asks
        PROVE  /\ asks[a].stage \in {"calling", "answered"} =>
                     asks[a].charges = Cardinality({e \in Engines : Open(asks[a].call[e]) \/ asks[a].call[e] = "heard"})
               /\ asks[a].stage \in {"reading", "misdirected"} =>
                     asks[a].charges = 1 /\ Called(a) = {}
    BY <1>1, <2>4 DEF VoiceInv, AskIsPaid, Paid, Called
  <2> QED
    BY <2>2, <2>3, <2>4 DEF PaidIsDone
<1> QED
  BY <1>1, VoiceInvariant, PTL

-----------------------------------------------------------------------------
(* The engines: the voices' pipeline.                                      *)

EngineSpec == EngineInit /\ [][SpeechNext \/ DeskNext]_engineVars

Ats == {"none", "waiting", "prewarms", "in", "warming", "named", "ready", "speaking", "stored"}
RequestRecords == [kind : EngineKinds \union {"none"}, at : Ats, voice : Voices \union {None},
                   take : Wavs \union {None}, id : Continuations \union {None},
                   anchor : Wavs \union Requests \union {None}, key : Wavs \union {None},
                   raced : BOOLEAN]
Conts == [id : Continuations, base : Wavs \union Requests \union {None},
          heard : SUBSET (Wavs \union Requests \union {None})]
CacheRecords == [id : Wavs, of : Wavs, raced : BOOLEAN]
Snapshots == [key : Wavs \union {None}, of : Wavs \union {None}, raced : BOOLEAN]

\* An entry of a store is found by its id, which no other entry has.
Unique(seq) == \A i, j \in DOMAIN seq : seq[i].id = seq[j].id => i = j

\* Everything in a store was in the other.
From(new, old) == \A i \in DOMAIN new : \E j \in DOMAIN old : new[i] = old[j]

\* What is left of a store without an entry.
LEMMA WithoutIs ==
  ASSUME NEW S, NEW seq \in Seq(S), Unique(seq), NEW id
  PROVE  /\ Without(seq, id) \in Seq(S) /\ Unique(Without(seq, id))
         /\ From(Without(seq, id), seq)
         /\ \A i \in DOMAIN Without(seq, id) : Without(seq, id)[i].id # id
         /\ Len(Without(seq, id)) = IF Has(seq, id) THEN Len(seq) - 1 ELSE Len(seq)
<1>1. Has(seq, id) <=> \E i \in DOMAIN seq : seq[i].id = id
  BY DEF Has, Range
<1>2. CASE ~Has(seq, id)
  BY <1>1, <1>2 DEF Without, From
<1>3. CASE Has(seq, id)
  <2> DEFINE k == CHOOSE i \in DOMAIN seq : seq[i].id = id
             new == RemoveAt(seq, k)
  <2>1. k \in DOMAIN seq /\ seq[k].id = id
    BY <1>1, <1>3
  <2> HIDE DEF k
  <2>2. /\ new \in Seq(S) /\ Len(new) = Len(seq) - 1
        /\ \A i \in 1..(Len(seq) - 1) : new[i] = IF i < k THEN seq[i] ELSE seq[i + 1]
    <3> DEFINE l == SubSeq(seq, 1, k - 1)
               m == SubSeq(seq, k + 1, Len(seq))
    <3>1. Len(seq) \in Nat /\ k \in 1..Len(seq)
      BY <2>1
    <3>2. l \in Seq(S) /\ Len(l) = k - 1 /\ \A i \in 1..(k - 1) : l[i] = seq[i]
      BY <3>1
    <3>3. /\ m \in Seq(S) /\ Len(m) = Len(seq) - k
          /\ \A i \in 1..(Len(seq) - k) : m[i] = seq[k + i]
      BY <3>1
    <3>4. new = l \o m
      BY DEF RemoveAt
    <3> HIDE DEF l, m, new
    <3>5. new \in Seq(S) /\ Len(new) = Len(seq) - 1
      BY <3>1, <3>2, <3>3, <3>4
    <3>6. ASSUME NEW i \in 1..(Len(seq) - 1)
          PROVE  new[i] = IF i < k THEN seq[i] ELSE seq[i + 1]
      <4>1. new[i] = IF i <= Len(l) THEN l[i] ELSE m[i - Len(l)]
        BY <3>1, <3>2, <3>3, <3>4
      <4>2. CASE i < k
        BY <3>1, <3>2, <4>1, <4>2
      <4>3. CASE ~(i < k)
        <5>1. i - Len(l) \in 1..(Len(seq) - k) /\ k + (i - Len(l)) = i + 1
          BY <3>1, <3>2, <4>3
        <5> QED
          BY <3>1, <3>2, <3>3, <4>1, <4>3, <5>1
      <4> QED
        BY <4>2, <4>3
    <3> QED
      BY <3>5, <3>6
  <2>3. Without(seq, id) = new
    BY <1>3 DEF Without, k
  <2> HIDE DEF new
  <2>4. DOMAIN new = 1..(Len(seq) - 1)
    BY <2>2
  <2>5. \A i \in DOMAIN new : /\ (IF i < k THEN i ELSE i + 1) \in DOMAIN seq
                              /\ new[i] = seq[IF i < k THEN i ELSE i + 1]
                              /\ (IF i < k THEN i ELSE i + 1) # k
    BY <2>1, <2>2, <2>4
  <2>6. From(new, seq)
    BY <2>5 DEF From
  <2>7. \A i \in DOMAIN new : new[i].id # id
    BY <2>1, <2>5 DEF Unique
  <2>8. Unique(new)
    <3> SUFFICES ASSUME NEW i \in DOMAIN new, NEW j \in DOMAIN new, new[i].id = new[j].id
                 PROVE  i = j
      BY DEF Unique
    <3>1. (IF i < k THEN i ELSE i + 1) = (IF j < k THEN j ELSE j + 1)
      BY <2>5 DEF Unique
    <3>2. i \in Int /\ j \in Int /\ k \in Int
      BY <2>1, <2>4
    <3> QED
      BY <3>1, <3>2
  <2> QED
    BY <1>3, <2>2, <2>3, <2>6, <2>7, <2>8
<1> QED
  BY <1>2, <1>3

\* What a store is once an entry was put at its end.
LEMMA AppendedIs ==
  ASSUME NEW S, NEW seq \in Seq(S), Unique(seq), NEW entry \in S,
         \A i \in DOMAIN seq : seq[i].id # entry.id
  PROVE  /\ Append(seq, entry) \in Seq(S) /\ Unique(Append(seq, entry))
         /\ \A i \in DOMAIN Append(seq, entry) :
               Append(seq, entry)[i] = entry \/ \E j \in DOMAIN seq : Append(seq, entry)[i] = seq[j]
         /\ Len(Append(seq, entry)) = Len(seq) + 1
<1> DEFINE new == Append(seq, entry)
<1>1. /\ new \in Seq(S) /\ Len(new) = Len(seq) + 1 /\ new[Len(seq) + 1] = entry
      /\ \A i \in DOMAIN seq : new[i] = seq[i]
  OBVIOUS
<1>2. \A i \in DOMAIN new : i \in DOMAIN seq \/ i = Len(seq) + 1
  BY <1>1
<1> HIDE DEF new
<1>3. Unique(new)
  BY <1>1, <1>2 DEF Unique
<1> QED
  BY <1>1, <1>2, <1>3 DEF new

\* A new entry takes the place of the one with its id, or else of the oldest where the
\* store is full.
LEMMA StoredIs ==
  ASSUME NEW S, NEW seq \in Seq(S), Unique(seq), NEW entry \in S, NEW capacity \in Nat \ {0},
         Len(seq) <= capacity
  PROVE  /\ Stored(seq, entry, capacity) \in Seq(S) /\ Unique(Stored(seq, entry, capacity))
         /\ \A i \in DOMAIN Stored(seq, entry, capacity) :
               \/ Stored(seq, entry, capacity)[i] = entry
               \/ \E j \in DOMAIN seq : Stored(seq, entry, capacity)[i] = seq[j]
         /\ Len(Stored(seq, entry, capacity)) <= capacity
<1>1. CASE Has(seq, entry.id) \/ Len(seq) < capacity
  <2> DEFINE less == Without(seq, entry.id)
  <2>1. /\ less \in Seq(S) /\ Unique(less) /\ From(less, seq)
        /\ \A i \in DOMAIN less : less[i].id # entry.id
        /\ Len(less) = IF Has(seq, entry.id) THEN Len(seq) - 1 ELSE Len(seq)
    BY WithoutIs
  <2>2. Stored(seq, entry, capacity) = Append(less, entry)
    BY <1>1 DEF Stored
  <2> HIDE DEF less
  <2>3. Len(less) + 1 <= capacity
    BY <1>1, <2>1
  <2> QED
    BY <2>1, <2>2, <2>3, AppendedIs DEF From
<1>2. CASE ~(Has(seq, entry.id) \/ Len(seq) < capacity)
  <2> DEFINE less == Tail(seq)
  <2>1. Len(seq) = capacity
    BY <1>2
  <2>2. /\ less \in Seq(S) /\ Len(less) = Len(seq) - 1
        /\ \A i \in DOMAIN less : i + 1 \in DOMAIN seq /\ less[i] = seq[i + 1]
    BY <2>1
  <2>3. \A i \in DOMAIN seq : seq[i].id # entry.id
    BY <1>2 DEF Has, Range
  <2>4. Stored(seq, entry, capacity) = Append(less, entry)
    BY <1>2 DEF Stored
  <2> HIDE DEF less
  <2>5. \A i \in DOMAIN less : i \in Int
    BY <2>2
  <2>6. Unique(less)
    BY <2>2, <2>5 DEF Unique
  <2>7. \A i \in DOMAIN less : less[i].id # entry.id
    BY <2>2, <2>3
  <2>8. /\ Append(less, entry) \in Seq(S) /\ Unique(Append(less, entry))
        /\ \A i \in DOMAIN Append(less, entry) :
              Append(less, entry)[i] = entry \/ \E j \in DOMAIN less : Append(less, entry)[i] = less[j]
        /\ Len(Append(less, entry)) = Len(less) + 1
    BY <2>2, <2>6, <2>7, AppendedIs
  <2> QED
    BY <2>1, <2>2, <2>4, <2>8
<1> QED
  BY <1>1, <1>2

\* What prune() leaves are the latest.
LEMMA PrunedIs ==
  ASSUME NEW S, conts \in Seq(S), Unique(conts), NEW new \in Pruned
  PROVE  new \in Seq(S) /\ Unique(new) /\ From(new, conts) /\ Len(new) <= Len(conts)
<1>1. PICK n \in 1..(Len(conts) + 1) : new = SubSeq(conts, n, Len(conts))
  BY DEF Pruned
<1>2. /\ new \in Seq(S) /\ Len(new) = Len(conts) - n + 1
      /\ \A i \in DOMAIN new : i \in Int /\ n + i - 1 \in DOMAIN conts /\ new[i] = conts[n + i - 1]
  BY <1>1
<1>3. n \in Int /\ Len(conts) \in Int
  BY <1>1
<1>4. Unique(new)
  BY <1>2, <1>3 DEF Unique
<1> QED
  BY <1>1, <1>2, <1>3, <1>4 DEF From

\* What is found by an id is in the store, and has it.
LEMMA EntryOfIs ==
  ASSUME NEW S, NEW seq \in Seq(S), NEW id, Has(seq, id)
  PROVE  \E j \in DOMAIN seq : EntryOf(seq, id) = seq[j] /\ seq[j].id = id
<1>1. \E e \in Range(seq) : e.id = id
  BY DEF Has
<1>2. EntryOf(seq, id) \in Range(seq) /\ EntryOf(seq, id).id = id
  BY <1>1 DEF EntryOf
<1> QED
  BY <1>2 DEF Range

\* A request is where its kind takes it; one that has named its voice has the content
\* that is there, unless a registration moved it since.
Sound(q) ==
    /\ q.kind = "register" => q.at \in {"stored", "prewarms", "warming", "named"}
    /\ q.kind \in {"register", "design"} => q.voice \in Voices /\ q.id = None
    /\ q.at \in {"prewarms", "warming", "stored"} => q.kind \in {"register", "design"}
    /\ q.at = "named" => q.voice \in Voices /\ q.key # None /\ (q.key = ref[q.voice] \/ q.raced)
    /\ q.at = "speaking" => q.id # None

\* What a session has kept is what the request that holds the pipeline conditions on.
Anchored(q) ==
    /\ q.at = "named" => \A i \in DOMAIN conts : conts[i].id # q.id
    /\ q.at \in {"ready", "speaking"} =>
          \A i \in DOMAIN conts : conts[i].id = q.id => conts[i].base = q.anchor

RequestPart ==
    /\ req \in [Requests -> RequestRecords] /\ lock \in Requests \union {None}
    /\ ref \in [Voices -> Wavs \union {None}] /\ meta \in [Voices -> Wavs \union {None}]
    /\ \A r \in Requests : lock = r <=> req[r].at \in Inside
    /\ \A r \in Requests : Sound(req[r])

ContinuationsTrue ==
    /\ conts \in Seq(Conts) /\ Unique(conts) /\ Len(conts) <= MaxContinuations
    /\ \A i \in DOMAIN conts : conts[i].heard = {conts[i].base}

CachePart ==
    /\ memory \in Seq(CacheRecords) /\ Unique(memory) /\ Len(memory) <= MaxCaches
    /\ \A i \in DOMAIN memory : memory[i].of = memory[i].id \/ memory[i].raced
    /\ disk \in [Voices -> Snapshots]
    /\ \A v \in Voices : /\ disk[v].of = disk[v].key \/ disk[v].raced
                         /\ disk[v].key # None => disk[v].of # None

PipelineInv ==
    /\ RequestPart /\ CachePart
    /\ ContinuationsTrue /\ \A r \in Requests : Anchored(req[r])

\* How the pipeline may change hands when a request goes from p to q.
Hands(r, p, q) ==
    \/ lock' = lock /\ (q.at \in Inside <=> p.at \in Inside)
    \/ lock = None /\ lock' = r /\ q.at \in Inside
    \/ p.at \in Inside /\ lock' = None /\ q.at \notin Inside

\* One request moves on, no voice's file changes.
LEMMA RequestMoves ==
  ASSUME RequestPart, NEW r \in Requests, NEW q \in RequestRecords,
         req' = [req EXCEPT ![r] = q], UNCHANGED ref,
         meta' \in [Voices -> Wavs \union {None}], Sound(q), Hands(r, req[r], q)
  PROVE  RequestPart'
<1>1. req' \in [Requests -> RequestRecords] /\ None \notin Requests
  BY EngineAssumption DEF RequestPart
<1>2. \A s \in Requests : req'[s] = IF s = r THEN q ELSE req[s]
  BY DEF RequestPart
<1>3. /\ lock' \in Requests \union {None}
      /\ \A s \in Requests : lock' = s <=> req'[s].at \in Inside
  BY <1>1, <1>2 DEF RequestPart, Hands
<1>4. \A s \in Requests : Sound(req[s])'
  BY <1>2 DEF RequestPart, Sound
<1> QED
  BY <1>1, <1>3, <1>4 DEF RequestPart

\* ... and if the stores do not either, all is as it should be.
LEMMA OnlyMoves ==
  ASSUME PipelineInv, NEW r \in Requests, NEW q \in RequestRecords,
         req' = [req EXCEPT ![r] = q], UNCHANGED <<ref, conts, memory, disk>>,
         meta' \in [Voices -> Wavs \union {None}], Sound(q), Anchored(q), Hands(r, req[r], q)
  PROVE  PipelineInv'
<1>1. RequestPart'
  BY RequestMoves DEF PipelineInv
<1>2. CachePart' /\ ContinuationsTrue'
  BY DEF PipelineInv, CachePart, ContinuationsTrue
<1>3. \A s \in Requests : req'[s] = IF s = r THEN q ELSE req[s]
  BY DEF PipelineInv, RequestPart
<1>4. \A s \in Requests : Anchored(req[s])'
  BY <1>3 DEF PipelineInv, Anchored
<1> QED
  BY <1>1, <1>2, <1>4 DEF PipelineInv

\* Who holds the pipeline is alone in it, and nobody is when it is free.
LEMMA OneInside ==
  ASSUME RequestPart
  PROVE  /\ \A r, s \in Requests : req[r].at \in Inside /\ req[s].at \in Inside => r = s
         /\ lock = None => \A r \in Requests : req[r].at \notin Inside
  BY EngineAssumption DEF RequestPart

\* The stores of a request that leaves the pipeline are kept by nobody's anchor.
LEMMA NobodyIsAnchored ==
  ASSUME RequestPart', lock' = None
  PROVE  \A s \in Requests : Anchored(req[s])'
<1>1. \A s \in Requests : req'[s].at \notin Inside
  BY EngineAssumption DEF RequestPart
<1> QED
  BY <1>1 DEF Anchored, Inside

\* What the invariant says of one request.
LEMMA RequestIs ==
  ASSUME PipelineInv, NEW r \in Requests
  PROVE  /\ req[r] \in RequestRecords /\ Sound(req[r]) /\ Anchored(req[r])
         /\ (lock = r <=> req[r].at \in Inside) /\ RequestPart
         /\ ref \in [Voices -> Wavs \union {None}] /\ meta \in [Voices -> Wavs \union {None}]
         /\ conts \in Seq(Conts) /\ Unique(conts)
  BY DEF PipelineInv, RequestPart, ContinuationsTrue

\* A thread that is free for another request.
LEMMA FreeIs == Free \in RequestRecords /\ Free.at = "none" /\ Free.kind = "none" /\ Sound(Free) /\ Anchored(Free)
  BY DEF Free, RequestRecords, Ats, Sound, Anchored

\* A request leaves the pipeline.
LEMMA QuitKeeps ==
  ASSUME PipelineInv, NEW r \in Requests, req[r].at \in Inside, Quits(r),
         UNCHANGED <<ref, meta, conts, memory, disk>>
  PROVE  PipelineInv'
<1>1. req' = [req EXCEPT ![r] = Free] /\ lock' = None
  BY DEF Quits, Over
<1>2. Hands(r, req[r], Free)
  BY <1>1 DEF Hands, Free, Inside
<1>3. meta' \in [Voices -> Wavs \union {None}]
  BY RequestIs
<1> QED
  BY <1>1, <1>2, <1>3, FreeIs, OnlyMoves

\* A request to speak.
LEMMA SpeechAskedKeeps ==
  ASSUME PipelineInv, NEW r \in Requests, NEW v \in Voices \union {None},
         NEW id \in Continuations \union {None}, SpeechAsked(r, v, id)
  PROVE  PipelineInv'
<1> DEFINE q == [Free EXCEPT !.kind = "speech", !.at = "waiting", !.voice = v, !.id = id]
<1>1. /\ req' = [req EXCEPT ![r] = q] /\ req[r].at = "none"
      /\ UNCHANGED <<ref, meta, lock, conts, memory, disk>>
  BY DEF SpeechAsked, files, stores
<1>2. q \in RequestRecords /\ q.at = "waiting" /\ q.kind = "speech"
  BY DEF Free, RequestRecords, Ats, EngineKinds
<1> HIDE DEF q
<1>3. Sound(q) /\ Anchored(q) /\ Hands(r, req[r], q)
  BY <1>1, <1>2 DEF Sound, Anchored, Hands, Inside
<1>4. meta' \in [Voices -> Wavs \union {None}]
  BY <1>1, RequestIs
<1> QED
  BY <1>1, <1>2, <1>3, <1>4, OnlyMoves

\* A design profile is asked for.
LEMMA DesignAskedKeeps ==
  ASSUME PipelineInv, NEW r \in Requests, NEW v \in Voices, DesignAsked(r, v)
  PROVE  PipelineInv'
<1> DEFINE q == [Free EXCEPT !.kind = "design", !.at = "waiting", !.voice = v]
<1>1. /\ req' = [req EXCEPT ![r] = q] /\ req[r].at = "none"
      /\ UNCHANGED <<ref, meta, lock, conts, memory, disk>>
  BY DEF DesignAsked, files, stores
<1>2. /\ q \in RequestRecords /\ q.at = "waiting" /\ q.kind = "design" /\ q.voice = v
      /\ q.id = None
  BY DEF Free, RequestRecords, Ats, EngineKinds
<1> HIDE DEF q
<1>3. Sound(q) /\ Anchored(q) /\ Hands(r, req[r], q)
  BY <1>1, <1>2 DEF Sound, Anchored, Hands, Inside
<1>4. meta' \in [Voices -> Wavs \union {None}]
  BY <1>1, RequestIs
<1> QED
  BY <1>1, <1>2, <1>3, <1>4, OnlyMoves

\* The pipeline was not free in time.
LEMMA TimesOutKeeps ==
  ASSUME PipelineInv, NEW r \in Requests, TimesOut(r)
  PROVE  PipelineInv'
<1>1. /\ req' = [req EXCEPT ![r] = Free] /\ req[r].at \in {"waiting", "prewarms"}
      /\ UNCHANGED <<ref, meta, lock, conts, memory, disk>>
  BY DEF TimesOut, Over, files, stores
<1>2. Hands(r, req[r], Free)
  BY <1>1 DEF Hands, Free, Inside
<1>3. meta' \in [Voices -> Wavs \union {None}]
  BY <1>1, RequestIs
<1> QED
  BY <1>1, <1>2, <1>3, FreeIs, OnlyMoves

\* The pipeline is free: its stores are pruned, while nobody conditions on them.
LEMMA AcquiresKeeps ==
  ASSUME PipelineInv, NEW r \in Requests, Acquires(r)
  PROVE  PipelineInv'
<1> DEFINE q == [req[r] EXCEPT !.at = IF req[r].at = "waiting" THEN "in" ELSE "warming"]
<1>1. /\ req[r] \in RequestRecords /\ Sound(req[r]) /\ RequestPart
      /\ conts \in Seq(Conts) /\ Unique(conts)
      /\ meta \in [Voices -> Wavs \union {None}]
  BY RequestIs
<1>2. /\ req[r].at \in {"waiting", "prewarms"} /\ lock = None /\ lock' = r
      /\ req' = [req EXCEPT ![r] = q]
      /\ UNCHANGED <<ref, meta, memory, disk>>
      /\ conts' \in Pruned \/ conts' = conts
  BY DEF Acquires, To, files
<1>3. /\ q \in RequestRecords /\ q.at \in {"in", "warming"} /\ q.kind = req[r].kind
      /\ q.voice = req[r].voice /\ q.id = req[r].id
      /\ q.at = "warming" => req[r].at = "prewarms"
      /\ q.at = "in" => req[r].at = "waiting"
  BY <1>1, <1>2 DEF RequestRecords, Ats
<1> HIDE DEF q
<1>4. Sound(q) /\ Hands(r, req[r], q)
  BY <1>1, <1>2, <1>3 DEF Sound, Hands, Inside
<1>5. RequestPart'
  BY <1>1, <1>2, <1>3, <1>4, RequestMoves
<1>6. conts' \in Seq(Conts) /\ Unique(conts') /\ From(conts', conts) /\ Len(conts') <= Len(conts)
  <2>1. conts \in Seq(Conts) /\ Unique(conts) /\ From(conts, conts) /\ Len(conts) <= Len(conts)
    BY <1>1 DEF From
  <2> QED
    BY <1>1, <1>2, <2>1, PrunedIs
<1>7. ContinuationsTrue'
  <2>1. MaxContinuations \in Nat /\ Len(conts) \in Nat /\ Len(conts') \in Nat
    BY <1>1, <1>6, EngineAssumption
  <2> QED
    BY <1>6, <2>1 DEF PipelineInv, ContinuationsTrue, From, Unique
<1>8. CachePart'
  BY <1>2 DEF PipelineInv, CachePart
<1>9. ASSUME NEW s \in Requests PROVE Anchored(req[s])'
  <2>1. CASE s = r
    <3>1. req'[s] = q
      BY <1>1, <1>2, <2>1 DEF RequestPart
    <3> QED
      BY <1>3, <3>1 DEF Anchored
  <2>2. CASE s # r
    <3>1. req'[s] = req[s] /\ req[s].at \notin Inside
      BY <1>1, <1>2, <2>2, OneInside DEF RequestPart
    <3> QED
      BY <3>1 DEF Anchored, Inside
  <2> QED
    BY <2>1, <2>2
<1> QED
  BY <1>5, <1>7, <1>8, <1>9 DEF PipelineInv

\* What a request becomes that knows what it conditions on.
ReadyAs(r, anchor) ==
    [req[r] EXCEPT !.anchor = anchor, !.at = "ready", !.key = None, !.raced = FALSE,
                   !.voice = IF req[r].kind = "design" THEN @ ELSE None]

\* Ready changes the record of its thread to ReadyAs and leaves the others alone.
LEMMA ReadyIs ==
  ASSUME RequestPart, NEW r \in Requests, req[r].kind # "register",
         NEW anchor \in Wavs \union Requests \union {None}, Ready(r, anchor)
  PROVE  /\ req' = [req EXCEPT ![r] = ReadyAs(r, anchor)]
         /\ ReadyAs(r, anchor) \in RequestRecords /\ Sound(ReadyAs(r, anchor))
         /\ ReadyAs(r, anchor).at = "ready" /\ ReadyAs(r, anchor).anchor = anchor
         /\ ReadyAs(r, anchor).id = req[r].id
<1>1. req[r] \in RequestRecords /\ Sound(req[r])
  BY DEF RequestPart
<1>2. req' = [req EXCEPT ![r] = ReadyAs(r, anchor)]
  BY <1>1 DEF Ready, ReadyAs, RequestRecords, RequestPart
<1>3. /\ ReadyAs(r, anchor) \in RequestRecords
      /\ ReadyAs(r, anchor).at = "ready" /\ ReadyAs(r, anchor).anchor = anchor
      /\ ReadyAs(r, anchor).id = req[r].id /\ ReadyAs(r, anchor).kind = req[r].kind
      /\ req[r].kind = "design" => ReadyAs(r, anchor).voice = req[r].voice
  BY <1>1, ZenonT(40) DEF ReadyAs, RequestRecords, Ats
<1>4. Sound(ReadyAs(r, anchor))
  BY <1>1, <1>3 DEF Sound
<1> QED
  BY <1>2, <1>3, <1>4

\* An entry with the id is there, or none.
LEMMA NoEntry ==
  ASSUME conts \in Seq(Conts), NEW id \in Continuations \union {None}, id = None \/ ~Has(conts, id)
  PROVE  \A i \in DOMAIN conts : conts[i].id # id
<1>1. ASSUME NEW i \in DOMAIN conts PROVE conts[i].id \in Continuations
  <2>1. conts[i] \in Conts
    OBVIOUS
  <2> QED
    BY <2>1 DEF Conts
<1>2. None \notin Continuations
  BY EngineAssumption
<1> QED
  BY <1>1, <1>2 DEF Has, Range

\* What a request conditions on: the anchor of its session, its own audio, or the
\* content of a file.
LEMMA NamesKeeps ==
  ASSUME PipelineInv, NEW r \in Requests, Names(r)
  PROVE  PipelineInv'
<1> DEFINE v == req[r].voice
           own == req[r].at = "in" /\ (v = None \/ req[r].kind = "design")
           known == req[r].id # None /\ Has(conts, req[r].id)
<1>1. /\ req[r] \in RequestRecords /\ Sound(req[r]) /\ RequestPart
      /\ conts \in Seq(Conts) /\ Unique(conts)
      /\ ref \in [Voices -> Wavs \union {None}] /\ meta \in [Voices -> Wavs \union {None}]
  BY RequestIs
<1>2. /\ req[r].at \in {"in", "warming"} /\ UNCHANGED <<ref, meta, conts, memory, disk>>
      /\ \/ known /\ Ready(r, EntryOf(conts, req[r].id).base) /\ UNCHANGED lock
         \/ ~known /\ own /\ Ready(r, r) /\ UNCHANGED lock
         \/ ~known /\ ~own /\ IF ref[v] = None THEN Quits(r)
                              ELSE req' = [req EXCEPT ![r].key = ref[v], ![r].at = "named"] /\ UNCHANGED lock
  BY DEF Names, files, stores
<1>3. meta' \in [Voices -> Wavs \union {None}] /\ req[r].at \in Inside
  BY <1>1, <1>2 DEF Inside
<1>4. CASE known /\ Ready(r, EntryOf(conts, req[r].id).base) /\ UNCHANGED lock
  <2>1. PICK j \in DOMAIN conts : EntryOf(conts, req[r].id) = conts[j] /\ conts[j].id = req[r].id
    BY <1>1, <1>4, EntryOfIs
  <2>2. conts[j].base \in Wavs \union Requests \union {None}
    <3>1. conts[j] \in Conts
      BY <1>1
    <3> QED
      BY <3>1 DEF Conts
  <2>3. req[r].kind # "register"
    BY <1>1, <1>2, <1>4 DEF Sound
  <2> DEFINE q == ReadyAs(r, conts[j].base)
  <2>4. /\ req' = [req EXCEPT ![r] = q] /\ q \in RequestRecords /\ Sound(q)
        /\ q.at = "ready" /\ q.anchor = conts[j].base /\ q.id = req[r].id
    BY <1>1, <1>4, <2>1, <2>2, <2>3, ReadyIs
  <2> HIDE DEF q
  <2>5. Anchored(q)
    BY <1>1, <2>1, <2>4 DEF Anchored, Unique
  <2>6. Hands(r, req[r], q)
    BY <1>3, <1>4, <2>4 DEF Hands, Inside
  <2> QED
    BY <1>2, <1>3, <2>4, <2>5, <2>6, OnlyMoves
<1>5. CASE ~known /\ own /\ Ready(r, r) /\ UNCHANGED lock
  <2>1. req[r].kind # "register"
    BY <1>1, <1>5 DEF Sound
  <2> DEFINE q == ReadyAs(r, r)
  <2>2. /\ req' = [req EXCEPT ![r] = q] /\ q \in RequestRecords /\ Sound(q)
        /\ q.at = "ready" /\ q.id = req[r].id
    BY <1>1, <1>5, <2>1, ReadyIs
  <2> HIDE DEF q
  <2>3. \A i \in DOMAIN conts : conts[i].id # req[r].id
    BY <1>1, <1>5, NoEntry DEF RequestRecords
  <2>4. Anchored(q)
    BY <2>2, <2>3 DEF Anchored
  <2>5. Hands(r, req[r], q)
    BY <1>3, <1>5, <2>2 DEF Hands, Inside
  <2> QED
    BY <1>2, <1>3, <2>2, <2>4, <2>5, OnlyMoves
<1>6. CASE ~known /\ ~own /\ ref[v] # None /\ UNCHANGED lock
           /\ req' = [req EXCEPT ![r].key = ref[v], ![r].at = "named"]
  <2> DEFINE q == [req[r] EXCEPT !.key = ref[v], !.at = "named"]
  <2>1. v \in Voices
    BY <1>1, <1>2, <1>6 DEF Sound, RequestRecords
  <2>2. ref[v] \in Wavs \union {None}
    BY <1>1, <2>1
  <2>3. /\ q \in RequestRecords /\ q.at = "named" /\ q.key = ref[v] /\ q.voice = v
        /\ q.id = req[r].id /\ q.kind = req[r].kind
    BY <1>1, <2>2 DEF RequestRecords, Ats
  <2>4. req' = [req EXCEPT ![r] = q]
    BY <1>1, <1>6 DEF RequestPart
  <2> HIDE DEF q
  <2>5. Sound(q)
    BY <1>1, <1>6, <2>1, <2>3 DEF Sound
  <2>6. \A i \in DOMAIN conts : conts[i].id # req[r].id
    BY <1>1, <1>6, NoEntry DEF RequestRecords
  <2>7. Anchored(q)
    BY <2>3, <2>6 DEF Anchored
  <2>8. Hands(r, req[r], q)
    BY <1>3, <1>6, <2>3 DEF Hands, Inside
  <2> QED
    BY <1>2, <1>3, <2>3, <2>4, <2>5, <2>7, <2>8, OnlyMoves
<1>7. CASE Quits(r)
  BY <1>2, <1>3, <1>7, QuitKeeps
<1> QED
  BY <1>2, <1>4, <1>5, <1>6, <1>7

\* The caches when one is found or built.
LEMMA CachesKeeps ==
  ASSUME PipelineInv, NEW r \in Requests, Caches(r)
  PROVE  PipelineInv'
<1> DEFINE v == req[r].voice
           key == req[r].key
           built == [key |-> key, of |-> ref[v], raced |-> req[r].raced]
           found == IF loads(v, key) THEN disk[v] ELSE built
           anchor == IF Has(memory, key) THEN EntryOf(memory, key).of ELSE found.of
           entry == [id |-> key, of |-> found.of, raced |-> found.raced]
<1>1. /\ req[r] \in RequestRecords /\ Sound(req[r]) /\ RequestPart
      /\ ref \in [Voices -> Wavs \union {None}] /\ meta \in [Voices -> Wavs \union {None}]
  BY RequestIs
<1>2. /\ memory \in Seq(CacheRecords) /\ Unique(memory) /\ Len(memory) <= MaxCaches
      /\ \A i \in DOMAIN memory : memory[i].of = memory[i].id \/ memory[i].raced
      /\ disk \in [Voices -> Snapshots]
      /\ \A w \in Voices : /\ disk[w].of = disk[w].key \/ disk[w].raced
                           /\ disk[w].key # None => disk[w].of # None
      /\ MaxCaches \in Nat \ {0}
  BY EngineAssumption DEF PipelineInv, CachePart
<1>3. req[r].at = "named" /\ UNCHANGED <<ref, meta, conts>> /\ req[r].at \in Inside
  BY DEF Caches, files, Inside
<1>4. meta' \in [Voices -> Wavs \union {None}]
  BY <1>1, <1>3
<1>5. v \in Voices /\ key \in Wavs /\ (key = ref[v] \/ req[r].raced)
  BY <1>1, <1>3 DEF Sound, RequestRecords
<1>6. CASE ~Has(memory, key) /\ ~loads(v, key) /\ ref[v] = None
  <2>1. Quits(r) /\ UNCHANGED <<memory, disk>>
    BY <1>6 DEF Caches
  <2> QED
    BY <1>3, <2>1, QuitKeeps
<1>7. CASE ~(~Has(memory, key) /\ ~loads(v, key) /\ ref[v] = None)
  <2>1. /\ IF Has(memory, key)
           THEN memory' = Append(Without(memory, key), EntryOf(memory, key)) /\ UNCHANGED disk
           ELSE /\ memory' = Stored(memory, entry, MaxCaches)
                /\ disk' = [disk EXCEPT ![v] = found] \/ UNCHANGED disk
        /\ IF req[r].kind \in {"register", "design"} THEN Quits(r)
           ELSE Ready(r, anchor) /\ UNCHANGED lock
    BY <1>7 DEF Caches
  <2>2. CachePart' /\ anchor \in Wavs \union Requests \union {None}
    <3>1. CASE Has(memory, key)
      <4>1. PICK j \in DOMAIN memory : EntryOf(memory, key) = memory[j] /\ memory[j].id = key
        BY <1>2, <3>1, EntryOfIs
      <4>2. memory[j] \in CacheRecords
        BY <1>2
      <4> DEFINE less == Without(memory, key)
      <4>3. /\ less \in Seq(CacheRecords) /\ Unique(less) /\ From(less, memory)
            /\ \A i \in DOMAIN less : less[i].id # key
            /\ Len(less) = Len(memory) - 1
        BY <1>2, <3>1, WithoutIs
      <4>4. memory' = Append(less, memory[j]) /\ disk' = disk
        BY <2>1, <3>1, <4>1
      <4> HIDE DEF less
      <4>5. /\ memory' \in Seq(CacheRecords) /\ Unique(memory')
            /\ \A i \in DOMAIN memory' : memory'[i] = memory[j] \/ \E k \in DOMAIN less : memory'[i] = less[k]
            /\ Len(memory') = Len(less) + 1
        BY <4>1, <4>2, <4>3, <4>4, AppendedIs
      <4>6. \A i \in DOMAIN memory' : \E k \in DOMAIN memory : memory'[i] = memory[k]
        BY <4>3, <4>5 DEF From
      <4>7. Len(memory') = Len(memory)
        BY <1>2, <4>3, <4>5
      <4>8. CachePart'
        <5>1. \A i \in DOMAIN memory' : memory'[i].of = memory'[i].id \/ memory'[i].raced
          BY <1>2, <4>6
        <5> QED
          BY <1>2, <4>4, <4>5, <4>7, <5>1 DEF CachePart, Unique
      <4>9. anchor \in Wavs \union Requests \union {None}
        BY <3>1, <4>1, <4>2 DEF CacheRecords
      <4> QED
        BY <4>8, <4>9
    <3>2. CASE ~Has(memory, key)
      <4>1. found \in Snapshots /\ found.of \in Wavs /\ (found.of = key \/ found.raced)
        <5>1. CASE loads(v, key)
          <6>1. found = disk[v] /\ disk[v] \in Snapshots /\ disk[v].key = key
            BY <1>2, <1>5, <5>1 DEF loads
          <6>2. disk[v].of = key \/ disk[v].raced
            BY <1>2, <1>5, <6>1
          <6>3. disk[v].of \in Wavs
            <7>1. disk[v].of \in Wavs \union {None} /\ disk[v].key # None
              BY <5>1, <6>1 DEF Snapshots, loads
            <7> QED
              BY <1>2, <1>5, <7>1
          <6> QED
            BY <6>1, <6>2, <6>3
        <5>2. CASE ~loads(v, key)
          <6>1. found = built /\ ref[v] \in Wavs
            BY <1>1, <1>5, <1>7, <3>2, <5>2
          <6>2. req[r].raced \in BOOLEAN
            BY <1>1 DEF RequestRecords
          <6> QED
            BY <1>5, <6>1, <6>2 DEF Snapshots
        <5> QED
          BY <5>1, <5>2
      <4>2. entry \in CacheRecords /\ (entry.of = entry.id \/ entry.raced)
        BY <1>5, <4>1 DEF CacheRecords, Snapshots
      <4>3. memory' = Stored(memory, entry, MaxCaches)
        BY <2>1, <3>2
      <4>4. disk' = [disk EXCEPT ![v] = found] \/ UNCHANGED disk
        BY <2>1, <3>2
      <4>5. found.key = key
        BY <1>5 DEF loads
      <4>6. anchor = found.of
        BY <3>2
      <4> HIDE DEF entry, found, anchor
      <4>7. /\ memory' \in Seq(CacheRecords) /\ Unique(memory')
            /\ \A i \in DOMAIN memory' : memory'[i] = entry \/ \E k \in DOMAIN memory : memory'[i] = memory[k]
            /\ Len(memory') <= MaxCaches
        BY <1>2, <4>2, <4>3, StoredIs
      <4>8. \A i \in DOMAIN memory' : memory'[i].of = memory'[i].id \/ memory'[i].raced
        BY <1>2, <4>2, <4>7
      <4>9. /\ disk' \in [Voices -> Snapshots]
            /\ \A w \in Voices : /\ disk'[w].of = disk'[w].key \/ disk'[w].raced
                                 /\ disk'[w].key # None => disk'[w].of # None
        <5>1. None \notin Wavs
          BY EngineAssumption
        <5> QED
          BY <1>2, <1>5, <4>1, <4>4, <4>5, <5>1
      <4> QED
        BY <4>1, <4>6, <4>7, <4>8, <4>9 DEF CachePart, Unique
    <3> QED
      BY <3>1, <3>2
  <2>3. ContinuationsTrue'
    BY <1>3 DEF PipelineInv, ContinuationsTrue
  <2>4. CASE req[r].kind \in {"register", "design"}
    <3>1. req' = [req EXCEPT ![r] = Free] /\ lock' = None
      BY <2>1, <2>4 DEF Quits, Over
    <3>2. Hands(r, req[r], Free)
      BY <1>3, <3>1 DEF Hands, Free, Inside
    <3>3. RequestPart'
      BY <1>1, <1>3, <1>4, <3>1, <3>2, FreeIs, RequestMoves
    <3> QED
      BY <2>2, <2>3, <3>1, <3>3, NobodyIsAnchored DEF PipelineInv
  <2>5. CASE req[r].kind \notin {"register", "design"}
    <3> DEFINE q == ReadyAs(r, anchor)
    <3>1. Ready(r, anchor) /\ UNCHANGED lock
      BY <2>1, <2>5
    <3> HIDE DEF anchor
    <3>2. /\ req' = [req EXCEPT ![r] = q] /\ q \in RequestRecords /\ Sound(q)
          /\ q.at = "ready" /\ q.id = req[r].id
      BY <1>1, <2>2, <2>5, <3>1, ReadyIs
    <3> HIDE DEF q
    <3>3. Hands(r, req[r], q)
      BY <1>3, <3>1, <3>2 DEF Hands, Inside
    <3>4. RequestPart'
      BY <1>1, <1>3, <1>4, <3>2, <3>3, RequestMoves
    <3>5. \A i \in DOMAIN conts : conts[i].id # req[r].id
      BY <1>3, RequestIs DEF Anchored
    <3>6. ASSUME NEW s \in Requests PROVE Anchored(req[s])'
      <4>1. req'[s] = IF s = r THEN q ELSE req[s]
        BY <1>1, <3>2 DEF RequestPart
      <4>2. Anchored(req[s])
        BY RequestIs
      <4> QED
        BY <1>3, <3>2, <3>5, <4>1, <4>2 DEF Anchored
    <3> QED
      BY <2>2, <2>3, <3>4, <3>6 DEF PipelineInv
  <2> QED
    BY <2>4, <2>5
<1> QED
  BY <1>6, <1>7

\* What a session keeps after a chunk is what the chunk was conditioned on.
LEMMA KeepsIs ==
  ASSUME PipelineInv, NEW r \in Requests, req[r].at \in {"ready", "speaking"}, req[r].id # None,
         Keeps(r)
  PROVE  ContinuationsTrue'
<1> DEFINE id == req[r].id
           base == req[r].anchor
           entry == [id |-> id, base |-> base, heard |-> HeardBy(id) \union {base}]
<1>1. /\ req[r] \in RequestRecords /\ Anchored(req[r])
      /\ conts \in Seq(Conts) /\ Unique(conts) /\ Len(conts) <= MaxContinuations
      /\ \A i \in DOMAIN conts : conts[i].heard = {conts[i].base}
      /\ MaxContinuations \in Nat \ {0}
  BY RequestIs, EngineAssumption DEF PipelineInv, ContinuationsTrue
<1>2. id \in Continuations /\ base \in Wavs \union Requests \union {None}
  BY <1>1 DEF RequestRecords
<1>3. HeardBy(id) \subseteq {base}
  <2>1. CASE Has(conts, id)
    <3>1. PICK j \in DOMAIN conts : EntryOf(conts, id) = conts[j] /\ conts[j].id = id
      BY <1>1, <2>1, EntryOfIs
    <3>2. conts[j].heard = {conts[j].base} /\ conts[j].base = base
      BY <1>1, <3>1 DEF Anchored
    <3> QED
      BY <2>1, <3>1, <3>2 DEF HeardBy
  <2>2. CASE ~Has(conts, id)
    BY <2>2 DEF HeardBy
  <2> QED
    BY <2>1, <2>2
<1>4. entry \in Conts /\ entry.heard = {entry.base}
  BY <1>2, <1>3 DEF Conts
<1>5. conts' \in {Without(conts, id), Stored(conts, entry, MaxContinuations)}
  BY DEF Keeps, put
<1> HIDE DEF entry
<1>6. CASE conts' = Without(conts, id)
  <2>1. /\ conts' \in Seq(Conts) /\ Unique(conts') /\ From(conts', conts)
        /\ Len(conts') = IF Has(conts, id) THEN Len(conts) - 1 ELSE Len(conts)
    BY <1>1, <1>6, WithoutIs
  <2>2. Len(conts') <= MaxContinuations
    BY <1>1, <2>1
  <2>3. \A i \in DOMAIN conts' : conts'[i].heard = {conts'[i].base}
    BY <1>1, <2>1 DEF From
  <2> QED
    BY <2>1, <2>2, <2>3 DEF ContinuationsTrue, Unique
<1>7. CASE conts' = Stored(conts, entry, MaxContinuations)
  <2>1. /\ conts' \in Seq(Conts) /\ Unique(conts') /\ Len(conts') <= MaxContinuations
        /\ \A i \in DOMAIN conts' : conts'[i] = entry \/ \E j \in DOMAIN conts : conts'[i] = conts[j]
    BY <1>1, <1>4, <1>7, StoredIs
  <2>2. \A i \in DOMAIN conts' : conts'[i].heard = {conts'[i].base}
    BY <1>1, <1>4, <2>1
  <2> QED
    BY <2>1, <2>2 DEF ContinuationsTrue, Unique
<1> QED
  BY <1>5, <1>6, <1>7

\* A chunk is over: its session keeps its anchor, or nothing, and the pipeline is free.
LEMMA EndsKeeps ==
  ASSUME PipelineInv, NEW r \in Requests, req[r].at \in {"ready", "speaking"},
         conts' = conts \/ (req[r].id # None /\ Keeps(r)), Quits(r),
         UNCHANGED <<ref, meta, memory, disk>>
  PROVE  PipelineInv'
<1>1. req' = [req EXCEPT ![r] = Free] /\ lock' = None /\ RequestPart
  BY RequestIs DEF Quits, Over
<1>2. Hands(r, req[r], Free)
  BY <1>1 DEF Hands, Free, Inside
<1>3. meta' \in [Voices -> Wavs \union {None}]
  BY RequestIs
<1>4. RequestPart'
  BY <1>1, <1>2, <1>3, FreeIs, RequestMoves
<1>5. ContinuationsTrue'
  <2>1. CASE conts' = conts
    BY <2>1 DEF PipelineInv, ContinuationsTrue
  <2> QED
    BY <2>1, KeepsIs
<1>6. CachePart'
  BY DEF PipelineInv, CachePart
<1> QED
  BY <1>1, <1>4, <1>5, <1>6, NobodyIsAnchored DEF PipelineInv

\* A stream starts.
LEMMA YieldsKeeps ==
  ASSUME PipelineInv, NEW r \in Requests, Yields(r)
  PROVE  PipelineInv'
<1> DEFINE q == [req[r] EXCEPT !.at = "speaking"]
<1>1. /\ req[r] \in RequestRecords /\ Sound(req[r]) /\ Anchored(req[r])
      /\ meta \in [Voices -> Wavs \union {None}]
  BY RequestIs
<1>2. /\ req[r].at = "ready" /\ req[r].id # None /\ req' = [req EXCEPT ![r] = q]
      /\ UNCHANGED <<ref, meta, lock, conts, memory, disk>>
  BY DEF Yields, To, files, stores
<1>3. /\ q \in RequestRecords /\ q.at = "speaking" /\ q.id = req[r].id /\ q.anchor = req[r].anchor
      /\ q.kind = req[r].kind /\ q.voice = req[r].voice
  BY <1>1 DEF RequestRecords, Ats
<1> HIDE DEF q
<1>4. Sound(q) /\ Anchored(q) /\ Hands(r, req[r], q)
  BY <1>1, <1>2, <1>3 DEF Sound, Anchored, Hands, Inside
<1> QED
  BY <1>1, <1>2, <1>3, <1>4, OnlyMoves

\* The reference of a registration is described, or not.
LEMMA DescribesKeeps ==
  ASSUME PipelineInv, NEW r \in Requests, Describes(r)
  PROVE  PipelineInv'
<1> DEFINE q == [req[r] EXCEPT !.at = "prewarms", !.take = None]
<1>1. /\ req[r] \in RequestRecords /\ Sound(req[r])
      /\ meta \in [Voices -> Wavs \union {None}]
  BY RequestIs
<1>2. /\ req[r].at = "stored" /\ UNCHANGED <<ref, lock, conts, memory, disk>>
      /\ \/ req' = [req EXCEPT ![r] = Free] /\ UNCHANGED meta
         \/ /\ req' = [req EXCEPT ![r].at = "prewarms", ![r].take = None]
            /\ meta' = [meta EXCEPT ![req[r].voice] = req[r].take]
  BY DEF Describes, Over, stores
<1>3. CASE req' = [req EXCEPT ![r] = Free] /\ UNCHANGED meta
  <2>1. Hands(r, req[r], Free)
    BY <1>2 DEF Hands, Free, Inside
  <2> QED
    BY <1>1, <1>2, <1>3, <2>1, FreeIs, OnlyMoves
<1>4. CASE /\ req' = [req EXCEPT ![r].at = "prewarms", ![r].take = None]
           /\ meta' = [meta EXCEPT ![req[r].voice] = req[r].take]
  <2>1. /\ q \in RequestRecords /\ q.at = "prewarms" /\ q.id = req[r].id
        /\ q.kind = req[r].kind /\ q.voice = req[r].voice
    BY <1>1 DEF RequestRecords, Ats
  <2>2. req' = [req EXCEPT ![r] = q]
    BY <1>1, <1>4, RequestIs DEF RequestPart
  <2> HIDE DEF q
  <2>3. Sound(q) /\ Anchored(q) /\ Hands(r, req[r], q)
    BY <1>1, <1>2, <2>1 DEF Sound, Anchored, Hands, Inside
  <2>4. meta' \in [Voices -> Wavs \union {None}]
    BY <1>1, <1>4 DEF RequestRecords
  <2> QED
    BY <1>2, <2>1, <2>2, <2>3, <2>4, OnlyMoves
<1> QED
  BY <1>2, <1>3, <1>4

\* The file of a voice moves, under those who have just named it; at most one request
\* changes otherwise, and it is not in the pipeline.
LEMMA FileMoves ==
  ASSUME PipelineInv, NEW v \in Voices, NEW ref_ \in [Voices -> Wavs \union {None}],
         NEW r \in Requests, NEW q \in RequestRecords,
         q = Raced(v)[r] \/ (q.at \notin Inside /\ req[r].at \notin Inside /\ Sound(q)),
         req' = [Raced(v) EXCEPT ![r] = q], UNCHANGED <<lock, conts, memory>>,
         ref' = ref_, \A w \in Voices \ {v} : ref_[w] = ref[w],
         meta' \in [Voices -> Wavs \union {None}],
         disk' = disk \/ disk' = [disk EXCEPT ![v] = NoSnapshot]
  PROVE  PipelineInv'
<1>1. RequestPart /\ Raced(v) \in [Requests -> RequestRecords]
  <2>1. RequestPart /\ \A s \in Requests : req[s] \in RequestRecords
    BY DEF PipelineInv, RequestPart
  <2>2. \A p \in RequestRecords : [p EXCEPT !.raced = TRUE] \in RequestRecords
    BY DEF RequestRecords
  <2>3. \A s \in Requests : Raced(v)[s] \in RequestRecords
    BY <2>1, <2>2 DEF Raced
  <2> QED
    BY <2>1, <2>3 DEF Raced
<1>2. req' \in [Requests -> RequestRecords]
  BY <1>1
<1>3. ASSUME NEW s \in Requests
      PROVE  /\ (lock' = s <=> req'[s].at \in Inside)
             /\ Sound(req[s])' /\ Anchored(req[s])'
  <2>1. req[s] \in RequestRecords /\ Sound(req[s]) /\ Anchored(req[s]) /\ (lock = s <=> req[s].at \in Inside)
    BY RequestIs
  <2>2. CASE req'[s] = Raced(v)[s]
    <3>1. CASE req[s].voice = v /\ req[s].at = "named"
      <4>1. /\ req'[s] = [req[s] EXCEPT !.raced = TRUE]
        BY <2>2, <3>1 DEF Raced
      <4>2. /\ req'[s].at = req[s].at /\ req'[s].kind = req[s].kind /\ req'[s].voice = v
            /\ req'[s].id = req[s].id /\ req'[s].key = req[s].key /\ req'[s].raced
            /\ req'[s].anchor = req[s].anchor
        BY <2>1, <3>1, <4>1 DEF RequestRecords
      <4> QED
        BY <2>1, <3>1, <4>2 DEF Sound, Anchored
    <3>2. CASE ~(req[s].voice = v /\ req[s].at = "named")
      <4>1. req'[s] = req[s]
        BY <2>2, <3>2 DEF Raced
      <4>2. req[s].at = "named" => ref'[req[s].voice] = ref[req[s].voice]
        BY <2>1, <3>2 DEF Sound
      <4> QED
        BY <2>1, <4>1, <4>2 DEF Sound, Anchored
    <3> QED
      BY <3>1, <3>2
  <2>3. CASE req'[s] # Raced(v)[s]
    <3>1. s = r /\ req'[s] = q /\ q.at \notin Inside /\ req[r].at \notin Inside /\ Sound(q)
      BY <1>1, <2>3
    <3>2. q.at # "named"
      BY <3>1 DEF Inside
    <3> QED
      BY <2>1, <3>1, <3>2 DEF Sound, Anchored, Inside
  <2> QED
    BY <2>2, <2>3
<1>4. RequestPart'
  BY <1>1, <1>2, <1>3 DEF RequestPart
<1>5. ContinuationsTrue'
  BY DEF PipelineInv, ContinuationsTrue
<1>6. CachePart'
  <2>1. /\ disk \in [Voices -> Snapshots]
        /\ \A w \in Voices : /\ disk[w].of = disk[w].key \/ disk[w].raced
                             /\ disk[w].key # None => disk[w].of # None
    BY DEF PipelineInv, CachePart
  <2>2. NoSnapshot \in Snapshots /\ NoSnapshot.of = NoSnapshot.key /\ NoSnapshot.key = None
    BY DEF Snapshots, NoSnapshot
  <2>3. /\ disk' \in [Voices -> Snapshots]
        /\ \A w \in Voices : /\ disk'[w].of = disk'[w].key \/ disk'[w].raced
                             /\ disk'[w].key # None => disk'[w].of # None
    BY <2>1, <2>2
  <2> QED
    BY <2>3 DEF PipelineInv, CachePart, Unique
<1> QED
  BY <1>3, <1>4, <1>5, <1>6 DEF PipelineInv

\* An upload is moved into its place.
LEMMA UploadsKeeps ==
  ASSUME PipelineInv, NEW r \in Requests, NEW v \in Voices, NEW take \in Wavs, Uploads(r, v, take)
  PROVE  PipelineInv'
<1> DEFINE q == [Free EXCEPT !.kind = "register", !.at = "stored", !.voice = v, !.take = take]
           new == [ref EXCEPT ![v] = take]
<1>1. /\ req[r].at = "none" /\ req' = [Raced(v) EXCEPT ![r] = q] /\ ref' = new
      /\ UNCHANGED <<meta, lock, conts, memory, disk>>
  BY DEF Uploads, stores
<1>2. /\ q \in RequestRecords /\ q.at = "stored" /\ q.kind = "register" /\ q.voice = v
      /\ q.id = None
  BY DEF Free, RequestRecords, Ats, EngineKinds
<1> HIDE DEF q
<1>3. q.at \notin Inside /\ req[r].at \notin Inside /\ Sound(q)
  BY <1>1, <1>2 DEF Inside, Sound
<1>4. /\ new \in [Voices -> Wavs \union {None}] /\ \A w \in Voices \ {v} : new[w] = ref[w]
      /\ meta' \in [Voices -> Wavs \union {None}]
  BY <1>1, RequestIs
<1> QED
  BY <1>1, <1>2, <1>3, <1>4, FileMoves, ZenonT(40)

\* A voice is deleted.
LEMMA DeletesKeeps ==
  ASSUME PipelineInv, NEW r \in Requests, NEW v \in Voices, DeletesVoice(v)
  PROVE  PipelineInv'
<1> DEFINE new == [ref EXCEPT ![v] = None]
           q == Raced(v)[r]
<1>1. /\ req' = Raced(v) /\ ref' = new /\ meta' = [meta EXCEPT ![v] = None]
      /\ disk' = [disk EXCEPT ![v] = NoSnapshot] /\ UNCHANGED <<lock, conts, memory>>
  BY DEF DeletesVoice
<1>2. Raced(v) \in [Requests -> RequestRecords]
  BY ZenonT(40) DEF PipelineInv, RequestPart, Raced, RequestRecords
<1>3. q \in RequestRecords /\ req' = [Raced(v) EXCEPT ![r] = q]
  BY <1>1, <1>2
<1>4. /\ new \in [Voices -> Wavs \union {None}] /\ \A w \in Voices \ {v} : new[w] = ref[w]
      /\ meta' \in [Voices -> Wavs \union {None}]
  BY <1>1, RequestIs
<1>5. q = Raced(v)[r]
  OBVIOUS
<1> HIDE DEF q, new
<1>6. UNCHANGED <<lock, conts, memory>> /\ ref' = new /\ disk' = [disk EXCEPT ![v] = NoSnapshot]
  BY <1>1
<1>7. q = Raced(v)[r] \/ (q.at \notin Inside /\ req[r].at \notin Inside /\ Sound(q))
  BY <1>5
<1> QED
  BY ONLY <1>3, <1>4, <1>6, <1>7, FileMoves, PipelineInv, r \in Requests, v \in Voices

\* A design fails after its directory was made.
LEMMA DesignFailsKeeps ==
  ASSUME PipelineInv, NEW r \in Requests, DesignFails(r)
  PROVE  PipelineInv'
<1> DEFINE v == req[r].voice
           new == [ref EXCEPT ![v] = None]
<1>1. /\ req[r].at = "stored" /\ req[r].kind = "design"
      /\ req' = [Raced(v) EXCEPT ![r] = Free] /\ ref' = new /\ meta' = [meta EXCEPT ![v] = None]
      /\ disk' = [disk EXCEPT ![v] = NoSnapshot] /\ UNCHANGED <<lock, conts, memory>>
  BY DEF DesignFails
<1>2. v \in Voices
  BY <1>1, RequestIs DEF Sound
<1>3. Free.at \notin Inside /\ req[r].at \notin Inside /\ Sound(Free) /\ Free \in RequestRecords
  BY <1>1, FreeIs DEF Inside
<1>4. /\ new \in [Voices -> Wavs \union {None}] /\ \A w \in Voices \ {v} : new[w] = ref[w]
      /\ meta' \in [Voices -> Wavs \union {None}]
  BY <1>1, <1>2, RequestIs
<1> HIDE DEF v, new
<1> QED
  BY <1>1, <1>2, <1>3, <1>4, FileMoves

\* A design is stored, where nothing was: nobody had named that voice.
LEMMA DesignStoresKeeps ==
  ASSUME PipelineInv, NEW r \in Requests, NEW take \in Wavs, DesignStores(r, take)
  PROVE  PipelineInv'
<1> DEFINE v == req[r].voice
           q == [req[r] EXCEPT !.at = "stored", !.take = take, !.anchor = None]
<1>1. /\ req[r] \in RequestRecords /\ Sound(req[r]) /\ RequestPart
      /\ ref \in [Voices -> Wavs \union {None}] /\ meta \in [Voices -> Wavs \union {None}]
  BY RequestIs
<1>2. /\ req[r].at = "ready" /\ req[r].kind = "design" /\ lock' = None
      /\ UNCHANGED <<meta, conts, memory, disk>>
      /\ IF Exists(v) THEN Over(r) /\ UNCHANGED ref
         ELSE /\ req' = [req EXCEPT ![r].at = "stored", ![r].take = take, ![r].anchor = None]
              /\ ref' = [ref EXCEPT ![v] = take]
  BY DEF DesignStores, stores
<1>3. CASE Exists(v)
  <2>1. Quits(r) /\ UNCHANGED ref
    BY <1>2, <1>3 DEF Quits
  <2> QED
    BY <1>2, <2>1, EndsKeeps
<1>4. CASE ~Exists(v)
  <2>1. /\ q \in RequestRecords /\ q.at = "stored" /\ q.kind = "design" /\ q.voice = v
        /\ q.id = req[r].id
    BY <1>1, <1>2 DEF RequestRecords, Ats
  <2>2. req' = [req EXCEPT ![r] = q] /\ ref' = [ref EXCEPT ![v] = take]
    BY <1>1, <1>2, <1>4 DEF RequestPart
  <2>3. v \in Voices /\ ref[v] = None
    BY <1>1, <1>2, <1>4 DEF Sound, Exists
  <2> HIDE DEF q
  <2>4. \A s \in Requests : req'[s] = IF s = r THEN q ELSE req[s]
    BY <1>1, <2>2 DEF RequestPart
  <2>5. \A s \in Requests : Sound(req[s])'
    <3>1. \A s \in Requests : Sound(req[s])
      BY <1>1 DEF RequestPart
    <3>2. Sound(req[r])'
      <4>1. req'[r] = q
        BY <2>4
      <4> QED
        BY <1>1, <1>2, <2>1, <4>1 DEF Sound
    <3>3. ASSUME NEW s \in Requests, s # r PROVE Sound(req[s])'
      <4>1. Sound(req[s]) /\ req'[s] = req[s]
        BY <2>4, <3>1, <3>3
      <4>2. \A w \in Voices : w # v => ref'[w] = ref[w]
        BY <1>1, <2>2
      <4> QED
        BY <2>3, <4>1, <4>2 DEF Sound
    <3> QED
      BY <2>4, <3>2, <3>3
  <2>6. /\ req' \in [Requests -> RequestRecords] /\ ref' \in [Voices -> Wavs \union {None}]
        /\ \A s \in Requests : lock' = s <=> req'[s].at \in Inside
    <3>1. None \notin Requests /\ req[r].at \in Inside /\ q.at \notin Inside
      BY <1>2, <2>1, EngineAssumption DEF Inside
    <3> QED
      BY <1>1, <1>2, <2>1, <2>2, <2>3, <2>4, <3>1 DEF RequestPart
  <2>7. RequestPart'
    BY <1>1, <1>2, <2>5, <2>6 DEF RequestPart
  <2>8. ContinuationsTrue' /\ CachePart'
    BY <1>2 DEF PipelineInv, ContinuationsTrue, CachePart
  <2> QED
    BY <1>2, <2>7, <2>8, NobodyIsAnchored DEF PipelineInv
<1> QED
  BY <1>3, <1>4

\* health prunes what nobody conditions on.
LEMMA HealthKeeps ==
  ASSUME PipelineInv, Health
  PROVE  PipelineInv'
<1>1. lock = None /\ conts' \in Pruned /\ UNCHANGED <<req, ref, meta, lock, memory, disk>>
  BY DEF Health, files
<1>2. /\ conts \in Seq(Conts) /\ Unique(conts) /\ Len(conts) <= MaxContinuations
      /\ \A i \in DOMAIN conts : conts[i].heard = {conts[i].base}
  BY DEF PipelineInv, ContinuationsTrue
<1>3. conts' \in Seq(Conts) /\ Unique(conts') /\ From(conts', conts) /\ Len(conts') <= Len(conts)
  BY <1>1, <1>2, PrunedIs
<1>4. ContinuationsTrue'
  <2>1. MaxContinuations \in Nat /\ Len(conts) \in Nat /\ Len(conts') \in Nat
    BY <1>2, <1>3, EngineAssumption
  <2> QED
    BY <1>2, <1>3, <2>1 DEF ContinuationsTrue, From, Unique
<1>5. RequestPart' /\ CachePart'
  BY <1>1 DEF PipelineInv, RequestPart, Sound, CachePart
<1> QED
  BY <1>1, <1>4, <1>5, NobodyIsAnchored DEF PipelineInv

\* A voice is deleted, whoever there is to be using it.
LEMMA DeletionKeeps ==
  ASSUME PipelineInv, NEW v \in Voices, DeletesVoice(v)
  PROVE  PipelineInv'
<1>1. CASE \E r \in Requests : TRUE
  BY <1>1, DeletesKeeps
<1>2. CASE Requests = {}
  <2>1. /\ req' = Raced(v) /\ ref' = [ref EXCEPT ![v] = None] /\ meta' = [meta EXCEPT ![v] = None]
        /\ disk' = [disk EXCEPT ![v] = NoSnapshot] /\ UNCHANGED <<lock, conts, memory>>
    BY DEF DeletesVoice
  <2>2. RequestPart'
    <3>1. /\ ref \in [Voices -> Wavs \union {None}] /\ meta \in [Voices -> Wavs \union {None}]
          /\ lock \in Requests \union {None}
      BY DEF PipelineInv, RequestPart
    <3>2. req' \in [Requests -> RequestRecords]
      BY <1>2, <2>1 DEF Raced
    <3>3. ref' \in [Voices -> Wavs \union {None}] /\ meta' \in [Voices -> Wavs \union {None}]
      BY <2>1, <3>1
    <3> QED
      BY <1>2, <2>1, <3>1, <3>2, <3>3 DEF RequestPart
  <2>3. ContinuationsTrue'
    BY <2>1 DEF PipelineInv, ContinuationsTrue
  <2>4. CachePart'
    <3>1. /\ disk \in [Voices -> Snapshots]
          /\ \A w \in Voices : /\ disk[w].of = disk[w].key \/ disk[w].raced
                               /\ disk[w].key # None => disk[w].of # None
      BY DEF PipelineInv, CachePart
    <3>2. NoSnapshot \in Snapshots /\ NoSnapshot.of = NoSnapshot.key /\ NoSnapshot.key = None
      BY DEF Snapshots, NoSnapshot
    <3>3. /\ disk' \in [Voices -> Snapshots]
          /\ \A w \in Voices : /\ disk'[w].of = disk'[w].key \/ disk'[w].raced
                               /\ disk'[w].key # None => disk'[w].of # None
      BY <2>1, <3>1, <3>2
    <3> QED
      BY <2>1, <3>3 DEF PipelineInv, CachePart, Unique
  <2> QED
    BY <1>2, <2>2, <2>3, <2>4 DEF PipelineInv
<1> QED
  BY <1>1, <1>2

\* Every step of the voices' server keeps the pipeline and its stores.
LEMMA SpeechKeeps ==
  ASSUME PipelineInv, SpeechNext
  PROVE  PipelineInv'
<1>1. ASSUME NEW r \in Requests, Generates(r) PROVE PipelineInv'
  BY <1>1, EndsKeeps DEF Generates, files
<1>2. ASSUME NEW r \in Requests, Fails(r) PROVE PipelineInv'
  BY <1>2, EndsKeeps DEF Fails, files
<1>3. ASSUME NEW r \in Requests, StreamEnds(r) PROVE PipelineInv'
  <2>1. req[r].id # None
    BY <1>3, RequestIs DEF StreamEnds, Sound
  <2> QED
    BY <1>3, <2>1, EndsKeeps DEF StreamEnds, Closes, files
<1> QED
  BY <1>1, <1>2, <1>3, HealthKeeps, DeletionKeeps, SpeechAskedKeeps, TimesOutKeeps,
     AcquiresKeeps, NamesKeeps, CachesKeeps, YieldsKeeps, DescribesKeeps, DesignFailsKeeps,
     DesignAskedKeeps, DesignStoresKeeps, UploadsKeeps DEF SpeechNext

-----------------------------------------------------------------------------
(* The engines: the transcriber's desk.                                    *)

Served == {r \in Requests : desk.at[r] \in {"waiting", "active"}}

DeskInv ==
    /\ desk \in [reserved : Nat, active : Nat, serial : Requests \union {None},
                 at : [Requests -> {"none", "waiting", "active", "leaving"}]]
    /\ IsFiniteSet(Served) /\ desk.reserved = Cardinality(Served) /\ desk.reserved <= DeskLimit
    /\ \A r \in Requests : desk.serial = r <=> desk.at[r] \in {"active", "leaving"}
    /\ desk.active = IF \E r \in Requests : desk.at[r] = "active" THEN 1 ELSE 0

\* A request is let in, takes the context, and leaves both.
LEMMA DeskKeeps ==
  ASSUME DeskInv, DeskNext
  PROVE  DeskInv'
<1> DEFINE DeskStates == [reserved : Nat, active : Nat, serial : Requests \union {None},
                          at : [Requests -> {"none", "waiting", "active", "leaving"}]]
<1>1. /\ desk \in DeskStates
      /\ IsFiniteSet(Served) /\ desk.reserved = Cardinality(Served) /\ desk.reserved <= DeskLimit
      /\ \A r \in Requests : desk.serial = r <=> desk.at[r] \in {"active", "leaving"}
      /\ desk.active = IF \E r \in Requests : desk.at[r] = "active" THEN 1 ELSE 0
      /\ DeskLimit \in Nat \ {0} /\ None \notin Requests
  BY EngineAssumption DEF DeskInv
<1> DEFINE AtStates == [Requests -> {"none", "waiting", "active", "leaving"}]
<1>6. /\ desk = [reserved |-> desk.reserved, active |-> desk.active, serial |-> desk.serial,
                 at |-> desk.at]
      /\ desk.reserved \in Nat /\ desk.active \in Nat /\ desk.serial \in Requests \union {None}
      /\ desk.at \in AtStates
  BY <1>1
<1>7. ASSUME NEW n \in Nat, NEW m \in Nat, NEW x \in Requests \union {None}, NEW at \in AtStates,
             desk' = [reserved |-> n, active |-> m, serial |-> x, at |-> at]
      PROVE  /\ desk' \in DeskStates /\ desk'.reserved = n /\ desk'.active = m
             /\ desk'.serial = x /\ desk'.at = at
  BY <1>7
<1>2. ASSUME NEW r \in Requests, Enters(r) PROVE DeskInv'
  <2>1. /\ desk.at[r] = "none" /\ desk.reserved < DeskLimit
        /\ desk' = [desk EXCEPT !.reserved = @ + 1, !.at[r] = "waiting"]
    BY <1>2 DEF Enters
  <2>2. /\ desk' \in DeskStates /\ desk'.reserved = desk.reserved + 1 /\ desk'.active = desk.active
        /\ desk'.serial = desk.serial /\ desk'.at = [desk.at EXCEPT ![r] = "waiting"]
    <3>1. desk' = [reserved |-> desk.reserved + 1, active |-> desk.active, serial |-> desk.serial,
                   at |-> [desk.at EXCEPT ![r] = "waiting"]]
      BY <1>1, <2>1, <1>6
    <3>2. [desk.at EXCEPT ![r] = "waiting"] \in AtStates
      BY <1>6
    <3>3. desk.reserved + 1 \in Nat /\ desk.active \in Nat
      BY <1>1, <2>1, <1>6
    <3> HIDE DEF DeskStates, AtStates
    <3> QED
      BY <1>6, <1>7, <3>1, <3>2, <3>3
  <2>3. Served' = Served \union {r} /\ r \notin Served
    <3>1. \A s \in Requests : desk'.at[s] = IF s = r THEN "waiting" ELSE desk.at[s]
      BY <1>6, <2>2
    <3> QED
      BY <2>1, <3>1 DEF Served
  <2>4. IsFiniteSet(Served') /\ Cardinality(Served') = Cardinality(Served) + 1
    BY <1>1, <2>3, FS_AddElement
  <2>5. desk'.reserved = Cardinality(Served') /\ desk'.reserved <= DeskLimit
    BY <1>1, <2>1, <2>2, <2>4
  <2>6. \A s \in Requests : desk'.serial = s <=> desk'.at[s] \in {"active", "leaving"}
    BY <1>1, <2>1, <2>2
  <2>7. desk'.active = IF \E s \in Requests : desk'.at[s] = "active" THEN 1 ELSE 0
    BY <1>1, <2>1, <2>2
  <2> QED
    BY <2>2, <2>4, <2>5, <2>6, <2>7 DEF DeskInv
<1>3. ASSUME NEW r \in Requests, Transcribes(r) PROVE DeskInv'
  <2>1. /\ desk.at[r] = "waiting" /\ desk.serial = None
        /\ desk' = [desk EXCEPT !.serial = r, !.active = @ + 1, !.at[r] = "active"]
    BY <1>3 DEF Transcribes
  <2>2. /\ desk' \in DeskStates /\ desk'.reserved = desk.reserved /\ desk'.active = desk.active + 1
        /\ desk'.serial = r /\ desk'.at = [desk.at EXCEPT ![r] = "active"]
    <3>1. desk' = [reserved |-> desk.reserved, active |-> desk.active + 1, serial |-> r,
                   at |-> [desk.at EXCEPT ![r] = "active"]]
      BY <1>1, <2>1, <1>6
    <3>2. [desk.at EXCEPT ![r] = "active"] \in AtStates
      BY <1>6
    <3>3. desk.reserved \in Nat /\ desk.active + 1 \in Nat
      BY <1>1, <2>1, <1>6
    <3> HIDE DEF DeskStates, AtStates
    <3> QED
      BY <1>6, <1>7, <3>1, <3>2, <3>3
  <2>3. Served' = Served
    BY <1>1, <2>1, <2>2, ZenonT(40) DEF Served
  <2>4. \A s \in Requests : desk.at[s] \notin {"active", "leaving"}
    BY <1>1, <2>1
  <2>5. \A s \in Requests : desk'.serial = s <=> desk'.at[s] \in {"active", "leaving"}
    BY <1>1, <2>2, <2>4
  <2>6. desk'.active = 1 /\ desk'.at[r] = "active"
    BY <1>1, <2>2, <2>4
  <2> QED
    BY <1>1, <2>2, <2>3, <2>5, <2>6 DEF DeskInv
<1>4. ASSUME NEW r \in Requests, LeavesDesk(r) PROVE DeskInv'
  <2>1. /\ desk.at[r] = "active"
        /\ desk' = [desk EXCEPT !.reserved = @ - 1, !.active = @ - 1, !.at[r] = "leaving"]
    BY <1>4 DEF LeavesDesk
  <2>2. r \in Served /\ desk.active = 1 /\ desk.serial = r
    BY <1>1, <2>1 DEF Served
  <2>3. IsFiniteSet(Served \ {r}) /\ Cardinality(Served \ {r}) = Cardinality(Served) - 1
    BY <1>1, <2>2, FS_RemoveElement
  <2>4. Cardinality(Served \ {r}) \in Nat
    BY <2>3, FS_CardinalityType
  <2>5. desk.reserved - 1 \in Nat /\ desk.active - 1 \in Nat
    BY <1>1, <2>2, <2>3, <2>4
  <2>6. /\ desk' \in DeskStates /\ desk'.reserved = desk.reserved - 1 /\ desk'.active = 0
        /\ desk'.serial = r /\ desk'.at = [desk.at EXCEPT ![r] = "leaving"]
    <3>1. desk' = [reserved |-> desk.reserved - 1, active |-> desk.active - 1, serial |-> r,
                   at |-> [desk.at EXCEPT ![r] = "leaving"]]
      BY <1>1, <2>1, <2>2, <2>5, <1>6
    <3>2. [desk.at EXCEPT ![r] = "leaving"] \in AtStates
      BY <1>6
    <3>3. desk.reserved - 1 \in Nat /\ desk.active - 1 \in Nat
      BY <1>1, <2>1, <2>2, <2>5, <1>6
    <3> HIDE DEF DeskStates, AtStates
    <3> QED
      BY <1>6, <1>7, <3>1, <3>2, <3>3, <1>1, <2>2
  <2>7. Served' = Served \ {r}
    BY <1>1, <2>1, <2>6 DEF Served
  <2>8. desk'.reserved = Cardinality(Served') /\ desk'.reserved <= DeskLimit
    BY <1>1, <2>3, <2>4, <2>6, <2>7
  <2>9. \A s \in Requests : desk'.serial = s <=> desk'.at[s] \in {"active", "leaving"}
    <3>1. desk'.serial = r /\ desk'.at = [desk.at EXCEPT ![r] = "leaving"] /\ desk.serial = r
      BY <2>2, <2>6
    <3>2. desk.at \in AtStates /\ \A s \in Requests : desk.serial = s <=> desk.at[s] \in {"active", "leaving"}
      BY <1>1
    <3>3. desk'.at[r] = "leaving" /\ \A s \in Requests : s # r => desk'.at[s] = desk.at[s]
      BY <3>1, <3>2
    <3> QED
      BY <3>1, <3>2, <3>3
  <2>10. \A s \in Requests : desk'.at[s] # "active"
    BY <1>1, <2>2, <2>6
  <2> QED
    BY <2>3, <2>6, <2>7, <2>8, <2>9, <2>10 DEF DeskInv
<1>5. ASSUME NEW r \in Requests, ReleasesDesk(r) PROVE DeskInv'
  <2>1. desk.at[r] = "leaving" /\ desk' = [desk EXCEPT !.serial = None, !.at[r] = "none"]
    BY <1>5 DEF ReleasesDesk
  <2>2. /\ desk' \in DeskStates /\ desk'.reserved = desk.reserved /\ desk'.active = desk.active
        /\ desk'.serial = None /\ desk'.at = [desk.at EXCEPT ![r] = "none"]
    BY <1>1, <2>1
  <2>3. Served' = Served
    BY <1>1, <2>1, <2>2 DEF Served
  <2>4. \A s \in Requests : s # r => desk.at[s] \notin {"active", "leaving"}
    BY <1>1, <2>1
  <2>5. \A s \in Requests : desk'.serial = s <=> desk'.at[s] \in {"active", "leaving"}
    BY <1>1, <2>2, <2>4
  <2>6. desk'.active = IF \E s \in Requests : desk'.at[s] = "active" THEN 1 ELSE 0
    BY <1>1, <2>1, <2>2
  <2> QED
    BY <1>1, <2>2, <2>3, <2>5, <2>6 DEF DeskInv
<1> QED
  BY <1>2, <1>3, <1>4, <1>5 DEF DeskNext

-----------------------------------------------------------------------------
(* The engines together.                                                   *)

\* The invariant of the engines: who holds the pipeline and what it conditions on, what
\* the stores are made of, and whom the desk serves.
THEOREM EngineInvariant == EngineSpec => [](PipelineInv /\ DeskInv)
<1>1. ASSUME EngineInit PROVE PipelineInv /\ DeskInv
  <2>1. /\ req = [r \in Requests |-> Free] /\ lock = None
        /\ ref = [v \in Voices |-> None] /\ meta = [v \in Voices |-> None]
        /\ conts = <<>> /\ memory = <<>> /\ disk = [v \in Voices |-> NoSnapshot]
        /\ desk = [reserved |-> 0, active |-> 0, serial |-> None, at |-> [r \in Requests |-> "none"]]
    BY <1>1 DEF EngineInit
  <2>2. RequestPart
    <3>1. None \notin Requests
      BY EngineAssumption
    <3>2. Free.at \notin Inside
      BY DEF Free, Inside
    <3> QED
      BY <2>1, <3>1, <3>2, FreeIs DEF RequestPart
  <2>3. ContinuationsTrue /\ \A r \in Requests : Anchored(req[r])
    <3>1. 0 <= MaxContinuations
      BY EngineAssumption
    <3> QED
      BY <2>1, <3>1, FreeIs DEF ContinuationsTrue, Unique
  <2>4. CachePart
    <3>1. 0 <= MaxCaches /\ NoSnapshot \in Snapshots
      BY EngineAssumption DEF Snapshots, NoSnapshot
    <3> QED
      BY <2>1, <3>1 DEF CachePart, Unique, NoSnapshot
  <2>5. DeskInv
    <3>1. Served = {}
      BY <2>1 DEF Served
    <3>2. IsFiniteSet(Served) /\ Cardinality(Served) = 0
      BY <3>1, FS_EmptySet
    <3>3. None \notin Requests /\ 0 <= DeskLimit
      BY EngineAssumption
    <3> QED
      BY <2>1, <3>2, <3>3 DEF DeskInv
  <2> QED
    BY <2>2, <2>3, <2>4, <2>5 DEF PipelineInv
<1>2. ASSUME PipelineInv /\ DeskInv, [SpeechNext \/ DeskNext]_engineVars
      PROVE  (PipelineInv /\ DeskInv)'
  <2>1. ASSUME UNCHANGED desk PROVE DeskInv'
    BY <1>2, <2>1 DEF DeskInv, Served
  <2>2. ASSUME UNCHANGED <<req, ref, meta, lock, conts, memory, disk>> PROVE PipelineInv'
    BY <1>2, <2>2 DEF PipelineInv, RequestPart, Sound, ContinuationsTrue, Anchored, CachePart
  <2>3. CASE SpeechNext
    <3>1. UNCHANGED desk
      BY <2>3, ZenonT(40) DEF SpeechNext, Health, DeletesVoice, SpeechAsked, TimesOut, Acquires, Names, Caches,
            Generates, Fails, Yields, StreamEnds, Describes, DesignFails, DesignAsked, DesignStores,
            Uploads
    <3> QED
      BY <1>2, <2>1, <2>3, <3>1, SpeechKeeps
  <2>4. CASE DeskNext
    <3>1. UNCHANGED <<req, ref, meta, lock, conts, memory, disk>>
      BY <2>4 DEF DeskNext, Enters, Transcribes, LeavesDesk, ReleasesDesk, files, stores
    <3> QED
      BY <1>2, <2>2, <2>4, <3>1, DeskKeeps
  <2>5. CASE UNCHANGED engineVars
    BY <2>1, <2>2, <2>5 DEF engineVars
  <2> QED
    BY <1>2, <2>3, <2>4, <2>5
<1> QED
  BY <1>1, <1>2, PTL DEF EngineSpec

\* The pipeline is its user's (server_voxcpm2.py, continuations.py, prompt_caches.py),
\* for any requests, voices, sessions and capacities: a session's chunks share an anchor,
\* and a cache is of the content it is found by, unless a registration moved the file.
THEOREM PipelineStaysKept == EngineSpec => []PipelineIsKept
<1>1. ASSUME PipelineInv, DeskInv PROVE PipelineIsKept
  <2>1. \A r \in Requests : lock = r <=> req[r].at \in Inside
    BY <1>1 DEF PipelineInv, RequestPart
  <2>2. \A e \in Range(conts) : e.heard = {e.base}
    BY <1>1 DEF PipelineInv, ContinuationsTrue, Range
  <2>3. \A e \in Range(memory) : e.of = e.id \/ e.raced
    BY <1>1 DEF PipelineInv, CachePart, Range
  <2>4. \A v \in Voices : disk[v].of = disk[v].key \/ disk[v].raced
    BY <1>1 DEF PipelineInv, CachePart
  <2>5. desk.reserved = Cardinality({r \in Requests : desk.at[r] \in {"waiting", "active"}})
    BY <1>1 DEF DeskInv, Served
  <2>6. desk.reserved <= DeskLimit /\ desk.active <= 1
    BY <1>1 DEF DeskInv
  <2> QED
    BY <2>1, <2>2, <2>3, <2>4, <2>5, <2>6 DEF PipelineIsKept
<1> QED
  BY <1>1, EngineInvariant, PTL

-----------------------------------------------------------------------------
(* A client and its sessions.                                              *)

Views == [turn : Nat, dead : BOOLEAN]
Commands == [type : {"start", "attach", "text", "interrupt", "stop"}, arg : Nat]
Events == [type : {"accepted", "rejected", "unknown_session", "media.config", "state"},
           of : 0..MaxSessions, shows : {{}} \union {{v} : v \in Views}]

Clients == [socket : 0..MaxSockets, used : 0..MaxSockets, session : 0..MaxSessions,
            closed : BOOLEAN, sent : Nat, view : Views]
Wires == [up : Seq(Commands), down : Seq(Events), alive : BOOLEAN]
Links == [session : 0..MaxSessions, start : {"none", "resolving", "starting"},
          mine : 0..MaxSessions, closed : BOOLEAN]
Talks == [phase : {"new", "live", "stopped"}, started : BOOLEAN, sink : 0..MaxSockets,
          grace : BOOLEAN, turn : Nat, turns : Nat]

LinkTypes == /\ client \in Clients /\ wire \in [Sockets -> Wires]
             /\ link \in [Sockets -> Links] /\ sess \in [Sessions -> Talks]

\* A command that may bring a session, and the event after which one is asked for anew.
Seeks(c) == c.type \in {"start", "attach"}
Forgets(e) == e.type = "unknown_session"
NoAsk(u) == \A i \in DOMAIN u : ~Seeks(u[i])
NoForget(d) == \A i \in DOMAIN d : ~Forgets(d[i])
OneAsk(u) == \E i \in DOMAIN u : \A j \in DOMAIN u : j # i => ~Seeks(u[j])
OneForget(d) == \E i \in DOMAIN d : \A j \in DOMAIN d : j # i => ~Forgets(d[j])

\* At most one thing is on its way on a socket from which a session may come.
AsksOnce(w, start) ==
    \/ NoAsk(w.up) /\ NoForget(w.down)
    \/ start = "none" /\ NoForget(w.down) /\ OneAsk(w.up)
    \/ start = "none" /\ NoAsk(w.up) /\ OneForget(w.down)

\* Nothing is, nor will be: its session came.
Answered(w, start) == NoAsk(w.up) /\ NoForget(w.down) /\ start # "resolving"

SocketOK(k) ==
    /\ AsksOnce(wire[k], link[k].start)
    /\ \A i \in DOMAIN wire[k].up : wire[k].up[i].type = "attach" => wire[k].up[i].arg \in Sessions
    /\ link[k].session # 0 \/ link[k].start = "starting" => Answered(wire[k], link[k].start)
    /\ link[k].start = "starting" => link[k].mine \in Sessions /\ link[k].session \in {0, link[k].mine}
    /\ k > client.used => wire[k] = NoWire /\ link[k] = NoLink

\* The socket a session speaks to had that session and no other.
RouteOK(s) ==
    /\ sess[s].phase # "live" => sess[s].turn = 0
    /\ \A k \in Sockets : link[k].session = s => sess[s].phase # "new"
    /\ \A k \in Sockets : sess[s].sink = k =>
          k <= client.used /\ Answered(wire[k], link[k].start) /\ link[k].session \in {0, s}

\* What the client knows, and is about to be told, of the session it asked for or has.
Knows(k) ==
    /\ link[k].session # 0 =>
          /\ client.session \in {0, link[k].session}
          /\ \A i \in DOMAIN wire[k].down : wire[k].down[i].of \in {0, link[k].session}
    /\ ~Answered(wire[k], link[k].start) =>
          \A i \in DOMAIN wire[k].down : Forgets(wire[k].down[i]) \/ wire[k].down[i].of = 0
    /\ link[k].start = "resolving" \/ (\E i \in DOMAIN wire[k].up : wire[k].up[i].type = "start")
          => client.session = 0
    /\ \A i \in DOMAIN wire[k].up : wire[k].up[i].type = "attach" => wire[k].up[i].arg = client.session

\* The last event that shows something shows v, or none does and v is in view.
Tells(d, v) == \E i \in DOMAIN d : d[i].shows = {v} /\ \A j \in DOMAIN d : j > i => d[j].shows = {}
ShowsNothing(d) == \A i \in DOMAIN d : d[i].shows = {}
Ends(d, view, v) == Tells(d, v) \/ (ShowsNothing(d) /\ view = v)

\* Once it has read what is on its way, a client that is attached knows its session and
\* sees it as it is.
Learns(k, s) ==
    /\ client.socket = k /\ link[k].session = s /\ sess[s].sink = k
    /\ wire[k].alive /\ link[k].start = "none"
    => /\ client.session = s \/ \E i \in DOMAIN wire[k].down : wire[k].down[i].of = s
       /\ Ends(wire[k].down, client.view, Shown(s))

LinkInv == /\ LinkTypes /\ client.socket <= client.used
           /\ \A k \in Sockets : SocketOK(k)
           /\ \A s \in Sessions : RouteOK(s)
           /\ \A k \in Sockets : client.socket = k => Knows(k)
           /\ \A k \in Sockets, s \in Sessions : Learns(k, s)

\* What follows a sequence of events, and what is left of one.
LEMMA ToldMore ==
  ASSUME NEW d \in Seq(Events), NEW e \in Seq(Events)
  PROVE  /\ d \o e \in Seq(Events)
         /\ NoForget(d) /\ NoForget(e) => NoForget(d \o e)
         /\ \A S : (\A i \in DOMAIN d : d[i].of \in S) /\ (\A i \in DOMAIN e : e[i].of \in S)
                   => \A i \in DOMAIN (d \o e) : (d \o e)[i].of \in S
         /\ \A s : (\E i \in DOMAIN d : d[i].of = s) \/ (\E i \in DOMAIN e : e[i].of = s)
                   => \E i \in DOMAIN (d \o e) : (d \o e)[i].of = s
         /\ \A v : Tells(e, v) => Tells(d \o e, v)
         /\ \A v, view : Ends(d, view, v) /\ ShowsNothing(e) => Ends(d \o e, view, v)
<1> DEFINE c == d \o e
<1>1. /\ c \in Seq(Events) /\ DOMAIN c = 1..(Len(d) + Len(e)) /\ Len(d) \in Nat /\ Len(e) \in Nat
      /\ DOMAIN d = 1..Len(d) /\ DOMAIN e = 1..Len(e)
      /\ \A i \in DOMAIN d : i \in DOMAIN c /\ c[i] = d[i]
      /\ \A i \in DOMAIN e : i + Len(d) \in DOMAIN c /\ c[i + Len(d)] = e[i]
      OBVIOUS
<1>2. \A i \in DOMAIN c : i \in DOMAIN d \/ (i - Len(d) \in DOMAIN e /\ c[i] = e[i - Len(d)] /\ i > Len(d))
      OBVIOUS
<1> HIDE DEF c
<1>3. NoForget(d) /\ NoForget(e) => NoForget(c)
      BY <1>1, <1>2 DEF NoForget
<1>4. ASSUME NEW S, \A i \in DOMAIN d : d[i].of \in S, \A i \in DOMAIN e : e[i].of \in S
      PROVE  \A i \in DOMAIN c : c[i].of \in S
      BY <1>1, <1>2, <1>4
<1>5. ASSUME NEW s, (\E i \in DOMAIN d : d[i].of = s) \/ (\E i \in DOMAIN e : e[i].of = s)
      PROVE  \E i \in DOMAIN c : c[i].of = s
      BY <1>1, <1>5
<1>6. ASSUME NEW v, Tells(e, v) PROVE Tells(c, v)
  <2>1. PICK i \in DOMAIN e : e[i].shows = {v} /\ \A j \in DOMAIN e : j > i => e[j].shows = {}
        BY <1>6 DEF Tells
  <2>2. i + Len(d) \in DOMAIN c /\ c[i + Len(d)].shows = {v}
        BY <1>1, <2>1
  <2>3. ASSUME NEW j \in DOMAIN c, j > i + Len(d) PROVE c[j].shows = {}
    <3>1. j \in 1..(Len(d) + Len(e)) /\ i \in 1..Len(e) /\ j \notin DOMAIN d
          BY <1>1, <2>3
    <3>2. j - Len(d) \in DOMAIN e /\ c[j] = e[j - Len(d)]
          BY <1>2, <3>1
    <3>3. j - Len(d) > i
          BY <1>1, <2>3, <3>1
    <3> QED BY <2>1, <3>2, <3>3
  <2> QED BY <2>2, <2>3 DEF Tells
<1>7. ASSUME NEW v, NEW view, Ends(d, view, v), ShowsNothing(e) PROVE Ends(c, view, v)
  <2>1. CASE ShowsNothing(d) /\ view = v
        BY <1>1, <1>2, <1>7, <2>1 DEF Ends, ShowsNothing
  <2>2. CASE Tells(d, v)
    <3>1. PICK i \in DOMAIN d : d[i].shows = {v} /\ \A j \in DOMAIN d : j > i => d[j].shows = {}
          BY <2>2 DEF Tells
    <3>2. i \in DOMAIN c /\ c[i].shows = {v}
          BY <1>1, <3>1
    <3>3. ASSUME NEW j \in DOMAIN c, j > i PROVE c[j].shows = {}
          BY <1>1, <1>2, <1>7, <3>1, <3>3 DEF ShowsNothing
    <3> QED BY <3>2, <3>3 DEF Ends, Tells
  <2> QED BY <1>7, <2>1, <2>2 DEF Ends
<1> QED BY <1>1, <1>3, <1>4, <1>5, <1>6, <1>7 DEF c

\* An event that was told is there to be read.
LEMMA ToldOf ==
  ASSUME NEW d \in Seq(Events), NEW e \in Seq(Events), NEW s, NEW i \in DOMAIN e, e[i].of = s
  PROVE  \E j \in DOMAIN (d \o e) : (d \o e)[j].of = s
<1> DEFINE c == d \o e
<1>1. i + Len(d) \in DOMAIN c /\ c[i + Len(d)] = e[i]
      OBVIOUS
<1> HIDE DEF c
<1>2. \E j \in DOMAIN c : c[j].of = s
      BY <1>1
<1> QED BY <1>2 DEF c

\* The wires after an emission.
LEMMA EmitIs ==
  ASSUME NEW w \in [Sockets -> Wires], NEW k \in 0..MaxSockets, NEW es \in Seq(Events)
  PROVE  LET v == emit(w, k, es) IN
         /\ v \in [Sockets -> Wires]
         /\ \A j \in Sockets : v[j].up = w[j].up /\ v[j].alive = w[j].alive
         /\ \A j \in Sockets : v[j].down = IF j = k /\ w[j].alive THEN w[j].down \o es ELSE w[j].down
<1> DEFINE v == emit(w, k, es)
<1>1. CASE k # 0 /\ w[k].alive
  <2>1. k \in Sockets
        BY <1>1, LinkAssumption DEF Sockets
  <2>2. w[k].down \o es \in Seq(Events)
        BY <2>1 DEF Wires
  <2> DEFINE d == w[k].down \o es
             r == [w[k] EXCEPT !.down = d]
  <2>3. v = [w EXCEPT ![k] = r]
        BY <1>1 DEF emit
  <2> HIDE DEF d
  <2>4. r \in Wires /\ r.up = w[k].up /\ r.alive = w[k].alive /\ r.down = d
    <3>1. d \in Seq(Events)
          BY <2>2 DEF d
    <3> QED BY <2>1, <3>1 DEF Wires
  <2> HIDE DEF r, v
  <2>5. /\ v \in [Sockets -> Wires] /\ v[k] = r /\ \A j \in Sockets : j # k => v[j] = w[j]
        BY <2>1, <2>3, <2>4
  <2> QED BY <1>1, <2>4, <2>5 DEF d, v
<1>2. CASE ~(k # 0 /\ w[k].alive)
  <2>1. v = w
        BY <1>2 DEF emit
  <2>2. \A j \in Sockets : ~(j = k /\ w[j].alive)
        BY <1>2, LinkAssumption DEF Sockets
  <2> HIDE DEF v
  <2> QED BY <2>1, <2>2 DEF v
<1> QED BY <1>1, <1>2

\* A step that concerns one socket, and the client only where that is its socket.
LEMMA OneSocket ==
  ASSUME LinkInv, LinkTypes', NEW k \in Sockets,
         \A j \in Sockets : j # k => wire'[j] = wire[j] /\ link'[j] = link[j],
         \/ client' = client
         \/ client'.socket \in {0, k} /\ client.used <= client'.used /\ client'.socket <= client'.used,
         sess' = sess,
         SocketOK(k)',
         link'[k].session \in {0, link[k].session},
         \A s \in Sessions : sess[s].sink = k =>
             Answered(wire'[k], link'[k].start) /\ link'[k].session \in {0, s},
         client'.socket = k => Knows(k)',
         \A s \in Sessions : Learns(k, s)'
  PROVE  LinkInv'
<1>1. client \in Clients /\ client' \in Clients
      BY DEF LinkInv, LinkTypes
<1>2. client.used \in Nat /\ client'.used \in Nat /\ client.used <= client'.used /\ client'.socket \in 0..MaxSockets
      /\ client'.socket <= client'.used
  <2>1. client.used \in 0..MaxSockets /\ client'.used \in 0..MaxSockets /\ client'.socket \in 0..MaxSockets
        BY <1>1 DEF Clients
  <2>2. client.socket <= client.used
        BY DEF LinkInv
  <2>3. client' = client => client.used <= client'.used /\ client'.socket <= client'.used
        BY <2>1, <2>2, LinkAssumption
  <2> QED BY <2>1, <2>3, LinkAssumption
<1>3. ASSUME NEW j \in Sockets PROVE SocketOK(j)'
  <2>1. CASE j = k
        BY <2>1
  <2>2. CASE j # k
    <3>1. wire'[j] = wire[j] /\ link'[j] = link[j] /\ SocketOK(j)
          BY <2>2 DEF LinkInv
    <3>2. j > client'.used => j > client.used
          BY <1>2 DEF Sockets
    <3> QED BY <3>1, <3>2 DEF SocketOK
  <2> QED BY <2>1, <2>2
<1>4. ASSUME NEW s \in Sessions PROVE RouteOK(s)'
  <2>1. RouteOK(s)
        BY DEF LinkInv
  <2>2. ASSUME NEW j \in Sockets, link'[j].session = s PROVE sess[s].phase # "new"
    <3>1. link[j].session = s
      <4>1. s # 0
            BY LinkAssumption DEF Sessions
      <4> QED BY <2>2, <4>1
    <3> QED BY <2>1, <3>1 DEF RouteOK
  <2>3. ASSUME NEW j \in Sockets, sess[s].sink = j
        PROVE  j <= client'.used /\ Answered(wire'[j], link'[j].start) /\ link'[j].session \in {0, s}
    <3>1. j <= client.used /\ Answered(wire[j], link[j].start) /\ link[j].session \in {0, s}
          BY <2>1, <2>3 DEF RouteOK
    <3>2. j <= client'.used
          BY <1>2, <3>1 DEF Sockets
    <3> QED BY <2>3, <3>1, <3>2
  <2> QED BY <2>1, <2>2, <2>3 DEF RouteOK
<1>5. ASSUME NEW j \in Sockets, client'.socket = j PROVE Knows(j)'
  <2>1. CASE j = k
        BY <1>5, <2>1
  <2>2. CASE j # k
    <3>1. client' = client /\ Knows(j)
      <4>1. j # 0
            BY LinkAssumption DEF Sockets
      <4>2. client' = client
            BY <1>5, <2>2, <4>1
      <4> QED BY <1>5, <4>2 DEF LinkInv
    <3>2. wire'[j] = wire[j] /\ link'[j] = link[j]
          BY <2>2
    <3> QED BY <3>1, <3>2 DEF Knows
  <2> QED BY <2>1, <2>2
<1>6. ASSUME NEW j \in Sockets, NEW s \in Sessions PROVE Learns(j, s)'
  <2>1. CASE j = k
        BY <2>1
  <2>2. CASE j # k
    <3>1. wire'[j] = wire[j] /\ link'[j] = link[j] /\ Learns(j, s) /\ Shown(s)' = Shown(s)
          BY <2>2 DEF LinkInv, Shown
    <3>2. client'.socket = j => client' = client
      <4>1. j # 0
            BY LinkAssumption DEF Sockets
      <4> QED BY <2>2, <4>1
    <3> QED BY <3>1, <3>2 DEF Learns
  <2> QED BY <2>1, <2>2
<1> QED BY <1>2, <1>3, <1>4, <1>5, <1>6 DEF LinkInv

\* A command is read.
ReadsOn(u, t) == t = u \/ (u # <<>> /\ t = Tail(u))

LEMMA ReadLess ==
  ASSUME NEW u \in Seq(Commands), NEW t, ReadsOn(u, t)
  PROVE  /\ t \in Seq(Commands) /\ \A i \in DOMAIN t : \E j \in DOMAIN u : t[i] = u[j]
         /\ NoAsk(u) => NoAsk(t)
         /\ OneAsk(u) => NoAsk(t) \/ OneAsk(t)
<1>1. CASE t = u
      BY <1>1
<1>2. CASE u # <<>> /\ t = Tail(u)
  <2>1. /\ t \in Seq(Commands) /\ DOMAIN u = 1..Len(u) /\ Len(u) \in Nat
        /\ DOMAIN t = 1..(Len(u) - 1) /\ \A i \in DOMAIN t : i + 1 \in DOMAIN u /\ t[i] = u[i + 1]
        BY <1>2
  <2>2. NoAsk(u) => NoAsk(t)
        BY <2>1 DEF NoAsk
  <2>3. ASSUME NEW i \in DOMAIN u, \A j \in DOMAIN u : j # i => ~Seeks(u[j])
        PROVE  NoAsk(t) \/ OneAsk(t)
    <3>1. CASE i = 1
          BY <2>1, <2>3, <3>1 DEF NoAsk
    <3>2. CASE i # 1
      <4>1. i - 1 \in DOMAIN t
            BY <2>1, <3>2
      <4>2. ASSUME NEW j \in DOMAIN t, j # i - 1 PROVE ~Seeks(t[j])
        <5>1. j + 1 \in DOMAIN u /\ j + 1 # i /\ t[j] = u[j + 1]
              BY <2>1, <4>2
        <5> QED BY <2>3, <5>1
      <4> QED BY <4>1, <4>2 DEF OneAsk
    <3> QED BY <3>1, <3>2
  <2> QED BY <2>1, <2>2, <2>3 DEF OneAsk
<1> QED BY <1>1, <1>2 DEF ReadsOn

\* The start of a session that was made settles.
Settles(l, m) == m = l \/ (l.start = "starting" /\ m.start = "none" /\ m.session \in {0, l.session})

\* What a socket is told that forgets nothing.
Hears(k, es) ==
    /\ es \in Seq(Events) /\ NoForget(es) /\ (es # <<>> => wire[k].alive)
    /\ ReadsOn(wire[k].up, wire'[k].up) /\ wire'[k].alive = wire[k].alive
    /\ wire'[k].down = wire[k].down \o es

LEMMA HearsKeeps ==
  ASSUME LinkInv, LinkTypes', client' = client, NEW k \in Sockets, NEW es, Hears(k, es),
         Settles(link[k], link'[k])
  PROVE  /\ SocketOK(k)'
         /\ Answered(wire[k], link[k].start) => Answered(wire'[k], link'[k].start)
         /\ /\ Knows(k)
            /\ \A i \in DOMAIN es :
                  es[i].of = 0 \/ (Answered(wire[k], link[k].start) /\ link[k].session \in {0, es[i].of})
            => Knows(k)'
<1> DEFINE u == wire[k].up
           d == wire[k].down
           t == wire'[k].up
           c == wire'[k].down
<1>1. /\ wire[k] \in Wires /\ wire'[k] \in Wires /\ link[k] \in Links /\ link'[k] \in Links
      /\ SocketOK(k)
      BY DEF LinkInv, LinkTypes
<1>2. u \in Seq(Commands) /\ d \in Seq(Events) /\ ReadsOn(u, t) /\ es \in Seq(Events) /\ NoForget(es) /\ c = d \o es
      BY <1>1 DEF Hears, Wires
<1>3. /\ \A i \in DOMAIN t : \E j \in DOMAIN u : t[i] = u[j]
      /\ NoAsk(u) => NoAsk(t)
      /\ OneAsk(u) => NoAsk(t) \/ OneAsk(t)
  <2> HIDE DEF u, t, d, c
  <2>1. u \in Seq(Commands) /\ ReadsOn(u, t)
        BY <1>2
  <2> QED BY ONLY <2>1, ReadLess
<1>4. NoForget(d) => NoForget(c)
      BY <1>2, ToldMore
<1>5. OneForget(d) => OneForget(c)
  <2> SUFFICES ASSUME NEW i \in DOMAIN d, \A j \in DOMAIN d : j # i => ~Forgets(d[j])
               PROVE  OneForget(c)
      BY DEF OneForget
  <2>1. i \in DOMAIN c
        BY <1>2
  <2>2. ASSUME NEW j \in DOMAIN c, j # i PROVE ~Forgets(c[j])
    <3>1. (j \in DOMAIN d /\ c[j] = d[j]) \/ \E a \in DOMAIN es : c[j] = es[a]
      <4>1. CASE j \in DOMAIN d
            BY <1>2, <4>1
      <4>2. CASE j \notin DOMAIN d
        <5>1. j - Len(d) \in DOMAIN es /\ c[j] = es[j - Len(d)]
              BY <1>2, <4>2
        <5> QED BY <5>1
      <4> QED BY <4>1, <4>2
    <3> QED BY <1>2, <2>2, <3>1 DEF NoForget
  <2> QED BY <2>1, <2>2 DEF OneForget
<1>6. link'[k].start = link[k].start \/ (link[k].start = "starting" /\ link'[k].start = "none")
      BY DEF Settles
<1>7. Answered(wire[k], link[k].start) => Answered(wire'[k], link'[k].start)
      BY <1>3, <1>4, <1>6 DEF Answered
<1>8. Settles(link[k], link'[k]) /\ link'[k].session \in {0, link[k].session}
      BY DEF Settles
<1>9. link[k].start = "starting" \/ link[k].session # 0 => Answered(wire[k], link[k].start)
      BY <1>1 DEF SocketOK
<1>10. Answered(wire'[k], link'[k].start) \/ (link'[k].start = link[k].start /\ link'[k] = link[k])
      BY <1>7, <1>8, <1>9 DEF Settles
<1>11. AsksOnce(wire'[k], link'[k].start)
  <2>1. AsksOnce(wire[k], link[k].start)
        BY <1>1 DEF SocketOK
  <2>2. CASE Answered(wire'[k], link'[k].start)
        BY <2>2 DEF Answered, AsksOnce
  <2>3. CASE link'[k].start = link[k].start
        BY <1>3, <1>4, <1>5, <2>1, <2>3 DEF AsksOnce
  <2> QED BY <1>10, <2>2, <2>3
<1>12. k > client.used => wire'[k] = NoWire /\ link'[k] = NoLink
  <2> SUFFICES ASSUME k > client.used PROVE wire'[k] = NoWire /\ link'[k] = NoLink
      OBVIOUS
  <2>1. wire[k] = NoWire /\ link[k] = NoLink
        BY <1>1 DEF SocketOK
  <2>2. u = <<>> /\ d = <<>> /\ ~wire[k].alive /\ link[k].start = "none"
        BY <2>1 DEF NoWire, NoLink
  <2>3. t = <<>> /\ es = <<>> /\ wire'[k].alive = FALSE
        BY <1>2, <2>2 DEF ReadsOn, Hears
  <2>4. c = <<>>
        BY <1>2, <2>2, <2>3
  <2>5. wire'[k] = NoWire
        BY <1>1, <2>3, <2>4 DEF NoWire, Wires
  <2> QED BY <2>1, <2>2, <2>5 DEF Settles
<1>13. SocketOK(k)'
  <2>1. \A i \in DOMAIN t : t[i].type = "attach" => t[i].arg \in Sessions
        BY <1>1, <1>3 DEF SocketOK
  <2>2. link'[k].session # 0 \/ link'[k].start = "starting" => Answered(wire'[k], link'[k].start)
        BY <1>7, <1>8, <1>9 DEF Settles
  <2>3. link'[k].start = "starting" => link'[k].mine \in Sessions /\ link'[k].session \in {0, link'[k].mine}
        BY <1>1 DEF Settles, SocketOK
  <2> QED BY <1>11, <1>12, <2>1, <2>2, <2>3 DEF SocketOK
<1>14. ASSUME Knows(k), \A i \in DOMAIN es :
                  es[i].of = 0 \/ (Answered(wire[k], link[k].start) /\ link[k].session \in {0, es[i].of})
       PROVE  Knows(k)'
  <2> HIDE DEF u, t, d, c
  <2>1. ASSUME link'[k].session # 0
        PROVE  /\ client.session \in {0, link'[k].session}
               /\ \A i \in DOMAIN c : c[i].of \in {0, link'[k].session}
    <3> DEFINE S == {0, link[k].session}
    <3>1. link'[k].session = link[k].session /\ link[k].session # 0
          BY <1>8, <2>1
    <3>2. client.session \in S /\ \A i \in DOMAIN d : d[i].of \in S
          BY <1>14, <3>1 DEF Knows, d
    <3>3. \A i \in DOMAIN es : es[i].of \in S
          BY <1>14, <3>1
    <3> HIDE DEF S
    <3>4. \A i \in DOMAIN c : c[i].of \in S
          BY <1>2, <3>2, <3>3, ToldMore
    <3> QED BY <3>1, <3>2, <3>4 DEF S
  <2>2. ASSUME ~Answered(wire'[k], link'[k].start), NEW i \in DOMAIN c
        PROVE  Forgets(c[i]) \/ c[i].of = 0
    <3>1. ~Answered(wire[k], link[k].start)
          BY <1>7, <2>2
    <3>2. (\A j \in DOMAIN d : Forgets(d[j]) \/ d[j].of = 0) /\ \A j \in DOMAIN es : es[j].of = 0
          BY <1>14, <3>1 DEF Knows, d
    <3>3. CASE i \in DOMAIN d
      <4>1. c[i] = d[i]
            BY <1>2, <3>3
      <4> QED BY <3>2, <3>3, <4>1
    <3>4. CASE i \notin DOMAIN d
      <4>1. i - Len(d) \in DOMAIN es /\ c[i] = es[i - Len(d)]
            BY <1>2, <3>4
      <4> QED BY <3>2, <4>1
    <3> QED BY <3>3, <3>4
  <2>3. link'[k].start = "resolving" \/ (\E i \in DOMAIN t : t[i].type = "start") => client.session = 0
        BY <1>3, <1>6, <1>14 DEF Knows, u
  <2>4. \A i \in DOMAIN t : t[i].type = "attach" => t[i].arg = client.session
        BY <1>3, <1>14 DEF Knows, u
  <2> QED BY <2>1, <2>2, <2>3, <2>4 DEF Knows, t, c
<1> QED BY <1>7, <1>13, <1>14

\* A session tells its socket what becomes of it, or that nothing does.
LEMMA SessionSpeaks ==
  ASSUME LinkInv, LinkTypes', client' = client, NEW s \in Sessions, NEW es \in Seq(Events),
         \A k \in Sockets : Hears(k, IF k = sess[s].sink /\ wire[k].alive THEN es ELSE <<>>),
         \A i \in DOMAIN es : es[i].of = s,
         \A k \in Sockets : Settles(link[k], link'[k]) /\ (link'[k] = link[k] \/ link[k].mine = s),
         \A x \in Sessions : x # s => sess'[x] = sess[x],
         sess'[s].sink = sess[s].sink, sess'[s].phase = "new" => sess[s].phase = "new",
         sess'[s].phase # "live" => sess'[s].turn = 0,
         \/ Tells(es, Shown(s)')
         \/ /\ Shown(s)' = Shown(s) /\ ShowsNothing(es)
            /\ \A k \in Sockets : link'[k] = link[k] \/ link'[k].session = 0
  PROVE  LinkInv'
<1>1. ASSUME NEW k \in Sockets
      PROVE  /\ SocketOK(k) /\ wire[k] \in Wires /\ wire[k].down \in Seq(Events) /\ link'[k].session \in {0, link[k].session}
             /\ 0 \notin Sessions /\ \A x \in Sessions : Learns(k, x) /\ RouteOK(x)
  <2>1. wire[k] \in Wires /\ 0 \notin Sessions
        BY DEF LinkInv, LinkTypes, Sessions
  <2> QED BY <2>1 DEF LinkInv, Settles, Wires
<1>2. ASSUME NEW k \in Sockets
      PROVE  /\ SocketOK(k)'
             /\ Answered(wire[k], link[k].start) => Answered(wire'[k], link'[k].start)
             /\ client.socket = k => Knows(k)'
  <2> DEFINE told == IF k = sess[s].sink /\ wire[k].alive THEN es ELSE <<>>
  <2>1. Hears(k, told) /\ Settles(link[k], link'[k])
        OBVIOUS
  <2>2. \A i \in DOMAIN told :
           told[i].of = 0 \/ (Answered(wire[k], link[k].start) /\ link[k].session \in {0, told[i].of})
    <3>1. CASE k = sess[s].sink /\ wire[k].alive
      <4>1. Answered(wire[k], link[k].start) /\ link[k].session \in {0, s}
            BY <1>1, <3>1 DEF RouteOK
      <4> QED BY <3>1, <4>1
    <3>2. CASE ~(k = sess[s].sink /\ wire[k].alive)
          BY <3>2
    <3> QED BY <3>1, <3>2
  <2>3. client.socket = k => Knows(k)
        BY DEF LinkInv
  <2> HIDE DEF told
  <2> QED BY <2>1, <2>2, <2>3, HearsKeeps
<1>3. ASSUME NEW x \in Sessions PROVE RouteOK(x)'
  <2>1. RouteOK(x) /\ RouteOK(s)
        BY DEF LinkInv
  <2>2. sess'[x].sink = sess[x].sink /\ (sess'[x].phase = "new" => sess[x].phase = "new")
        /\ (sess'[x].phase # "live" => sess'[x].turn = 0)
        BY <2>1 DEF RouteOK
  <2>3. ASSUME NEW k \in Sockets, link'[k].session = x PROVE sess'[x].phase # "new"
    <3>1. link[k].session = x
          BY <1>1, <2>3
    <3> QED BY <2>1, <2>2, <3>1 DEF RouteOK
  <2>4. ASSUME NEW k \in Sockets, sess'[x].sink = k
        PROVE  k <= client'.used /\ Answered(wire'[k], link'[k].start) /\ link'[k].session \in {0, x}
    <3>1. k <= client.used /\ Answered(wire[k], link[k].start) /\ link[k].session \in {0, x}
          BY <2>1, <2>2, <2>4 DEF RouteOK
    <3> QED BY <1>1, <1>2, <3>1
  <2> QED BY <2>2, <2>3, <2>4 DEF RouteOK
<1>4. ASSUME NEW k \in Sockets, NEW x \in Sessions PROVE Learns(k, x)'
  <2> SUFFICES ASSUME client.socket = k, link'[k].session = x, sess'[x].sink = k,
                      wire'[k].alive, link'[k].start = "none"
               PROVE  /\ client.session = x \/ \E i \in DOMAIN wire'[k].down : wire'[k].down[i].of = x
                      /\ Ends(wire'[k].down, client.view, Shown(x)')
      BY DEF Learns
  <2>1. link[k].session = x /\ sess[x].sink = k
        BY <1>1
  <2>2. CASE x # s
    <3>1. sess[s].sink # k
          BY <1>1, <2>1, <2>2 DEF RouteOK
    <3>2. wire'[k].down = wire[k].down /\ wire[k].alive /\ Shown(x)' = Shown(x)
      <4>1. Hears(k, <<>>)
            BY <3>1
      <4>2. wire[k].down \o <<>> = wire[k].down
            BY <1>1
      <4> QED BY <2>2, <4>1, <4>2 DEF Hears, Shown
    <3>3. link'[k] = link[k]
      <4>1. link[k].start = "starting" => link[k].session \in {0, link[k].mine}
            BY <1>1 DEF SocketOK
      <4> QED BY <1>1, <2>1, <2>2, <4>1 DEF Settles
    <3> QED BY <1>1, <2>1, <3>2, <3>3 DEF Learns
  <2>3. CASE x = s
    <3>1. wire[k].alive /\ wire'[k].down = wire[k].down \o es
      <4>1. Hears(k, IF wire[k].alive THEN es ELSE <<>>)
            BY <2>1, <2>3
      <4> QED BY <4>1 DEF Hears
    <3>2. CASE Tells(es, Shown(s)')
      <4>1. \E i \in DOMAIN es : es[i].of = s
            BY <3>2 DEF Tells
      <4> DEFINE d == wire[k].down
                 v == Shown(s)'
      <4>2. d \in Seq(Events) /\ Tells(es, v)
            BY <1>1, <3>2
      <4> HIDE DEF d, v
      <4>3. Tells(d \o es, v)
            BY ONLY <4>2, es \in Seq(Events), ToldMore
      <4>4. \E i \in DOMAIN (d \o es) : (d \o es)[i].of = s
        <5>1. PICK i \in DOMAIN es : es[i].of = s
              BY <4>1
        <5> QED BY ONLY <4>2, es \in Seq(Events), <5>1, ToldOf
      <4> QED BY <2>3, <3>1, <4>3, <4>4 DEF Ends, d, v
    <3>3. CASE Shown(s)' = Shown(s) /\ ShowsNothing(es) /\ (link'[k] = link[k] \/ link'[k].session = 0)
      <4>1. link'[k] = link[k]
            BY <1>1, <3>3
      <4>2. /\ client.session = x \/ \E i \in DOMAIN wire[k].down : wire[k].down[i].of = x
            /\ Ends(wire[k].down, client.view, Shown(s)')
            BY <1>1, <2>1, <2>3, <3>1, <3>3, <4>1 DEF Learns
      <4> DEFINE d == wire[k].down
                 v == Shown(s)'
      <4>3. /\ d \in Seq(Events) /\ ShowsNothing(es) /\ Ends(d, client.view, v)
            /\ client.session = s \/ \E i \in DOMAIN d : d[i].of = s
            BY <1>1, <2>3, <3>3, <4>2
      <4> HIDE DEF d, v
      <4>4. /\ Ends(d \o es, client.view, v)
            /\ client.session = s \/ \E i \in DOMAIN (d \o es) : (d \o es)[i].of = s
            BY <4>3, ToldMore
      <4> QED BY <2>3, <3>1, <4>4 DEF d, v
    <3> QED BY <3>2, <3>3
  <2> QED BY <2>2, <2>3
<1> QED BY <1>2, <1>3, <1>4 DEF LinkInv

\* The wires, but for a command that was read.
Read(w) == /\ w \in [Sockets -> Wires]
           /\ \A j \in Sockets : /\ ReadsOn(wire[j].up, w[j].up)
                                 /\ w[j].down = wire[j].down /\ w[j].alive = wire[j].alive

\* Two emissions are one, and one of nothing is none.
LEMMA EmitTwice ==
  ASSUME NEW w \in [Sockets -> Wires], NEW n \in 0..MaxSockets, NEW a \in Seq(Events), NEW b \in Seq(Events)
  PROVE  emit(emit(w, n, a), n, b) = emit(w, n, a \o b) /\ emit(w, n, <<>>) = w
<1>1. CASE n # 0 /\ w[n].alive
  <2>1. n \in Sockets
        BY <1>1, LinkAssumption DEF Sockets
  <2> DEFINE d == w[n].down
             v == [w EXCEPT ![n].down = d \o a]
  <2>2. d \in Seq(Events) /\ w[n] \in Wires
        BY <2>1 DEF Wires
  <2>3. emit(w, n, a) = v /\ emit(w, n, a \o b) = [w EXCEPT ![n].down = d \o (a \o b)]
        /\ emit(w, n, <<>>) = [w EXCEPT ![n].down = d \o <<>>]
        BY <1>1 DEF emit
  <2>4. v[n] = [w[n] EXCEPT !.down = d \o a] /\ v[n].alive /\ v[n].down = d \o a
        BY <1>1, <2>1, <2>2 DEF Wires
  <2>5. emit(v, n, b) = [v EXCEPT ![n].down = (d \o a) \o b]
        BY <1>1, <2>4 DEF emit
  <2>6. (d \o a) \o b = d \o (a \o b) /\ d \o <<>> = d
    <3> HIDE DEF d
    <3>1. d \in Seq(Events)
          BY <2>2
    <3>2. (d \o a) \o b = d \o (a \o b)
          BY ONLY <3>1, a \in Seq(Events), b \in Seq(Events), ConcatAssociative
    <3>3. d \o <<>> = d
          BY ONLY <3>1, ConcatEmptySeq
    <3> QED BY <3>2, <3>3
  <2>7. \A x, y : [[w EXCEPT ![n].down = x] EXCEPT ![n].down = y] = [w EXCEPT ![n].down = y]
        BY <2>1, <2>2 DEF Wires
  <2>8. [w EXCEPT ![n].down = d] = w
        BY <2>1, <2>2 DEF Wires
  <2>9. emit(emit(w, n, a), n, b) = [w EXCEPT ![n].down = (d \o a) \o b]
        BY <2>3, <2>5, <2>7
  <2> HIDE DEF d
  <2> QED BY <2>3, <2>6, <2>8, <2>9
<1>2. CASE ~(n # 0 /\ w[n].alive)
      BY <1>2 DEF emit
<1> QED BY <1>1, <1>2

LEMMA HearsFrom ==
  ASSUME LinkInv, NEW w, Read(w), NEW n \in 0..MaxSockets, NEW es \in Seq(Events), NoForget(es),
         wire' = emit(w, n, es)
  PROVE  /\ wire' \in [Sockets -> Wires]
         /\ \A k \in Sockets : Hears(k, IF k = n /\ wire[k].alive THEN es ELSE <<>>)
<1>1. /\ wire' \in [Sockets -> Wires]
      /\ \A j \in Sockets : wire'[j].up = w[j].up /\ wire'[j].alive = w[j].alive
      /\ \A j \in Sockets : wire'[j].down = IF j = n /\ w[j].alive THEN w[j].down \o es ELSE w[j].down
      BY EmitIs DEF Read
<1>2. ASSUME NEW k \in Sockets PROVE Hears(k, IF k = n /\ wire[k].alive THEN es ELSE <<>>)
  <2>1. wire[k].down \in Seq(Events) /\ NoForget(<<>>)
        BY DEF LinkInv, LinkTypes, Wires, NoForget
  <2>2. /\ ReadsOn(wire[k].up, wire'[k].up) /\ wire'[k].alive = wire[k].alive
        /\ wire'[k].down = IF k = n /\ wire[k].alive THEN wire[k].down \o es ELSE wire[k].down
        BY <1>1 DEF Read
  <2>3. CASE k = n /\ wire[k].alive
        BY <2>2, <2>3 DEF Hears
  <2>4. CASE ~(k = n /\ wire[k].alive)
    <3> DEFINE d == wire[k].down
    <3>1. d \o <<>> = d
      <4>1. d \in Seq(Events)
            BY <2>1
      <4> HIDE DEF d
      <4> QED BY ONLY <4>1, ConcatEmptySeq
    <3>2. wire'[k].down = d
          BY <2>2, <2>4
    <3>3. wire'[k].down = d \o <<>>
          BY ONLY <3>1, <3>2
    <3>4. Hears(k, <<>>)
      <4>1. <<>> \in Seq(Events)
            OBVIOUS
      <4> QED BY <2>1, <2>2, <3>3, <4>1 DEF Hears
    <3> QED BY <2>4, <3>4
  <2> QED BY <2>3, <2>4
<1> QED BY <1>1, <1>2

\* What is said of a session.
LEMMA Words ==
  ASSUME NEW s \in 0..MaxSessions, NEW t \in {"accepted", "rejected", "media.config"}, NEW v \in Views
  PROVE  /\ <<Event(t, s)>> \in Seq(Events) /\ NoForget(<<Event(t, s)>>) /\ ShowsNothing(<<Event(t, s)>>)
         /\ \A i \in DOMAIN <<Event(t, s)>> : <<Event(t, s)>>[i].of = s
         /\ LET e == <<Event(t, s), Showing(s, v.turn, v.dead)>> IN
            e \in Seq(Events) /\ NoForget(e) /\ Tells(e, v) /\ \A i \in DOMAIN e : e[i].of = s
         /\ LET e == <<Showing(s, v.turn, v.dead)>> IN
            e \in Seq(Events) /\ NoForget(e) /\ Tells(e, v) /\ \A i \in DOMAIN e : e[i].of = s
         /\ <<Event(t, s)>> \o <<Showing(s, v.turn, v.dead)>> = <<Event(t, s), Showing(s, v.turn, v.dead)>>
<1> DEFINE a == Event(t, s)
           b == Showing(s, v.turn, v.dead)
<1>1. a \in Events /\ a.type = t /\ a.of = s /\ a.shows = {} /\ t # "unknown_session"
      BY DEF Event, Events
<1>2. v = [turn |-> v.turn, dead |-> v.dead]
      BY DEF Views
<1>3. b = [type |-> "state", of |-> s, shows |-> {v}]
      BY <1>2 DEF Showing
<1>4. b \in Events /\ b.type = "state" /\ b.of = s /\ b.shows = {v}
  <2> HIDE DEF b
  <2>1. {v} \in {{}} \union {{x} : x \in Views}
        OBVIOUS
  <2> DEFINE S == {v}
  <2>2. S \in {{}} \union {{x} : x \in Views} /\ b = [type |-> "state", of |-> s, shows |-> S]
        BY <1>3, <2>1
  <2> HIDE DEF S
  <2>3. b \in Events /\ b.type = "state" /\ b.of = s /\ b.shows = S
        BY <2>2 DEF Events
  <2> QED BY <2>3 DEF S
<1> HIDE DEF a, b
<1> DEFINE x == <<a>>
           y == <<a, b>>
           z == <<b>>
<1>5. x \in Seq(Events) /\ DOMAIN x = {1} /\ x[1] = a
      BY <1>1
<1>6. y \in Seq(Events) /\ DOMAIN y = {1, 2} /\ y[1] = a /\ y[2] = b
      BY <1>1, <1>4
<1>7. z \in Seq(Events) /\ DOMAIN z = {1} /\ z[1] = b
      BY <1>4
<1>8. x \o z = y
  <2> DEFINE q == x \o z
  <2>1. q \in Seq(Events) /\ Len(q) = 2 /\ q[1] = a /\ q[2] = b
    <3>1. Len(x) = 1 /\ Len(z) = 1
          OBVIOUS
    <3>2. x \in Seq(Events) /\ z \in Seq(Events) /\ x[1] = a /\ z[1] = b
          BY <1>5, <1>7
    <3> HIDE DEF x, z
    <3>3. /\ q \in Seq(Events) /\ Len(q) = Len(x) + Len(z)
          /\ \A i \in 1..(Len(x) + Len(z)) : q[i] = IF i <= Len(x) THEN x[i] ELSE z[i - Len(x)]
          BY <3>2, ConcatProperties
    <3> QED BY <3>1, <3>2, <3>3
  <2>2. Len(y) = 2
        OBVIOUS
  <2> HIDE DEF q, y
  <2>3. \A i \in 1..Len(q) : q[i] = y[i]
        BY <1>6, <2>1
  <2> QED BY <1>6, <2>1, <2>2, <2>3, SeqEqual DEF q
<1> HIDE DEF x, y, z
<1>9. NoForget(x) /\ NoForget(y) /\ NoForget(z) /\ ShowsNothing(x)
      BY <1>1, <1>4, <1>5, <1>6, <1>7 DEF NoForget, Forgets, ShowsNothing
<1>10. Tells(y, v) /\ Tells(z, v)
      BY <1>4, <1>6, <1>7 DEF Tells
<1>11. /\ \A i \in DOMAIN x : x[i].of = s
       /\ \A i \in DOMAIN y : y[i].of = s
       /\ \A i \in DOMAIN z : z[i].of = s
      BY <1>1, <1>4, <1>5, <1>6, <1>7
<1> QED BY <1>5, <1>6, <1>7, <1>8, <1>9, <1>10, <1>11 DEF a, b, x, y, z

\* What a session looks like.
Looks(r) == [turn |-> r.turn, dead |-> r.phase = "stopped"]

\* SessionSpeaks, for a session that becomes r.
LEMMA SpeaksOn ==
  ASSUME LinkInv, client' = client, NEW s \in Sessions, NEW es \in Seq(Events), NoForget(es),
         \A i \in DOMAIN es : es[i].of = s,
         NEW w, Read(w), wire' = emit(w, sess[s].sink, es),
         link' \in [Sockets -> Links],
         \A k \in Sockets : Settles(link[k], link'[k]) /\ (link'[k] = link[k] \/ link[k].mine = s),
         NEW r \in Talks, sess' = [sess EXCEPT ![s] = r], r.sink = sess[s].sink,
         r.phase = "new" => sess[s].phase = "new", r.phase # "live" => r.turn = 0,
         \/ Tells(es, Looks(r))
         \/ /\ Looks(r) = Looks(sess[s]) /\ ShowsNothing(es)
            /\ \A k \in Sockets : link'[k] = link[k] \/ link'[k].session = 0
  PROVE  LinkInv'
<1>1. /\ client \in Clients /\ sess \in [Sessions -> Talks] /\ sess[s].sink \in 0..MaxSockets
  <2>1. client \in Clients /\ sess \in [Sessions -> Talks]
        BY DEF LinkInv, LinkTypes
  <2> QED BY <2>1 DEF Talks
<1>2. /\ wire' \in [Sockets -> Wires]
      /\ \A k \in Sockets : Hears(k, IF k = sess[s].sink /\ wire[k].alive THEN es ELSE <<>>)
      BY <1>1, HearsFrom
<1>3. /\ sess' \in [Sessions -> Talks] /\ sess'[s] = r
      /\ \A x \in Sessions : x # s => sess'[x] = sess[x]
      BY <1>1
<1>4. LinkTypes'
      BY <1>1, <1>2, <1>3 DEF LinkTypes
<1>5. Shown(s)' = Looks(r) /\ Shown(s) = Looks(sess[s])
      BY <1>3 DEF Shown, Looks
<1> QED BY <1>2, <1>3, <1>4, <1>5, SessionSpeaks

\* stop() and what is emitted, with what was emitted before it in the same step.
LEMMA Leaves ==
  ASSUME LinkInv, client' = client, NEW s \in Sessions, NEW a \in Seq(Events), NoForget(a), ShowsNothing(a),
         \A i \in DOMAIN a : a[i].of = s,
         NEW w, Read(w), wire' = LastWords(emit(w, sess[s].sink, a), s),
         sess' = IF Lives(s) THEN [sess EXCEPT ![s] = Stopped(@)] ELSE sess,
         link' \in [Sockets -> Links],
         \A k \in Sockets : Settles(link[k], link'[k])
                            /\ (link'[k] = link[k] \/ (link[k].mine = s /\ link'[k].session = 0))
  PROVE  LinkInv'
<1>1. /\ sess \in [Sessions -> Talks] /\ sess[s] \in Talks /\ sess[s].sink \in 0..MaxSockets /\ RouteOK(s)
      /\ w \in [Sockets -> Wires]
  <2>1. sess \in [Sessions -> Talks] /\ RouteOK(s) /\ w \in [Sockets -> Wires]
        BY DEF LinkInv, LinkTypes, Read
  <2> QED BY <2>1 DEF Talks
<1>2. CASE Lives(s)
  <2> DEFINE v == [turn |-> 0, dead |-> TRUE]
             b == <<Showing(s, v.turn, v.dead)>>
             r == Stopped(sess[s])
  <2>1. s \in 0..MaxSessions /\ v \in Views
        BY LinkAssumption DEF Sessions, Views
  <2>2. b \in Seq(Events) /\ NoForget(b) /\ Tells(b, v) /\ \A i \in DOMAIN b : b[i].of = s
    <3> HIDE DEF v
    <3> QED BY <2>1, Words
  <2>3. wire' = emit(emit(w, sess[s].sink, a), sess[s].sink, b)
        BY <1>2 DEF LastWords
  <2>4. r \in Talks /\ r.sink = sess[s].sink /\ r.phase = "stopped" /\ r.turn = 0
        BY <1>1 DEF Stopped, Talks
  <2>5. sess' = [sess EXCEPT ![s] = r]
        BY <1>2
  <2>6. Looks(r) = v
        BY <2>4 DEF Looks
  <2> HIDE DEF b, v, r
  <2>7. wire' = emit(w, sess[s].sink, a \o b)
        BY <1>1, <2>2, <2>3, EmitTwice
  <2>8. /\ a \o b \in Seq(Events) /\ NoForget(a \o b) /\ Tells(a \o b, v)
        BY <2>2, ToldMore
  <2>9. \A i \in DOMAIN (a \o b) : (a \o b)[i].of = s
    <3>1. \A i \in DOMAIN (a \o b) : (a \o b)[i].of \in {s}
      <4>1. (\A i \in DOMAIN a : a[i].of \in {s}) /\ (\A i \in DOMAIN b : b[i].of \in {s})
            BY <2>2
      <4> QED BY ONLY <4>1, <2>2, a \in Seq(Events), ToldMore
    <3> QED BY <3>1
  <2> DEFINE es == a \o b
  <2> HIDE DEF es
  <2>10. es \in Seq(Events) /\ NoForget(es) /\ Tells(es, Looks(r)) /\ wire' = emit(w, sess[s].sink, es)
         /\ \A i \in DOMAIN es : es[i].of = s
         BY <2>6, <2>7, <2>8, <2>9 DEF es
  <2> QED BY <2>4, <2>5, <2>10, SpeaksOn
<1>3. CASE ~Lives(s)
  <2> DEFINE r == sess[s]
  <2>1. wire' = emit(w, sess[s].sink, a) /\ sess' = sess
        BY <1>3 DEF LastWords
  <2>2. r \in Talks /\ r.phase # "live" => r.turn = 0
        BY <1>1 DEF RouteOK
  <2>3. sess' = [sess EXCEPT ![s] = r] /\ r \in Talks /\ r.sink = sess[s].sink /\ r.phase = sess[s].phase
        /\ Looks(r) = Looks(sess[s])
        BY <1>1, <2>1
  <2> HIDE DEF r
  <2> QED BY <1>1, <2>1, <2>2, <2>3, SpeaksOn
<1> QED BY <1>2, <1>3

LEMMA Unread ==
  ASSUME LinkInv
  PROVE  Read(wire) /\ \A l : Settles(l, l)
BY DEF LinkInv, LinkTypes, Read, ReadsOn, Settles

\* A command is taken off its wire.
LEMMA ReadOne ==
  ASSUME LinkInv, NEW k \in Sockets, wire[k].up # <<>>
  PROVE  LET w == [wire EXCEPT ![k].up = Tail(@)] IN
         /\ Read(w) /\ w[k].up = Tail(wire[k].up) /\ \A j \in Sockets : j # k => w[j] = wire[j]
         /\ Head(wire[k].up) \in Commands
         /\ \E i \in DOMAIN wire[k].up : Head(wire[k].up) = wire[k].up[i]
<1>1. wire \in [Sockets -> Wires] /\ wire[k] \in Wires
      BY DEF LinkInv, LinkTypes
<1> DEFINE t == Tail(wire[k].up)
           q == [wire[k] EXCEPT !.up = t]
           w == [wire EXCEPT ![k].up = Tail(@)]
<1>2. wire[k].up \in Seq(Commands)
      BY <1>1 DEF Wires
<1>3. t \in Seq(Commands) /\ Head(wire[k].up) \in Commands /\ 1 \in DOMAIN wire[k].up /\ Head(wire[k].up) = wire[k].up[1]
      BY <1>2
<1>4. w = [wire EXCEPT ![k] = q]
      OBVIOUS
<1>5. q \in Wires /\ q.up = t /\ q.down = wire[k].down /\ q.alive = wire[k].alive
  <2> HIDE DEF t
  <2> QED BY <1>1, <1>3 DEF Wires
<1> HIDE DEF q, w
<1>6. w \in [Sockets -> Wires] /\ w[k] = q /\ \A j \in Sockets : j # k => w[j] = wire[j]
      BY <1>1, <1>4, <1>5
<1>7. Read(w)
      BY <1>5, <1>6 DEF Read, ReadsOn
<1> QED BY <1>3, <1>5, <1>6, <1>7 DEF w

LEMMA SessionSteps ==
  ASSUME LinkInv, NEW s \in Sessions, TurnStarts(s) \/ TurnEnds(s) \/ EndsItself(s) \/ GraceFires(s)
  PROVE  LinkInv'
<1>1. /\ sess[s] \in Talks /\ RouteOK(s) /\ s \in 0..MaxSessions /\ link \in [Sockets -> Links]
      /\ sess[s].sink \in 0..MaxSockets /\ wire \in [Sockets -> Wires]
  <2>1. sess[s] \in Talks
        BY DEF LinkInv, LinkTypes
  <2> QED BY <2>1, LinkAssumption DEF LinkInv, LinkTypes, Sessions, Talks
<1>2. client' = client /\ link' = link /\ Read(wire) /\ \A l : Settles(l, l)
      BY Unread DEF TurnStarts, TurnEnds, EndsItself, GraceFires
<1>3. CASE EndsItself(s) \/ GraceFires(s)
  <2>1. sess' = (IF Lives(s) THEN [sess EXCEPT ![s] = Stopped(@)] ELSE sess) /\ wire' = LastWords(wire, s)
        BY <1>3 DEF EndsItself, GraceFires, stop
  <2> DEFINE a == <<>>
  <2>2. a \in Seq(Events) /\ NoForget(a) /\ ShowsNothing(a) /\ \A i \in DOMAIN a : a[i].of = s
        BY DEF NoForget, ShowsNothing
  <2>3. emit(wire, sess[s].sink, a) = wire
    <3> HIDE DEF a
    <3>1. emit(wire, sess[s].sink, <<>>) = wire
          BY <1>1, <2>2, EmitTwice
    <3> QED BY <3>1 DEF a
  <2> HIDE DEF a
  <2>4. wire' = LastWords(emit(wire, sess[s].sink, a), s)
        BY <2>1, <2>3
  <2> QED BY <1>1, <1>2, <2>1, <2>2, <2>4, Leaves
<1>4. ASSUME NEW t \in Nat, sess[s].phase # "stopped", sess[s].phase = "live" \/ t = 0,
             sess' = [sess EXCEPT ![s] = InTurn(@, t)],
             wire' = emit(wire, sess[s].sink, <<Showing(s, t, FALSE)>>)
      PROVE  LinkInv'
  <2> DEFINE v == [turn |-> t, dead |-> FALSE]
             es == <<Showing(s, v.turn, v.dead)>>
             r == InTurn(sess[s], t)
  <2>1. v \in Views
        BY DEF Views
  <2>2. es \in Seq(Events) /\ NoForget(es) /\ Tells(es, v) /\ \A i \in DOMAIN es : es[i].of = s
    <3> HIDE DEF v
    <3> QED BY <1>1, <2>1, Words
  <2>3. r \in Talks /\ r.sink = sess[s].sink /\ r.phase = sess[s].phase /\ r.turn = t
    <3> DEFINE n == IF t = 0 THEN sess[s].turns ELSE sess[s].turns + 1
    <3>1. n \in Nat
          BY <1>1 DEF Talks
    <3>2. r = [sess[s] EXCEPT !.turn = t, !.turns = n]
          BY DEF InTurn
    <3> HIDE DEF n
    <3> QED BY <1>1, <3>1, <3>2 DEF Talks
  <2>4. Looks(r) = v
        BY <1>4, <2>3 DEF Looks
  <2>5. sess' = [sess EXCEPT ![s] = r] /\ wire' = emit(wire, sess[s].sink, es)
        BY <1>4
  <2> HIDE DEF es, r, v
  <2> QED BY <1>1, <1>2, <1>4, <2>2, <2>3, <2>4, <2>5, SpeaksOn
<1>5. CASE TurnStarts(s)
  <2>1. sess[s].phase = "live" /\ sess[s].turns + 1 \in Nat
        BY <1>1, <1>5 DEF TurnStarts, MayOpen, Talks
  <2> QED BY <1>4, <1>5, <2>1 DEF TurnStarts
<1>6. CASE TurnEnds(s)
      BY <1>1, <1>4, <1>6 DEF TurnEnds, RouteOK
<1> QED BY <1>3, <1>5, <1>6

\* A command of a socket that has a session.
LEMMA CommandHandled ==
  ASSUME LinkInv, NEW s \in Sessions, NEW w, Read(w), NEW c \in Commands, handleCommand(w, s, c),
         UNCHANGED <<client, link>>
  PROVE  LinkInv'
<1> DEFINE e == sess[s]
           no == <<Event("rejected", s)>>
           yes == <<Event("accepted", s)>>
<1>1. /\ e \in Talks /\ RouteOK(s) /\ s \in 0..MaxSessions /\ link \in [Sockets -> Links]
      /\ e.sink \in 0..MaxSockets /\ sess \in [Sessions -> Talks]
  <2>1. e \in Talks
        BY DEF LinkInv, LinkTypes
  <2> QED BY <2>1, LinkAssumption DEF LinkInv, LinkTypes, Sessions, Talks
<1>2. client' = client /\ link' = link /\ \A l : Settles(l, l)
      BY Unread
<1>3. \A t, d : t \in Nat /\ d \in BOOLEAN => [turn |-> t, dead |-> d] \in Views
      BY DEF Views
<1>4. CASE wire' = emit(w, e.sink, no) /\ UNCHANGED sess
  <2>1. no \in Seq(Events) /\ NoForget(no) /\ ShowsNothing(no) /\ \A i \in DOMAIN no : no[i].of = s
    <3>1. [turn |-> 0, dead |-> FALSE] \in Views
          BY <1>3
    <3> QED BY <1>1, <3>1, Words
  <2>2. sess' = [sess EXCEPT ![s] = e] /\ (e.phase # "live" => e.turn = 0)
        BY <1>1, <1>4 DEF RouteOK
  <2> HIDE DEF no
  <2> QED BY <1>1, <1>2, <1>4, <2>1, <2>2, SpeaksOn
<1>5. ASSUME NEW t \in Nat, e.phase # "stopped", e.phase = "live" \/ t = 0,
             sess' = [sess EXCEPT ![s] = InTurn(@, t)],
             wire' = emit(w, e.sink, <<Event("accepted", s), Showing(s, t, FALSE)>>)
      PROVE  LinkInv'
  <2> DEFINE v == [turn |-> t, dead |-> FALSE]
             es == <<Event("accepted", s), Showing(s, v.turn, v.dead)>>
             r == InTurn(sess[s], t)
  <2>1. v \in Views
        BY <1>3
  <2>2. es \in Seq(Events) /\ NoForget(es) /\ Tells(es, v) /\ \A i \in DOMAIN es : es[i].of = s
    <3> HIDE DEF v
    <3> QED BY <1>1, <2>1, Words
  <2>3. r \in Talks /\ r.sink = sess[s].sink /\ r.phase = sess[s].phase /\ r.turn = t
    <3> DEFINE n == IF t = 0 THEN sess[s].turns ELSE sess[s].turns + 1
    <3>1. n \in Nat
          BY <1>1 DEF Talks
    <3>2. r = [sess[s] EXCEPT !.turn = t, !.turns = n]
          BY DEF InTurn
    <3> HIDE DEF n
    <3> QED BY <1>1, <3>1, <3>2 DEF Talks
  <2>4. Looks(r) = v
        BY <1>5, <2>3 DEF Looks
  <2>5. sess' = [sess EXCEPT ![s] = r] /\ wire' = emit(w, sess[s].sink, es)
        BY <1>5
  <2> HIDE DEF es, r, v
  <2> QED BY <1>1, <1>2, <1>5, <2>2, <2>3, <2>4, <2>5, SpeaksOn
<1>6. CASE /\ sess' = IF Lives(s) THEN [sess EXCEPT ![s] = Stopped(@)] ELSE sess
           /\ wire' = LastWords(emit(w, e.sink, yes), s)
  <2>1. yes \in Seq(Events) /\ NoForget(yes) /\ ShowsNothing(yes) /\ \A i \in DOMAIN yes : yes[i].of = s
    <3>1. [turn |-> 0, dead |-> FALSE] \in Views
          BY <1>3
    <3> QED BY <1>1, <3>1, Words
  <2> HIDE DEF yes
  <2> QED BY <1>1, <1>2, <1>6, <2>1, Leaves
<1>7. e.turns + 1 \in Nat /\ (e.turn # 0 => e.phase = "live")
      BY <1>1 DEF Talks, RouteOK
<1>8. CASE c.type = "text"
  <2>1. \/ /\ MayOpen(e) /\ sess' = [sess EXCEPT ![s] = InTurn(@, e.turns + 1)]
           /\ wire' = emit(w, e.sink, <<Event("accepted", s), Showing(s, e.turns + 1, FALSE)>>)
        \/ wire' = emit(w, e.sink, no) /\ UNCHANGED sess
        BY <1>8 DEF handleCommand
  <2> QED BY <1>4, <1>5, <1>7, <2>1 DEF MayOpen
<1>9. CASE c.type = "interrupt"
  <2>1. \/ /\ e.turn # 0 /\ sess' = [sess EXCEPT ![s] = InTurn(@, 0)]
           /\ wire' = emit(w, e.sink, <<Event("accepted", s), Showing(s, 0, FALSE)>>)
        \/ wire' = emit(w, e.sink, no) /\ UNCHANGED sess
        BY <1>9 DEF handleCommand
  <2> QED BY <1>4, <1>5, <1>7, <2>1
<1>10. CASE c.type = "stop"
       BY <1>6, <1>10 DEF handleCommand
<1>11. CASE c.type \notin {"text", "interrupt", "stop"}
       BY <1>4, <1>11 DEF handleCommand
<1> QED BY <1>8, <1>9, <1>10, <1>11

\* What is started, and what a start comes to.
LEMMA StartsSettle ==
  ASSUME LinkInv, NEW k \in Sockets, Started(k) \/ StartFails(k)
  PROVE  LinkInv'
<1> DEFINE s == link[k].mine
<1>1. /\ link \in [Sockets -> Links] /\ link[k] \in Links /\ sess \in [Sessions -> Talks]
      /\ link[k].start = "starting" /\ s \in Sessions /\ client' = client
  <2>1. link[k].start = "starting" /\ client' = client
        BY DEF Started, StartFails
  <2> QED BY <2>1 DEF LinkInv, LinkTypes, SocketOK
<1>2. /\ sess[s] \in Talks /\ RouteOK(s) /\ s \in 0..MaxSessions /\ Read(wire)
      /\ wire \in [Sockets -> Wires] /\ sess[s].sink \in 0..MaxSockets
  <2>1. sess[s] \in Talks
        BY <1>1
  <2> QED BY <1>1, <2>1, Unread DEF LinkInv, LinkTypes, Talks, Sessions
<1>3. ASSUME NEW n \in {0, link[k].session}, link' = [link EXCEPT ![k] = [link[k] EXCEPT !.start = "none", !.session = n, !.mine = 0]]
      PROVE  /\ link' \in [Sockets -> Links]
             /\ \A j \in Sockets : Settles(link[j], link'[j]) /\ (link'[j] = link[j] \/ link[j].mine = s)
             /\ n = 0 => \A j \in Sockets : link'[j] = link[j] \/ (link[j].mine = s /\ link'[j].session = 0)
  <2> DEFINE m == [link[k] EXCEPT !.start = "none", !.session = n, !.mine = 0]
  <2>1. m \in Links /\ m.start = "none" /\ m.session = n
    <3>1. n \in 0..MaxSessions /\ 0 \in 0..MaxSessions
          BY <1>1, <1>3, LinkAssumption DEF Links
    <3> HIDE DEF s
    <3> QED BY <1>1, <3>1 DEF Links
  <2> HIDE DEF m
  <2>2. link' \in [Sockets -> Links] /\ link'[k] = m /\ \A j \in Sockets : j # k => link'[j] = link[j]
        BY <1>1, <1>3, <2>1 DEF m
  <2> QED BY <1>1, <2>1, <2>2 DEF Settles
<1>4. \A l \in Links : [l EXCEPT !.start = "none", !.mine = 0] = [l EXCEPT !.start = "none", !.session = l.session, !.mine = 0]
      BY DEF Links
<1>5. CASE /\ link' = [link EXCEPT ![k].start = "none", ![k].session = 0, ![k].mine = 0]
           /\ sess' = IF Lives(s) THEN [sess EXCEPT ![s] = Stopped(@)] ELSE sess
           /\ \E a \in {<<>>, <<Event("rejected", s)>>} : wire' = LastWords(emit(wire, sess[s].sink, a), s)
  <2>1. PICK a \in {<<>>, <<Event("rejected", s)>>} : wire' = LastWords(emit(wire, sess[s].sink, a), s)
        BY <1>5
  <2>2. a \in Seq(Events) /\ NoForget(a) /\ ShowsNothing(a) /\ \A i \in DOMAIN a : a[i].of = s
    <3>1. CASE a = <<>>
          BY <3>1 DEF NoForget, ShowsNothing
    <3>2. CASE a = <<Event("rejected", s)>>
      <4>1. [turn |-> 0, dead |-> FALSE] \in Views
            BY DEF Views
      <4> QED BY <1>2, <3>2, <4>1, Words
    <3> QED BY <3>1, <3>2
  <2>3. link' = [link EXCEPT ![k] = [link[k] EXCEPT !.start = "none", !.session = 0, !.mine = 0]]
        BY <1>5
  <2>4. /\ link' \in [Sockets -> Links]
        /\ \A j \in Sockets : Settles(link[j], link'[j])
                              /\ (link'[j] = link[j] \/ (link[j].mine = s /\ link'[j].session = 0))
        BY <1>3, <2>3
  <2> HIDE DEF s
  <2> QED BY <1>1, <1>2, <1>5, <2>1, <2>2, <2>4, Leaves
<1>6. CASE StartFails(k)
      BY <1>5, <1>6 DEF StartFails
<1>7. CASE Started(k) /\ link[k].closed
  <2>1. wire' = LastWords(wire, s)
        BY <1>7 DEF Started, stop
  <2>2. emit(wire, sess[s].sink, <<>>) = wire
    <3> DEFINE a == <<>>
    <3>1. a \in Seq(Events)
          OBVIOUS
    <3> HIDE DEF a, s
    <3> QED BY <1>2, <3>1, EmitTwice
  <2> QED BY <1>5, <1>7, <2>1, <2>2 DEF Started, stop
<1>8. CASE Started(k) /\ ~link[k].closed
  <2> DEFINE v == Shown(s)
             es == <<Event("accepted", s), Showing(s, v.turn, v.dead)>>
             r == [sess[s] EXCEPT !.started = Lives(s)]
  <2>1. v \in Views
        BY <1>2 DEF Shown, Views, Talks
  <2>2. es \in Seq(Events) /\ NoForget(es) /\ Tells(es, v) /\ \A i \in DOMAIN es : es[i].of = s
    <3> HIDE DEF v, s
    <3> QED BY <1>2, <2>1, Words
  <2>3. r \in Talks /\ r.sink = sess[s].sink /\ r.phase = sess[s].phase /\ r.turn = sess[s].turn
    <3>1. Lives(s) \in BOOLEAN
          BY DEF Lives
    <3> HIDE DEF s
    <3> QED BY <1>2, <3>1 DEF Talks
  <2>4. Looks(r) = v /\ (r.phase # "live" => r.turn = 0)
        BY <1>2, <2>3 DEF Looks, Shown, RouteOK
  <2>5. sess' = [sess EXCEPT ![s] = r] /\ wire' = emit(wire, sess[s].sink, es)
        BY <1>8 DEF Started
  <2>6. link' = [link EXCEPT ![k].start = "none", ![k].mine = 0]
        BY <1>8 DEF Started
  <2>7. link' = [link EXCEPT ![k] = [link[k] EXCEPT !.start = "none", !.session = link[k].session, !.mine = 0]]
        BY <1>1, <1>4, <2>6
  <2>8. /\ link' \in [Sockets -> Links]
        /\ \A j \in Sockets : Settles(link[j], link'[j]) /\ (link'[j] = link[j] \/ link[j].mine = s)
        BY <1>3, <2>7
  <2> HIDE DEF s, v, es, r
  <2> QED BY <1>1, <1>2, <2>2, <2>3, <2>4, <2>5, <2>8, SpeaksOn
<1> QED BY <1>6, <1>7, <1>8

\* What is left of events after the first.
LEMMA ToldLess ==
  ASSUME NEW d \in Seq(Events), d # <<>>
  PROVE  /\ Tail(d) \in Seq(Events) /\ Head(d) \in Events
         /\ \A i \in DOMAIN Tail(d) : i + 1 \in DOMAIN d /\ Tail(d)[i] = d[i + 1]
         /\ 1 \in DOMAIN d /\ Head(d) = d[1]
         /\ \A i \in DOMAIN d : i = 1 \/ (i - 1 \in DOMAIN Tail(d) /\ Tail(d)[i - 1] = d[i])
         /\ NoForget(d) => NoForget(Tail(d)) /\ ~Forgets(Head(d))
         /\ OneForget(d) => NoForget(Tail(d)) \/ (~Forgets(Head(d)) /\ OneForget(Tail(d)))
         /\ \A view, v, w : Ends(d, view, v) /\ (w = IF Head(d).shows = {} THEN view ELSE CHOOSE x \in Head(d).shows : TRUE)
                            => Ends(Tail(d), w, v)
<1> DEFINE t == Tail(d)
           h == Head(d)
<1>1. /\ t \in Seq(Events) /\ h \in Events /\ 1 \in DOMAIN d /\ h = d[1]
      /\ DOMAIN t \subseteq Nat /\ DOMAIN d \subseteq Nat \ {0}
      /\ \A i \in DOMAIN t : i + 1 \in DOMAIN d /\ t[i] = d[i + 1]
      /\ \A i \in DOMAIN d : i = 1 \/ (i - 1 \in DOMAIN t /\ t[i - 1] = d[i])
      OBVIOUS
<1> HIDE DEF t, h
<1>2. NoForget(d) => NoForget(t) /\ ~Forgets(h)
      BY <1>1 DEF NoForget
<1>3. ASSUME OneForget(d) PROVE NoForget(t) \/ (~Forgets(h) /\ OneForget(t))
  <2>1. PICK i \in DOMAIN d : \A j \in DOMAIN d : j # i => ~Forgets(d[j])
        BY <1>3 DEF OneForget
  <2>2. CASE i = 1
    <3>1. ASSUME NEW j \in DOMAIN t PROVE ~Forgets(t[j])
      <4>1. j + 1 \in DOMAIN d /\ j + 1 # 1 /\ t[j] = d[j + 1]
        <5>1. j \in Nat /\ j + 1 \in DOMAIN d /\ t[j] = d[j + 1] /\ j # 0
              BY <1>1
        <5> QED BY <5>1
      <4> QED BY <2>1, <2>2, <4>1
    <3> QED BY <3>1 DEF NoForget
  <2>3. CASE i # 1
    <3>1. i - 1 \in DOMAIN t /\ i \in Nat /\ ~Forgets(h)
          BY <1>1, <2>1, <2>3
    <3>2. ASSUME NEW j \in DOMAIN t, j # i - 1 PROVE ~Forgets(t[j])
      <4>1. j \in Nat /\ j + 1 \in DOMAIN d /\ t[j] = d[j + 1]
            BY <1>1
      <4>2. j + 1 # i
            BY <3>1, <3>2, <4>1
      <4> QED BY <2>1, <4>1, <4>2
    <3> QED BY <3>1, <3>2 DEF OneForget
  <2> QED BY <2>2, <2>3
<1>4. ASSUME NEW view, NEW v, NEW w, Ends(d, view, v),
             w = IF h.shows = {} THEN view ELSE CHOOSE x \in h.shows : TRUE
      PROVE  Ends(t, w, v)
  <2>1. CASE ShowsNothing(d) /\ view = v
        BY <1>1, <1>4, <2>1 DEF Ends, ShowsNothing
  <2>2. CASE Tells(d, v)
    <3>1. PICK i \in DOMAIN d : d[i].shows = {v} /\ \A j \in DOMAIN d : j > i => d[j].shows = {}
          BY <2>2 DEF Tells
    <3>2. ASSUME NEW j \in DOMAIN t, i <= j PROVE t[j].shows = {}
      <4>1. j \in Nat /\ i \in Nat /\ j + 1 \in DOMAIN d /\ t[j] = d[j + 1]
            BY <1>1
      <4>2. j + 1 > i
            BY <3>2, <4>1
      <4> QED BY <3>1, <4>1, <4>2
    <3>3. CASE i = 1
      <4>1. w = v
        <5>1. h.shows = {v}
              BY <1>1, <3>1, <3>3
        <5>2. (CHOOSE x \in {v} : TRUE) = v
              OBVIOUS
        <5> QED BY <1>4, <5>1, <5>2
      <4>2. \A j \in DOMAIN t : i <= j
        <5>1. \A j \in DOMAIN t : j \in Nat /\ j + 1 \in DOMAIN d /\ j # 0
              BY <1>1
        <5> QED BY <3>3, <5>1
      <4> QED BY <3>2, <4>1, <4>2 DEF Ends, ShowsNothing
    <3>4. CASE i # 1
      <4>1. i - 1 \in DOMAIN t /\ t[i - 1].shows = {v} /\ i \in Nat
            BY <1>1, <3>1, <3>4
      <4>2. \A j \in DOMAIN t : j > i - 1 => i <= j
        <5>1. \A j \in DOMAIN t : j \in Nat
              BY <1>1
        <5> QED BY <4>1, <5>1
      <4> QED BY <3>2, <4>1, <4>2 DEF Ends, Tells
    <3> QED BY <3>3, <3>4
  <2> QED BY <1>4, <2>1, <2>2 DEF Ends
<1> QED BY <1>1, <1>2, <1>3, <1>4 DEF t, h

\* What is left when a socket breaks.
LEMMA FirstOnes ==
  ASSUME NEW T, NEW u \in Seq(T), NEW n \in 0..Len(u)
  PROVE  LET t == SubSeq(u, 1, n) IN
         /\ t \in Seq(T) /\ \A i \in DOMAIN t : i \in DOMAIN u /\ t[i] = u[i]
         /\ NoAsk(u) => NoAsk(t)
         /\ OneAsk(u) => NoAsk(t) \/ OneAsk(t)
         /\ NoForget(u) => NoForget(t)
         /\ OneForget(u) => NoForget(t) \/ OneForget(t)
<1> DEFINE t == SubSeq(u, 1, n)
<1>1. t \in Seq(T) /\ \A i \in DOMAIN t : i \in DOMAIN u /\ t[i] = u[i]
      OBVIOUS
<1> HIDE DEF t
<1>2. (NoAsk(u) => NoAsk(t)) /\ (NoForget(u) => NoForget(t))
      BY <1>1 DEF NoAsk, NoForget
<1>3. OneAsk(u) => NoAsk(t) \/ OneAsk(t)
  <2> SUFFICES ASSUME NEW i \in DOMAIN u, \A j \in DOMAIN u : j # i => ~Seeks(u[j])
               PROVE  NoAsk(t) \/ OneAsk(t)
      BY DEF OneAsk
  <2>1. CASE i \in DOMAIN t
        BY <1>1, <2>1 DEF OneAsk
  <2>2. CASE i \notin DOMAIN t
        BY <1>1, <2>2 DEF NoAsk
  <2> QED BY <2>1, <2>2
<1>4. OneForget(u) => NoForget(t) \/ OneForget(t)
  <2> SUFFICES ASSUME NEW i \in DOMAIN u, \A j \in DOMAIN u : j # i => ~Forgets(u[j])
               PROVE  NoForget(t) \/ OneForget(t)
      BY DEF OneForget
  <2>1. CASE i \in DOMAIN t
        BY <1>1, <2>1 DEF OneForget
  <2>2. CASE i \notin DOMAIN t
        BY <1>1, <2>2 DEF NoForget
  <2> QED BY <2>1, <2>2
<1> QED BY <1>1, <1>2, <1>3, <1>4 DEF t

\* What is there when a command is sent.
LEMMA OneCommandMore ==
  ASSUME NEW u \in Seq(Commands), NEW c \in Commands
  PROVE  LET t == Append(u, c) IN
         /\ t \in Seq(Commands) /\ \A i \in DOMAIN t : t[i] = c \/ \E j \in DOMAIN u : t[i] = u[j]
         /\ ~Seeks(c) /\ NoAsk(u) => NoAsk(t)
         /\ ~Seeks(c) /\ OneAsk(u) => OneAsk(t)
         /\ NoAsk(u) => OneAsk(t)
<1> DEFINE t == Append(u, c)
<1>1. /\ t \in Seq(Commands) /\ Len(u) \in Nat /\ Len(u) + 1 \in DOMAIN t /\ t[Len(u) + 1] = c
      /\ \A i \in DOMAIN t : i = Len(u) + 1 \/ (i \in DOMAIN u /\ t[i] = u[i])
      /\ \A i \in DOMAIN u : i \in DOMAIN t /\ t[i] = u[i] /\ i # Len(u) + 1
      OBVIOUS
<1> HIDE DEF t
<1>2. ~Seeks(c) /\ NoAsk(u) => NoAsk(t)
      BY <1>1 DEF NoAsk
<1>3. NoAsk(u) => OneAsk(t)
      BY <1>1 DEF NoAsk, OneAsk
<1>4. ASSUME ~Seeks(c), OneAsk(u) PROVE OneAsk(t)
  <2>1. PICK i \in DOMAIN u : \A j \in DOMAIN u : j # i => ~Seeks(u[j])
        BY <1>4 DEF OneAsk
  <2>2. i \in DOMAIN t /\ \A j \in DOMAIN t : j # i => ~Seeks(t[j])
        BY <1>1, <1>4, <2>1
  <2> QED BY <2>2 DEF OneAsk
<1>5. \A i \in DOMAIN t : t[i] = c \/ \E j \in DOMAIN u : t[i] = u[j]
      BY <1>1
<1> QED BY <1>1, <1>2, <1>3, <1>4, <1>5 DEF t

\* The facts about one socket.
LEMMA SocketFacts ==
  ASSUME LinkInv, NEW k \in Sockets
  PROVE  /\ SocketOK(k) /\ wire[k] \in Wires /\ link[k] \in Links /\ (client.socket = k => Knows(k))
         /\ wire[k].up \in Seq(Commands) /\ wire[k].down \in Seq(Events) /\ wire[k].alive \in BOOLEAN
         /\ \A s \in Sessions : RouteOK(s) /\ Learns(k, s)
         /\ wire \in [Sockets -> Wires] /\ link \in [Sockets -> Links] /\ client \in Clients
         /\ sess \in [Sessions -> Talks] /\ client.used \in 0..MaxSockets /\ client.session \in 0..MaxSessions
         /\ 0 \notin Sessions /\ 0 \notin Sockets /\ client.view \in Views
<1>1. /\ LinkTypes /\ SocketOK(k) /\ (client.socket = k => Knows(k))
      /\ \A s \in Sessions : RouteOK(s) /\ Learns(k, s)
      BY DEF LinkInv
<1>2. /\ wire \in [Sockets -> Wires] /\ link \in [Sockets -> Links] /\ client \in Clients
      /\ sess \in [Sessions -> Talks]
      BY <1>1 DEF LinkTypes
<1>3. wire[k] \in Wires /\ link[k] \in Links
      BY <1>2
<1>4. wire[k].up \in Seq(Commands) /\ wire[k].down \in Seq(Events) /\ wire[k].alive \in BOOLEAN
      BY <1>3 DEF Wires
<1>5. client.used \in 0..MaxSockets /\ client.session \in 0..MaxSessions /\ client.view \in Views
      BY <1>2 DEF Clients
<1>6. 0 \notin Sessions /\ 0 \notin Sockets
      BY DEF Sessions, Sockets
<1> QED BY <1>1, <1>2, <1>3, <1>4, <1>5, <1>6

LEMMA BreaksKeeps ==
  ASSUME LinkInv, NEW k \in Sockets, Breaks(k)
  PROVE  LinkInv'
<1> DEFINE u == wire[k].up
           d == wire[k].down
<1>1. PICK m \in 0..Len(u), n \in 0..Len(d) :
         wire' = [wire EXCEPT ![k] = [up |-> SubSeq(u, 1, m), down |-> SubSeq(d, 1, n), alive |-> FALSE]]
      BY DEF Breaks
<1>2. client' = client /\ link' = link /\ sess' = sess /\ wire[k].alive
      BY DEF Breaks
<1> DEFINE t == SubSeq(u, 1, m)
           e == SubSeq(d, 1, n)
<1>3. /\ t \in Seq(Commands) /\ \A i \in DOMAIN t : i \in DOMAIN u /\ t[i] = u[i]
      /\ NoAsk(u) => NoAsk(t)
      /\ OneAsk(u) => NoAsk(t) \/ OneAsk(t)
  <2> HIDE DEF u
  <2>1. u \in Seq(Commands)
        BY SocketFacts DEF u
  <2> QED BY <2>1, FirstOnes
<1>4. /\ e \in Seq(Events) /\ \A i \in DOMAIN e : i \in DOMAIN d /\ e[i] = d[i]
      /\ NoForget(d) => NoForget(e)
      /\ OneForget(d) => NoForget(e) \/ OneForget(e)
  <2> HIDE DEF d
  <2>1. d \in Seq(Events)
        BY SocketFacts DEF d
  <2> QED BY <2>1, FirstOnes
<1> DEFINE x == [up |-> t, down |-> e, alive |-> FALSE]
<1>5. wire' = [wire EXCEPT ![k] = x]
      BY <1>1
<1> HIDE DEF t, e
<1>6. x \in Wires /\ x.up = t /\ x.down = e /\ x.alive = FALSE
      BY <1>3, <1>4 DEF Wires
<1> HIDE DEF x
<1>7. wire' \in [Sockets -> Wires] /\ wire'[k] = x /\ \A j \in Sockets : j # k => wire'[j] = wire[j]
      BY <1>5, <1>6, SocketFacts
<1>8. SocketOK(k) /\ (client.socket = k => Knows(k)) /\ \A s \in Sessions : RouteOK(s)
      BY SocketFacts
<1>9. Answered(wire[k], link[k].start) => Answered(wire'[k], link'[k].start)
      BY <1>2, <1>3, <1>4, <1>6, <1>7 DEF Answered
<1>10. SocketOK(k)'
  <2>1. AsksOnce(wire'[k], link'[k].start)
        BY <1>2, <1>3, <1>4, <1>6, <1>7, <1>8 DEF AsksOnce, SocketOK
  <2>2. ~(k > client.used)
        BY <1>2, <1>8 DEF SocketOK, NoWire
  <2>3. \A i \in DOMAIN t : t[i].type = "attach" => t[i].arg \in Sessions
        BY <1>3, <1>8 DEF SocketOK
  <2> QED BY <1>2, <1>6, <1>7, <1>8, <1>9, <2>1, <2>2, <2>3 DEF SocketOK
<1>11. client.socket = k => Knows(k)'
  <2> SUFFICES ASSUME Knows(k) PROVE Knows(k)'
      BY <1>8
  <2>1. wire'[k].up = t /\ wire'[k].down = e
        BY <1>6, <1>7
  <2>2. link[k].session # 0 =>
           client.session \in {0, link[k].session} /\ \A i \in DOMAIN e : e[i].of \in {0, link[k].session}
        BY <1>4 DEF Knows
  <2>3. ~Answered(wire'[k], link'[k].start) => \A i \in DOMAIN e : Forgets(e[i]) \/ e[i].of = 0
        BY <1>4, <1>9 DEF Knows
  <2>4. link[k].start = "resolving" \/ (\E i \in DOMAIN t : t[i].type = "start") => client.session = 0
        BY <1>3 DEF Knows
  <2>5. \A i \in DOMAIN t : t[i].type = "attach" => t[i].arg = client.session
        BY <1>3 DEF Knows
  <2> QED BY <1>2, <2>1, <2>2, <2>3, <2>4, <2>5 DEF Knows
<1>12. LinkTypes'
       BY <1>2, <1>7, SocketFacts DEF LinkTypes
<1>13. \A s \in Sessions : Learns(k, s)'
       BY <1>6, <1>7 DEF Learns
<1>14. \A s \in Sessions : sess[s].sink = k => Answered(wire'[k], link'[k].start) /\ link'[k].session \in {0, s}
       BY <1>2, <1>8, <1>9 DEF RouteOK
<1> QED BY <1>2, <1>7, <1>10, <1>11, <1>12, <1>13, <1>14, OneSocket

\* The client opens a socket.
LEMMA ConnectKeeps ==
  ASSUME LinkInv, connect, NEW k \in Sockets, k = client.used + 1
  PROVE  LinkInv'
<1> DEFINE x == [up |-> <<Hello>>, down |-> <<>>, alive |-> TRUE]
<1>1. /\ client \in Clients /\ client.used \in Nat /\ client.used < MaxSockets /\ client.session \in 0..MaxSessions
      /\ link' = link /\ sess' = sess /\ client.socket = 0
      /\ client' = [client EXCEPT !.socket = k, !.used = k] /\ wire' = [wire EXCEPT ![k] = x]
      BY LinkAssumption DEF LinkInv, LinkTypes, Clients, connect, Sockets
<1>2. k \in Sockets /\ k > client.used /\ k \in 0..MaxSockets
      BY <1>1, LinkAssumption DEF Sockets
<1>3. Hello \in Commands /\ Seeks(Hello) /\ (Hello.type = "attach" => Hello.arg = client.session /\ client.session # 0)
      /\ (Hello.type = "start" => client.session = 0)
  <2>1. client.session \in Nat
        BY <1>1, LinkAssumption
  <2> QED BY <2>1 DEF Hello, Command, Commands, Seeks
<1> DEFINE u == <<Hello>>
           d == <<>>
<1>4. u \in Seq(Commands) /\ DOMAIN u = {1} /\ u[1] = Hello
      BY <1>3
<1>5. d \in Seq(Events) /\ DOMAIN d = {}
      OBVIOUS
<1> HIDE DEF u, d
<1>6. x = [up |-> u, down |-> d, alive |-> TRUE]
      BY DEF u, d
<1>7. x \in Wires /\ x.up = u /\ x.down = d
      BY <1>4, <1>5, <1>6 DEF Wires
<1> HIDE DEF x
<1>8. /\ wire' \in [Sockets -> Wires] /\ wire'[k] = x /\ \A j \in Sockets : j # k => wire'[j] = wire[j]
      BY <1>1, <1>2, <1>7, SocketFacts
<1>9. link[k] = NoLink /\ link[k].session = 0 /\ link[k].start = "none"
  <2>1. SocketOK(k)
        BY <1>2, SocketFacts
  <2> QED BY <1>2, <2>1 DEF SocketOK, NoLink
<1>10. client' \in Clients /\ client'.socket = k /\ client'.used = k /\ client'.session = client.session
       BY <1>1, <1>2 DEF Clients
<1>11. SocketOK(k)'
  <2>1. OneAsk(u) /\ NoForget(d)
        BY <1>4, <1>5 DEF OneAsk, NoForget
  <2>2. \A i \in DOMAIN u : u[i].type = "attach" => u[i].arg \in Sessions
        BY <1>1, <1>3, <1>4, LinkAssumption DEF Sessions
  <2>3. ~(k > client'.used)
        BY <1>1, <1>10
  <2> QED BY <1>1, <1>7, <1>8, <1>9, <2>1, <2>2, <2>3 DEF SocketOK, AsksOnce
<1>12. Knows(k)'
  <2>1. \A i \in DOMAIN u : /\ u[i].type = "start" => client.session = 0
                            /\ u[i].type = "attach" => u[i].arg = client.session
        BY <1>3, <1>4
  <2> QED BY <1>1, <1>5, <1>7, <1>8, <1>9, <1>10, <2>1 DEF Knows
<1>13. \A s \in Sessions : sess[s].sink # k
  <2> SUFFICES ASSUME NEW s \in Sessions, sess[s].sink = k PROVE FALSE
      OBVIOUS
  <2>1. RouteOK(s)
        BY <1>2, SocketFacts
  <2>2. k <= client.used
        BY <1>2, <2>1 DEF RouteOK
  <2> QED BY <1>1, <2>2
<1>14. \A s \in Sessions : Learns(k, s)'
  <2>1. \A s \in Sessions : link'[k].session # s
        BY <1>1, <1>2, <1>9, SocketFacts
  <2> QED BY <2>1 DEF Learns
<1>15. LinkTypes'
       BY <1>1, <1>2, <1>8, <1>10, SocketFacts DEF LinkTypes
<1>16. client.used <= client'.used /\ client'.socket <= client'.used
       BY <1>1, <1>10
<1>17. link'[k].session \in {0, link[k].session}
       BY <1>1
<1> QED BY <1>1, <1>2, <1>8, <1>10, <1>11, <1>12, <1>13, <1>14, <1>15, <1>16, <1>17, OneSocket

\* The client reads an event.
LEMMA OnMessageKeeps ==
  ASSUME LinkInv, onMessage, NEW k \in Sockets, client.socket = k
  PROVE  LinkInv'
<1> DEFINE d == wire[k].down
           u == wire[k].up
           e == Head(d)
           v == IF e.shows = {} THEN client.view ELSE CHOOSE x \in e.shows : TRUE
<1>1. k \in Sockets /\ d # <<>> /\ link' = link /\ sess' = sess
      BY DEF onMessage
<1>2. /\ SocketOK(k) /\ Knows(k) /\ wire[k] \in Wires /\ link[k] \in Links /\ u \in Seq(Commands) /\ d \in Seq(Events)
      /\ client.view \in Views
      /\ wire[k].alive \in BOOLEAN /\ client \in Clients /\ client.session \in 0..MaxSessions /\ client.used \in 0..MaxSockets
      /\ wire \in [Sockets -> Wires] /\ link \in [Sockets -> Links] /\ sess \in [Sessions -> Talks] /\ 0 \notin Sessions
      BY <1>1, SocketFacts
<1>3. /\ Tail(d) \in Seq(Events) /\ e \in Events
      /\ \A i \in DOMAIN Tail(d) : i + 1 \in DOMAIN d /\ Tail(d)[i] = d[i + 1]
      /\ 1 \in DOMAIN d /\ e = d[1]
      /\ \A i \in DOMAIN d : i = 1 \/ (i - 1 \in DOMAIN Tail(d) /\ Tail(d)[i - 1] = d[i])
      /\ NoForget(d) => NoForget(Tail(d)) /\ ~Forgets(e)
      /\ OneForget(d) => NoForget(Tail(d)) \/ (~Forgets(e) /\ OneForget(Tail(d)))
  <2> HIDE DEF d
  <2>1. d \in Seq(Events) /\ d # <<>>
        BY <1>1, <1>2
  <2> QED BY ONLY <2>1, ToldLess
<1> DEFINE t == Tail(d)
<1>4. \A s \in Sessions : Ends(d, client.view, Shown(s)) => Ends(t, v, Shown(s))
  <2> HIDE DEF d
  <2>1. d \in Seq(Events) /\ d # <<>>
        BY <1>1, <1>2
  <2> QED BY <2>1, ToldLess
<1>5. v \in Views
  <2>1. e.shows \in {{}} \union {{x} : x \in Views}
        BY <1>3 DEF Events
  <2>2. CASE e.shows = {}
        BY <1>2, <2>2
  <2>3. CASE e.shows # {}
    <3>1. PICK x \in Views : e.shows = {x}
          BY <2>1, <2>3
    <3>2. (CHOOSE y \in {x} : TRUE) = x
          OBVIOUS
    <3> QED BY <2>3, <3>1, <3>2
  <2> QED BY <2>2, <2>3
<1>6. e.of \in 0..MaxSessions
      BY <1>3 DEF Events
<1> HIDE DEF t, v, e
<1> DEFINE n == IF Forgets(e) THEN 0 ELSE IF client.session = 0 THEN e.of ELSE client.session
           read == [wire EXCEPT ![k].down = Tail(@)]
           r == [wire[k] EXCEPT !.down = t]
<1>7. /\ client' = [client EXCEPT !.session = n, !.view = v]
      /\ wire' = IF Forgets(e) THEN Up(read, k, Command("start", 0)) ELSE read
      BY DEF onMessage, Forgets, e, d, v
<1>8. n \in 0..MaxSessions
      BY <1>2, <1>6, LinkAssumption
<1> HIDE DEF n
<1>9. /\ client' \in Clients /\ client'.session = n /\ client'.view = v /\ client'.used = client.used /\ client'.socket = k
      BY <1>2, <1>5, <1>7, <1>8 DEF Clients
<1>10. /\ read = [wire EXCEPT ![k] = r] /\ r \in Wires /\ r.up = u /\ r.down = t /\ r.alive = wire[k].alive
  <2>1. read = [wire EXCEPT ![k] = r]
        BY DEF t
  <2>2. t \in Seq(Events)
        BY <1>3 DEF t
  <2> QED BY <1>2, <2>1, <2>2 DEF Wires
<1> HIDE DEF r
<1>11. read \in [Sockets -> Wires] /\ read[k] = r /\ \A j \in Sockets : j # k => read[j] = wire[j]
       BY <1>1, <1>2, <1>10
<1> HIDE DEF read
<1>12. PICK x \in Wires : /\ wire' \in [Sockets -> Wires] /\ wire'[k] = x /\ \A j \in Sockets : j # k => wire'[j] = wire[j]
                          /\ x.down = t /\ x.alive = wire[k].alive
                          /\ IF Forgets(e) /\ wire[k].alive THEN x.up = Append(u, Command("start", 0)) ELSE x.up = u
  <2>1. CASE ~(Forgets(e) /\ wire[k].alive)
    <3>1. wire' = read
          BY <1>7, <1>10, <1>11, <2>1 DEF Up
    <3> QED BY <1>10, <1>11, <2>1, <3>1
  <2>2. CASE Forgets(e) /\ wire[k].alive
    <3> DEFINE a == Append(u, Command("start", 0))
               x == [r EXCEPT !.up = a]
    <3>1. a \in Seq(Commands)
      <4>1. Command("start", 0) \in Commands
            BY DEF Command, Commands
      <4> QED BY <1>2, <4>1
    <3>2. wire' = [read EXCEPT ![k].up = a]
          BY <1>7, <1>10, <1>11, <2>2 DEF Up
    <3>3. wire' = [read EXCEPT ![k] = x]
          BY <1>11, <3>2
    <3> HIDE DEF a
    <3>4. x \in Wires /\ x.up = a /\ x.down = t /\ x.alive = wire[k].alive
          BY <1>10, <3>1 DEF Wires
    <3> HIDE DEF x
    <3> QED BY <1>1, <1>11, <2>2, <3>3, <3>4 DEF a
  <2> QED BY <2>1, <2>2
<1>13. k <= client.used
       BY DEF LinkInv
<1>14. ASSUME ~Forgets(e) PROVE LinkInv'
  <2>1. x.up = u /\ (NoForget(d) => NoForget(t)) /\ (OneForget(d) => NoForget(t) \/ OneForget(t))
        BY <1>3, <1>12, <1>14 DEF t
  <2>2. Answered(wire[k], link[k].start) => Answered(wire'[k], link'[k].start)
        BY <1>1, <1>12, <2>1 DEF Answered
  <2>3. SocketOK(k)'
    <3>1. AsksOnce(wire'[k], link'[k].start)
          BY <1>1, <1>2, <1>12, <2>1 DEF AsksOnce, SocketOK
    <3>2. ~(k > client'.used)
          BY <1>1, <1>2, <1>9, <1>13, LinkAssumption DEF Sockets
    <3> QED BY <1>1, <1>2, <1>12, <2>1, <2>2, <3>1, <3>2 DEF SocketOK
  <2>4. n = IF client.session = 0 THEN e.of ELSE client.session
        BY <1>14 DEF n
  <2>5. Knows(k)'
    <3>1. ASSUME link[k].session # 0
          PROVE  n \in {0, link[k].session} /\ \A i \in DOMAIN t : t[i].of \in {0, link[k].session}
      <4>1. client.session \in {0, link[k].session} /\ \A i \in DOMAIN d : d[i].of \in {0, link[k].session}
            BY <1>2, <3>1 DEF Knows
      <4> QED BY <1>3, <2>4, <4>1 DEF t
    <3>2. ASSUME ~Answered(wire'[k], link'[k].start) PROVE \A i \in DOMAIN t : Forgets(t[i]) \/ t[i].of = 0
      <4>1. \A i \in DOMAIN d : Forgets(d[i]) \/ d[i].of = 0
            BY <1>2, <2>2, <3>2 DEF Knows
      <4> QED BY <1>3, <4>1 DEF t
    <3>3. ASSUME link[k].start = "resolving" \/ (\E i \in DOMAIN u : u[i].type = "start") PROVE n = 0
      <4>1. client.session = 0 /\ ~Answered(wire[k], link[k].start)
            BY <1>2, <3>3 DEF Knows, Answered, NoAsk, Seeks
      <4>2. Forgets(e) \/ e.of = 0
            BY <1>2, <1>3, <4>1 DEF Knows
      <4> QED BY <1>14, <2>4, <4>1, <4>2
    <3>4. ASSUME NEW i \in DOMAIN u, u[i].type = "attach" PROVE u[i].arg = n
      <4>1. u[i].arg = client.session /\ u[i].arg \in Sessions
            BY <1>2, <3>4 DEF Knows, SocketOK
      <4> QED BY <1>2, <2>4, <4>1
    <3> QED BY <1>1, <1>9, <1>12, <2>1, <3>1, <3>2, <3>3, <3>4 DEF Knows
  <2>6. ASSUME NEW s \in Sessions PROVE Learns(k, s)'
    <3> SUFFICES ASSUME link[k].session = s, sess[s].sink = k, wire[k].alive, link[k].start = "none"
                 PROVE  /\ n = s \/ \E i \in DOMAIN t : t[i].of = s
                        /\ Ends(t, v, Shown(s))
        BY <1>1, <1>9, <1>12 DEF Learns, Shown
    <3>1. /\ client.session = s \/ \E i \in DOMAIN d : d[i].of = s
          /\ Ends(d, client.view, Shown(s))
          BY <1>1, SocketFacts DEF Learns
    <3>2. client.session \in {0, s} /\ s # 0
          BY <1>2 DEF Knows
    <3>3. n = s \/ \E i \in DOMAIN t : t[i].of = s
      <4>1. CASE client.session = s
            BY <2>4, <3>2, <4>1
      <4>2. CASE client.session # s
        <5>1. PICK i \in DOMAIN d : d[i].of = s
              BY <3>1, <4>2
        <5>2. CASE i = 1
              BY <1>3, <2>4, <3>2, <4>2, <5>1, <5>2
        <5>3. CASE i # 1
          <6>1. i - 1 \in DOMAIN t /\ t[i - 1].of = s
                BY <1>3, <5>1, <5>3 DEF t
          <6> QED BY <6>1
        <5> QED BY <5>2, <5>3
      <4> QED BY <4>1, <4>2
    <3> QED BY <1>4, <3>1, <3>3
  <2>7. LinkTypes'
        BY <1>1, <1>2, <1>9, <1>12 DEF LinkTypes
  <2>8. \A s \in Sessions : sess[s].sink = k => Answered(wire'[k], link'[k].start) /\ link'[k].session \in {0, s}
        BY <1>1, <2>2, SocketFacts DEF RouteOK
  <2>9. client.used <= client'.used /\ client'.socket <= client'.used /\ link'[k].session \in {0, link[k].session}
        BY <1>1, <1>2, <1>9, <1>13, LinkAssumption
  <2> QED BY <1>1, <1>9, <1>12, <2>3, <2>5, <2>6, <2>7, <2>8, <2>9, OneSocket
<1>15. ASSUME Forgets(e) PROVE LinkInv'
  <2>1. ~NoForget(d)
        BY <1>3, <1>15 DEF NoForget
  <2>2. link[k].start = "none" /\ NoAsk(u) /\ NoForget(t) /\ ~Answered(wire[k], link[k].start)
        BY <1>2, <1>3, <1>15, <2>1 DEF SocketOK, AsksOnce, Answered, t
  <2>3. link[k].session = 0 /\ n = 0
        BY <1>2, <1>15, <2>2 DEF SocketOK, n
  <2>4. /\ NoAsk(x.up) \/ OneAsk(x.up)
        /\ \A i \in DOMAIN x.up : x.up[i].type # "attach"
    <3> DEFINE c == Command("start", 0)
    <3>1. c \in Commands /\ c.type = "start"
          BY DEF Command, Commands
    <3> HIDE DEF c
    <3>2. \A i \in DOMAIN u : u[i].type # "attach"
          BY <2>2 DEF NoAsk, Seeks
    <3>3. CASE x.up = u
          BY <2>2, <3>2, <3>3
    <3>4. CASE x.up = Append(u, c)
      <4> HIDE DEF u
      <4>1. OneAsk(x.up) /\ \A i \in DOMAIN x.up : x.up[i] = c \/ \E j \in DOMAIN u : x.up[i] = u[j]
            BY <1>2, <2>2, <3>1, <3>4, OneCommandMore
      <4> QED BY <3>1, <3>2, <4>1
    <3> QED BY <1>12, <3>3, <3>4 DEF c
  <2>5. SocketOK(k)'
    <3>1. AsksOnce(wire'[k], link'[k].start)
          BY <1>1, <1>12, <2>2, <2>4 DEF AsksOnce
    <3>2. ~(k > client'.used)
          BY <1>1, <1>2, <1>9, <1>13, LinkAssumption DEF Sockets
    <3> QED BY <1>1, <1>12, <2>2, <2>3, <2>4, <3>1, <3>2 DEF SocketOK
  <2>6. Knows(k)'
    <3>1. \A i \in DOMAIN t : Forgets(t[i]) \/ t[i].of = 0
          BY <1>2, <1>3, <2>2 DEF Knows, t
    <3> QED BY <1>1, <1>9, <1>12, <2>3, <2>4, <3>1 DEF Knows
  <2>7. \A s \in Sessions : Learns(k, s)'
        BY <1>1, <1>2, <2>3 DEF Learns
  <2>8. LinkTypes'
        BY <1>1, <1>2, <1>9, <1>12 DEF LinkTypes
  <2>9. \A s \in Sessions : sess[s].sink # k
        BY <1>1, <2>2, SocketFacts DEF RouteOK
  <2>10. client.used <= client'.used /\ client'.socket <= client'.used /\ link'[k].session \in {0, link[k].session}
         BY <1>1, <1>2, <1>9, <1>13, LinkAssumption
  <2> QED BY <1>1, <1>9, <1>12, <2>5, <2>6, <2>7, <2>8, <2>9, <2>10, OneSocket
<1> QED BY <1>14, <1>15

\* The client learns that its socket closed.
LEMMA OnCloseKeeps ==
  ASSUME LinkInv, onClose, NEW k \in Sockets, client.socket = k
  PROVE  LinkInv'
<1>1. /\ wire' = wire /\ link' = link /\ sess' = sess /\ client \in Clients /\ client' = [client EXCEPT !.socket = 0]
      BY SocketFacts DEF onClose
<1>2. /\ client' \in Clients /\ client'.socket = 0 /\ client'.used = client.used /\ 0 \in 0..MaxSockets
      BY <1>1, LinkAssumption DEF Clients
<1>3. SocketOK(k)'
      BY <1>1, <1>2, SocketFacts DEF SocketOK
<1>4. /\ LinkTypes' /\ client.used <= client'.used /\ client'.socket <= client'.used
      BY <1>1, <1>2, SocketFacts DEF LinkTypes
<1>5. \A s \in Sessions : sess[s].sink = k => Answered(wire'[k], link'[k].start) /\ link'[k].session \in {0, s}
      BY <1>1, SocketFacts DEF RouteOK
<1>6. client'.socket # k
      BY <1>2, SocketFacts
<1>7. \A s \in Sessions : Learns(k, s)'
      BY <1>6 DEF Learns
<1> QED BY <1>1, <1>2, <1>3, <1>4, <1>5, <1>6, <1>7, OneSocket

\* A command that asks for no session goes out on k, where it still can: what is then said of k.
LEMMA SentOn ==
  ASSUME LinkInv, NEW k \in Sockets, NEW c \in Commands, ~Seeks(c)
  PROVE  LET w == Up(wire, k, c) IN
         /\ w \in [Sockets -> Wires] /\ \A j \in Sockets : j # k => w[j] = wire[j]
         /\ w[k].down = wire[k].down /\ w[k].alive = wire[k].alive
         /\ AsksOnce(w[k], link[k].start)
         /\ Answered(wire[k], link[k].start) <=> Answered(w[k], link[k].start)
         /\ \A i \in DOMAIN w[k].up : ~Seeks(w[k].up[i]) \/ \E j \in DOMAIN wire[k].up : w[k].up[i] = wire[k].up[j]
<1> DEFINE w == Up(wire, k, c)
           u == wire[k].up
           t == Append(u, c)
           x == [wire[k] EXCEPT !.up = t]
<1>1. /\ wire \in [Sockets -> Wires] /\ wire[k] \in Wires /\ u \in Seq(Commands) /\ AsksOnce(wire[k], link[k].start)
      BY SocketFacts DEF SocketOK
<1>2. /\ t \in Seq(Commands) /\ \A i \in DOMAIN t : t[i] = c \/ \E j \in DOMAIN u : t[i] = u[j]
      /\ (NoAsk(u) => NoAsk(t)) /\ (OneAsk(u) => OneAsk(t))
  <2> HIDE DEF u
  <2> QED BY <1>1, OneCommandMore
<1>3. CASE ~wire[k].alive
  <2>1. w = wire
        BY <1>3 DEF Up
  <2> QED BY <1>1, <2>1
<1>4. CASE wire[k].alive
  <2>1. w = [wire EXCEPT ![k] = x]
        BY <1>1, <1>4 DEF Up
  <2>2. NoAsk(t) => NoAsk(u)
    <3>1. \A i \in DOMAIN u : i \in DOMAIN t /\ t[i] = u[i]
          BY <1>1
    <3> QED BY <3>1 DEF NoAsk
  <2> HIDE DEF t
  <2>3. x \in Wires /\ x.up = t /\ x.down = wire[k].down /\ x.alive = wire[k].alive
        BY <1>1, <1>2 DEF Wires
  <2> HIDE DEF x, w
  <2>4. w \in [Sockets -> Wires] /\ w[k] = x /\ \A j \in Sockets : j # k => w[j] = wire[j]
        BY <1>1, <2>1, <2>3
  <2> QED BY <1>1, <1>2, <2>2, <2>3, <2>4 DEF AsksOnce, Answered, w
<1> QED BY <1>3, <1>4

\* The user gives a command.
LEMMA UserCommandsKeeps ==
  ASSUME LinkInv, UserCommands, NEW k \in Sockets, client.socket = k
  PROVE  LinkInv'
<1>1. PICK c \in {Command("text", 0), Command("interrupt", client.view.turn)} : wire' = Up(wire, k, c)
      BY DEF UserCommands
<1>2. c \in Commands /\ ~Seeks(c)
  <2>1. client.view.turn \in Nat
        BY SocketFacts DEF Views
  <2> QED BY <1>1, <2>1 DEF Command, Commands, Seeks
<1>3. /\ wire' \in [Sockets -> Wires] /\ \A j \in Sockets : j # k => wire'[j] = wire[j]
      /\ wire'[k].down = wire[k].down /\ wire'[k].alive = wire[k].alive
      /\ AsksOnce(wire'[k], link[k].start)
      /\ Answered(wire[k], link[k].start) <=> Answered(wire'[k], link[k].start)
      /\ \A i \in DOMAIN wire'[k].up : ~Seeks(wire'[k].up[i]) \/ \E j \in DOMAIN wire[k].up : wire'[k].up[i] = wire[k].up[j]
      BY <1>1, <1>2, SentOn
<1>4. /\ link' = link /\ sess' = sess /\ client \in Clients /\ client' = [client EXCEPT !.sent = @ + 1]
      BY SocketFacts DEF UserCommands
<1>5. /\ client' \in Clients /\ client'.socket = k /\ client'.used = client.used
      /\ client'.session = client.session /\ client'.view = client.view
      BY <1>4 DEF Clients
<1>6. SocketOK(k) /\ Knows(k) /\ client.socket <= client.used /\ client.used \in Nat /\ k \in Nat
      BY SocketFacts, LinkAssumption DEF LinkInv, Sockets
<1>7. SocketOK(k)'
  <2>1. \A i \in DOMAIN wire'[k].up : wire'[k].up[i].type = "attach" => wire'[k].up[i].arg \in Sessions
        BY <1>3, <1>6 DEF SocketOK, Seeks
  <2>2. ~(k > client'.used)
        BY <1>5, <1>6
  <2> QED BY <1>3, <1>4, <1>6, <2>1, <2>2 DEF SocketOK
<1>8. Knows(k)'
  <2>1. \A i \in DOMAIN wire'[k].up : wire'[k].up[i].type = "attach" => wire'[k].up[i].arg = client.session
        BY <1>3, <1>6 DEF Knows, Seeks
  <2>2. (\E i \in DOMAIN wire'[k].up : wire'[k].up[i].type = "start") => client.session = 0
        BY <1>3, <1>6 DEF Knows, Seeks
  <2> QED BY <1>3, <1>4, <1>5, <1>6, <2>1, <2>2 DEF Knows
<1>9. ASSUME NEW s \in Sessions PROVE Learns(k, s)'
  <2>1. Learns(k, s)
        BY SocketFacts
  <2> QED BY <1>3, <1>4, <1>5, <2>1 DEF Learns, Shown
<1>10. LinkTypes'
       BY <1>3, <1>4, <1>5, SocketFacts DEF LinkTypes
<1>11. \A s \in Sessions : sess[s].sink = k => Answered(wire'[k], link'[k].start) /\ link'[k].session \in {0, s}
       BY <1>3, <1>4, SocketFacts DEF RouteOK
<1>12. client.used <= client'.used /\ client'.socket <= client'.used /\ link'[k].session \in {0, link[k].session}
       BY <1>4, <1>5, <1>6
<1> QED BY <1>3, <1>4, <1>5, <1>7, <1>8, <1>9, <1>10, <1>11, <1>12, OneSocket

\* A wire that breaks with nothing to be read.
LEMMA BrokenWire ==
  ASSUME NEW q \in Wires, NEW d
  PROVE  [[q EXCEPT !.alive = FALSE] EXCEPT !.down = d] = [up |-> q.up, down |-> d, alive |-> FALSE]
<1> DEFINE r == [q EXCEPT !.alive = FALSE]
<1>1. r \in Wires /\ r.up = q.up /\ r.alive = FALSE
      BY DEF Wires
<1> HIDE DEF r
<1>2. [r EXCEPT !.down = d] = [up |-> r.up, down |-> d, alive |-> r.alive]
      BY <1>1 DEF Wires
<1> QED BY <1>1, <1>2 DEF r

\* The user leaves, from a socket and from none.
LEMMA UserLeavesKeeps ==
  ASSUME LinkInv, UserLeaves, NEW k \in Sockets, client.socket = k
  PROVE  LinkInv'
<1>1. PICK stops \in BOOLEAN :
         LET w == IF stops THEN Up(wire, k, Command("stop", 0)) ELSE wire
         IN  wire' = [w EXCEPT ![k].alive = FALSE, ![k].down = <<>>]
  <2>1. client.socket # 0
        BY SocketFacts
  <2> QED BY <2>1 DEF UserLeaves
<1> DEFINE w == IF stops THEN Up(wire, k, Command("stop", 0)) ELSE wire
<1>2. Command("stop", 0) \in Commands /\ ~Seeks(Command("stop", 0))
      BY DEF Command, Commands, Seeks
<1>3. /\ w \in [Sockets -> Wires] /\ \A j \in Sockets : j # k => w[j] = wire[j]
      /\ w[k].down = wire[k].down
      /\ AsksOnce(w[k], link[k].start)
      /\ Answered(wire[k], link[k].start) <=> Answered(w[k], link[k].start)
      /\ \A i \in DOMAIN w[k].up : ~Seeks(w[k].up[i]) \/ \E j \in DOMAIN wire[k].up : w[k].up[i] = wire[k].up[j]
  <2>1. CASE stops
        BY <1>2, <2>1, SentOn
  <2>2. CASE ~stops
        BY <2>2, SocketFacts DEF SocketOK
  <2> QED BY <2>1, <2>2
<1>4. wire' = [w EXCEPT ![k].alive = FALSE, ![k].down = <<>>]
      BY <1>1
<1> HIDE DEF w
<1> DEFINE d == <<>>
           u == w[k].up
           x == [up |-> u, down |-> d, alive |-> FALSE]
<1>5. w[k] \in Wires /\ u \in Seq(Commands)
      BY <1>3 DEF Wires
<1>6. wire' = [w EXCEPT ![k] = x]
  <2> DEFINE v == [w EXCEPT ![k].alive = FALSE]
  <2>1. v \in [Sockets -> Wires] /\ v[k] = [w[k] EXCEPT !.alive = FALSE] /\ \A j \in Sockets : j # k => v[j] = w[j]
        BY <1>3, <1>5 DEF Wires
  <2>2. wire' = [v EXCEPT ![k].down = d]
        BY <1>4
  <2>3. [v[k] EXCEPT !.down = d] = x
    <3> DEFINE q == w[k]
    <3>1. q \in Wires /\ u = q.up /\ v[k] = [q EXCEPT !.alive = FALSE]
          BY <1>5, <2>1 DEF u
    <3> HIDE DEF q, v, u
    <3>2. [[q EXCEPT !.alive = FALSE] EXCEPT !.down = d] = [up |-> q.up, down |-> d, alive |-> FALSE]
          BY <3>1, BrokenWire
    <3> QED BY <3>1, <3>2
  <2>4. wire' = [v EXCEPT ![k] = x]
        BY <2>1, <2>2, <2>3
  <2> HIDE DEF v, x
  <2> QED BY <1>3, <2>1, <2>4
<1>7. d \in Seq(Events) /\ DOMAIN d = {} /\ NoForget(d)
      BY DEF NoForget
<1> HIDE DEF d, u
<1>8. x \in Wires /\ x.up = u /\ x.down = d
      BY <1>5, <1>7 DEF Wires
<1> HIDE DEF x
<1>9. wire' \in [Sockets -> Wires] /\ wire'[k] = x /\ \A j \in Sockets : j # k => wire'[j] = wire[j]
      BY <1>3, <1>6, <1>8
<1>10. /\ link' = link /\ sess' = sess /\ client \in Clients /\ client' = [client EXCEPT !.closed = TRUE, !.socket = 0]
       BY SocketFacts DEF UserLeaves
<1>11. /\ client' \in Clients /\ client'.socket = 0 /\ client'.used = client.used /\ client'.socket # k
  <2>1. 0 \in 0..MaxSockets /\ 0 # k
        BY SocketFacts, LinkAssumption
  <2> QED BY <1>10, <2>1 DEF Clients
<1>12. Answered(wire[k], link[k].start) => Answered(wire'[k], link[k].start)
       BY <1>3, <1>7, <1>8, <1>9 DEF Answered, u
<1>13. SocketOK(k) /\ client.socket <= client.used /\ client.used \in Nat /\ k \in Nat
       BY SocketFacts, LinkAssumption DEF LinkInv, Sockets
<1>14. SocketOK(k)'
  <2>1. \A i \in DOMAIN u : u[i].type = "attach" => u[i].arg \in Sessions
        BY <1>3, <1>13 DEF SocketOK, Seeks, u
  <2>2. ~(k > client'.used)
        BY <1>11, <1>13
  <2>3. AsksOnce(wire'[k], link[k].start)
        BY <1>3, <1>7, <1>8, <1>9 DEF AsksOnce, u
  <2> QED BY <1>8, <1>9, <1>10, <1>12, <1>13, <2>1, <2>2, <2>3 DEF SocketOK
<1>15. \A s \in Sessions : Learns(k, s)'
       BY <1>11 DEF Learns
<1>16. LinkTypes'
       BY <1>9, <1>10, <1>11, SocketFacts DEF LinkTypes
<1>17. \A s \in Sessions : sess[s].sink = k => Answered(wire'[k], link'[k].start) /\ link'[k].session \in {0, s}
       BY <1>10, <1>12, SocketFacts DEF RouteOK
<1>18. client.used <= client'.used /\ client'.socket <= client'.used /\ link'[k].session \in {0, link[k].session}
       BY <1>10, <1>11, <1>13, LinkAssumption
<1> QED BY <1>9, <1>10, <1>11, <1>14, <1>15, <1>16, <1>17, <1>18, OneSocket

LEMMA UserLeavesUnheard ==
  ASSUME LinkInv, UserLeaves, client.socket = 0
  PROVE  LinkInv'
<1>1. /\ wire' = wire /\ link' = link /\ sess' = sess /\ client \in Clients /\ client' = [client EXCEPT !.closed = TRUE, !.socket = 0]
      BY DEF UserLeaves, LinkInv, LinkTypes
<1>2. /\ client' \in Clients /\ client'.socket = 0 /\ client'.used = client.used /\ client'.socket \notin Sockets
  <2>1. 0 \in 0..MaxSockets /\ 0 \notin Sockets
        BY LinkAssumption DEF Sockets
  <2> QED BY <1>1, <2>1 DEF Clients
<1>3. client'.socket <= client'.used
      BY <1>1, <1>2 DEF LinkInv
<1>4. \A k \in Sockets : SocketOK(k)'
      BY <1>1, <1>2 DEF LinkInv, SocketOK
<1>5. \A s \in Sessions : RouteOK(s)'
      BY <1>1, <1>2 DEF LinkInv, RouteOK
<1>6. \A k \in Sockets, s \in Sessions : Learns(k, s)'
      BY <1>2 DEF Learns
<1>7. LinkTypes'
      BY <1>1, <1>2 DEF LinkInv, LinkTypes
<1> QED BY <1>2, <1>3, <1>4, <1>5, <1>6, <1>7 DEF LinkInv

\* The gateway sees a socket closed.
LEMMA CloseKeeps ==
  ASSUME LinkInv, NEW k \in Sockets, close(k)
  PROVE  LinkInv'
<1> DEFINE l == [link[k] EXCEPT !.closed = TRUE, !.session = 0]
<1>1. /\ client' = client /\ wire' = wire /\ k <= client.used /\ link' = [link EXCEPT ![k] = l]
      /\ sess' = IF link[k].session = 0 THEN sess ELSE [sess EXCEPT ![link[k].session] = Detached(@, k)]
      BY SocketFacts DEF close
<1>2. l \in Links /\ l.session = 0 /\ l.start = link[k].start /\ l.mine = link[k].mine
  <2>1. 0 \in 0..MaxSessions
        BY LinkAssumption
  <2> QED BY <2>1, SocketFacts DEF Links
<1> HIDE DEF l
<1>3. /\ link' \in [Sockets -> Links] /\ link'[k] = l /\ \A j \in Sockets : j # k => link'[j] = link[j]
      BY <1>1, <1>2, SocketFacts
<1>4. /\ sess' \in [Sessions -> Talks]
      /\ \A s \in Sessions : /\ sess'[s].phase = sess[s].phase /\ sess'[s].turn = sess[s].turn
                             /\ sess'[s].sink \in {0, sess[s].sink}
  <2>1. CASE link[k].session = 0
        BY <1>1, <2>1, SocketFacts
  <2>2. CASE link[k].session # 0
    <3> DEFINE s == link[k].session
               r == Detached(sess[s], k)
    <3>1. s \in Sessions
          BY <2>2, SocketFacts DEF Links, Sessions
    <3>2. sess \in [Sessions -> Talks] /\ sess[s] \in Talks /\ sess' = [sess EXCEPT ![s] = r]
          BY <1>1, <2>2, <3>1, SocketFacts
    <3>3. r \in Talks /\ r.phase = sess[s].phase /\ r.turn = sess[s].turn /\ r.sink \in {0, sess[s].sink}
      <4>1. 0 \in 0..MaxSockets
            BY LinkAssumption
      <4> QED BY <3>2, <4>1 DEF Detached, Talks
    <3> HIDE DEF r, s
    <3> QED BY <3>1, <3>2, <3>3
  <2> QED BY <2>1, <2>2
<1>5. ASSUME NEW j \in Sockets
      PROVE  /\ link'[j].start = link[j].start /\ link'[j].mine = link[j].mine /\ link'[j].session \in {0, link[j].session}
             /\ (j > client.used => link'[j] = link[j]) /\ 0 # j /\ SocketOK(j) /\ (client.socket = j => Knows(j))
  <2>1. j \in Nat /\ client.used \in Nat
        BY LinkAssumption, SocketFacts DEF Sockets
  <2> QED BY <1>1, <1>2, <1>3, <2>1, SocketFacts
<1>6. ASSUME NEW j \in Sockets PROVE SocketOK(j)'
      BY <1>1, <1>5 DEF SocketOK
<1>7. ASSUME NEW s \in Sessions PROVE RouteOK(s)'
  <2>1. RouteOK(s) /\ 0 # s
        BY SocketFacts
  <2> QED BY <1>1, <1>4, <1>5, <2>1 DEF RouteOK
<1>8. ASSUME NEW j \in Sockets, client.socket = j PROVE Knows(j)'
      BY <1>1, <1>5, <1>8 DEF Knows
<1>9. ASSUME NEW j \in Sockets, NEW s \in Sessions PROVE Learns(j, s)'
  <2>1. Learns(j, s) /\ 0 # s
        BY SocketFacts
  <2> QED BY <1>1, <1>4, <1>5, <2>1 DEF Learns, Shown
<1>10. LinkTypes' /\ client'.socket <= client'.used
       BY <1>1, <1>3, <1>4 DEF LinkInv, LinkTypes
<1> QED BY <1>1, <1>6, <1>7, <1>8, <1>9, <1>10 DEF LinkInv

\* Before a socket was answered nothing speaks to it, and it was told of no session.
LEMMA NotAnsweredYet ==
  ASSUME LinkInv, NEW k \in Sockets, ~Answered(wire[k], link[k].start)
  PROVE  /\ link[k].session = 0 /\ link[k].start # "starting" /\ k <= client.used
         /\ \A s \in Sessions : sess[s].sink # k
         /\ client.socket = k => \A i \in DOMAIN wire[k].down : Forgets(wire[k].down[i]) \/ wire[k].down[i].of = 0
<1>1. SocketOK(k) /\ (client.socket = k => Knows(k)) /\ client.used \in Nat /\ k \in Nat
      BY SocketFacts, LinkAssumption DEF Sockets
<1>2. Answered(NoWire, NoLink.start)
      BY DEF Answered, NoWire, NoLink, NoAsk, NoForget
<1>3. k <= client.used
      BY <1>1, <1>2 DEF SocketOK
<1> QED BY <1>1, <1>3, SocketFacts DEF SocketOK, RouteOK, Knows

\* A start is given up or refused.
LEMMA StartRefused ==
  ASSUME LinkInv, NEW k \in Sockets, link[k].start = "resolving", client' = client, sess' = sess,
         link' = [link EXCEPT ![k].start = "none", ![k].mine = 0],
         wire' = IF link[k].closed THEN wire ELSE emit(wire, k, <<Event("rejected", 0)>>)
  PROVE  LinkInv'
<1> DEFINE es == IF link[k].closed THEN <<>> ELSE <<Event("rejected", 0)>>
           l == [link[k] EXCEPT !.start = "none", !.mine = 0]
<1>1. es \in Seq(Events) /\ NoForget(es) /\ \A i \in DOMAIN es : es[i].of = 0
  <2>1. Event("rejected", 0) \in Events /\ ~Forgets(Event("rejected", 0)) /\ Event("rejected", 0).of = 0
        BY LinkAssumption DEF Event, Events, Forgets
  <2> DEFINE e == Event("rejected", 0)
  <2> HIDE DEF e
  <2> QED BY <2>1 DEF NoForget, e
<1>2. k \in 0..MaxSockets /\ <<>> \in Seq(Events) /\ Read(wire) /\ wire \in [Sockets -> Wires]
      BY LinkAssumption, Unread, SocketFacts DEF Sockets
<1>3. wire' = emit(wire, k, es)
  <2>1. emit(wire, k, <<>>) = wire
        BY <1>2, EmitTwice
  <2> QED BY <2>1
<1> HIDE DEF es
<1>4. PICK fs \in Seq(Events) : Hears(k, fs) /\ \A i \in DOMAIN fs : fs[i].of = 0
  <2>1. Hears(k, IF k = k /\ wire[k].alive THEN es ELSE <<>>)
        BY <1>1, <1>2, <1>3, HearsFrom
  <2>2. \A i \in DOMAIN <<>> : FALSE
        OBVIOUS
  <2>3. CASE wire[k].alive
        BY <1>1, <2>1, <2>3
  <2>4. CASE ~wire[k].alive
    <3>1. Hears(k, <<>>)
          BY <2>1, <2>4
    <3> QED BY <1>2, <2>2, <3>1
  <2> QED BY <2>3, <2>4
<1>5. wire' \in [Sockets -> Wires] /\ \A j \in Sockets : j # k => wire'[j] = wire[j]
  <2>1. wire' \in [Sockets -> Wires]
        BY <1>1, <1>2, <1>3, HearsFrom
  <2> QED BY <1>2, <1>3, <2>1 DEF emit
<1>6. link' = [link EXCEPT ![k] = l] /\ l \in Links /\ l.start = "none" /\ l.session = link[k].session
  <2>1. 0 \in 0..MaxSessions
        BY LinkAssumption
  <2> QED BY <2>1, SocketFacts DEF Links
<1> HIDE DEF l
<1>7. link' \in [Sockets -> Links] /\ link'[k] = l /\ \A j \in Sockets : j # k => link'[j] = link[j]
      BY <1>6, SocketFacts
<1>8. /\ link[k].session = 0 /\ (\A s \in Sessions : sess[s].sink # k) /\ k <= client.used
      /\ client.socket = k => \A i \in DOMAIN wire[k].down : Forgets(wire[k].down[i]) \/ wire[k].down[i].of = 0
      BY NotAnsweredYet DEF Answered
<1>9. AsksOnce(wire[k], link[k].start)
      BY SocketFacts DEF SocketOK
<1> DEFINE u == wire'[k].up
           d == wire'[k].down
<1>10. NoAsk(u) /\ NoForget(d)
  <2>1. NoAsk(wire[k].up) /\ NoForget(wire[k].down) /\ wire[k].up \in Seq(Commands) /\ wire[k].down \in Seq(Events)
        BY <1>9, SocketFacts DEF AsksOnce
  <2>2. NoAsk(u)
    <3> DEFINE a == wire[k].up
    <3>1. a \in Seq(Commands) /\ ReadsOn(a, u) /\ NoAsk(a)
          BY <1>4, <2>1 DEF Hears
    <3> HIDE DEF a, u
    <3> QED BY <3>1, ReadLess
  <2>3. NoForget(d)
    <3> DEFINE a == wire[k].down
    <3>1. a \in Seq(Events) /\ NoForget(a) /\ NoForget(fs) /\ d = a \o fs
          BY <1>4, <2>1 DEF Hears
    <3> HIDE DEF a, d
    <3> QED BY <3>1, ToldMore
  <2> QED BY <2>2, <2>3
<1>11. Answered(wire'[k], link'[k].start)
       BY <1>6, <1>7, <1>10 DEF Answered
<1>12. ~(k > client.used)
       BY <1>8, SocketFacts, LinkAssumption DEF Sockets
<1>13. \A i \in DOMAIN u : u[i].type \notin {"start", "attach"}
       BY <1>10 DEF NoAsk, Seeks
<1>14. SocketOK(k)'
       BY <1>6, <1>7, <1>8, <1>10, <1>11, <1>12, <1>13 DEF SocketOK, AsksOnce
<1>15. Knows(k)'
       BY <1>6, <1>7, <1>8, <1>11, <1>13 DEF Knows
<1>16. \A s \in Sessions : Learns(k, s)'
  <2>1. \A s \in Sessions : link'[k].session # s
        BY <1>6, <1>7, <1>8, SocketFacts
  <2> QED BY <2>1 DEF Learns
<1>17. LinkTypes'
       BY <1>5, <1>7, SocketFacts DEF LinkTypes
<1>18. link'[k].session \in {0, link[k].session}
       BY <1>6, <1>7
<1> QED BY <1>5, <1>7, <1>8, <1>14, <1>15, <1>16, <1>17, <1>18, OneSocket

\* A start makes a session.
LEMMA StartMakes ==
  ASSUME LinkInv, NEW k \in Sockets, link[k].start = "resolving", client' = client,
         NEW s \in Sessions, sess[s].phase = "new", NEW media \in BOOLEAN,
         link' = [link EXCEPT ![k].start = "starting", ![k].session = s, ![k].mine = s],
         sess' = [sess EXCEPT ![s].phase = "live", ![s].sink = k],
         wire' = emit(wire, k, IF media THEN <<Event("media.config", s)>> ELSE <<>>)
  PROVE  LinkInv'
<1> DEFINE es == IF media THEN <<Event("media.config", s)>> ELSE <<>>
           l == [link[k] EXCEPT !.start = "starting", !.session = s, !.mine = s]
           r == [sess[s] EXCEPT !.phase = "live", !.sink = k]
<1>1. es \in Seq(Events) /\ NoForget(es) /\ \A i \in DOMAIN es : es[i].of = s
  <2>1. /\ Event("media.config", s) \in Events /\ ~Forgets(Event("media.config", s)) /\ Event("media.config", s).of = s
        BY LinkAssumption DEF Event, Events, Forgets, Sessions
  <2> DEFINE e == Event("media.config", s)
  <2> HIDE DEF e
  <2> QED BY <2>1 DEF NoForget, e
<1>2. k \in 0..MaxSockets /\ <<>> \in Seq(Events) /\ Read(wire) /\ wire \in [Sockets -> Wires] /\ s \in 0..MaxSessions
      BY LinkAssumption, Unread, SocketFacts DEF Sockets, Sessions
<1> HIDE DEF es
<1>3. PICK fs \in Seq(Events) : Hears(k, fs) /\ \A i \in DOMAIN fs : fs[i].of = s
  <2>1. Hears(k, IF k = k /\ wire[k].alive THEN es ELSE <<>>)
        BY <1>1, <1>2, HearsFrom DEF es
  <2>2. \A i \in DOMAIN <<>> : FALSE
        OBVIOUS
  <2>3. CASE wire[k].alive
        BY <1>1, <2>1, <2>3
  <2>4. CASE ~wire[k].alive
    <3>1. Hears(k, <<>>)
          BY <2>1, <2>4
    <3> QED BY <1>2, <2>2, <3>1
  <2> QED BY <2>3, <2>4
<1>4. wire' \in [Sockets -> Wires] /\ \A j \in Sockets : j # k => wire'[j] = wire[j]
  <2>1. wire' \in [Sockets -> Wires]
        BY <1>1, <1>2, HearsFrom DEF es
  <2> QED BY <1>2, <2>1 DEF emit
<1>5. link' = [link EXCEPT ![k] = l] /\ l \in Links /\ l.start = "starting" /\ l.session = s /\ l.mine = s
      BY <1>2, SocketFacts DEF Links
<1> HIDE DEF l
<1>6. link' \in [Sockets -> Links] /\ link'[k] = l /\ \A j \in Sockets : j # k => link'[j] = link[j]
      BY <1>5, SocketFacts
<1>7. sess' = [sess EXCEPT ![s] = r] /\ r \in Talks /\ r.phase = "live" /\ r.sink = k
      BY <1>2, SocketFacts DEF Talks
<1> HIDE DEF r
<1>8. sess' \in [Sessions -> Talks] /\ sess'[s] = r /\ \A x \in Sessions : x # s => sess'[x] = sess[x]
      BY <1>7, SocketFacts
<1>9. /\ link[k].session = 0 /\ (\A x \in Sessions : sess[x].sink # k) /\ k <= client.used
      /\ client.socket = k => \A i \in DOMAIN wire[k].down : Forgets(wire[k].down[i]) \/ wire[k].down[i].of = 0
      BY NotAnsweredYet DEF Answered
<1>10. \A j \in Sockets : link[j].session # s
       BY SocketFacts DEF RouteOK
<1>11. AsksOnce(wire[k], link[k].start)
       BY SocketFacts DEF SocketOK
<1> DEFINE u == wire'[k].up
           d == wire'[k].down
           d0 == wire[k].down
<1>12. NoAsk(wire[k].up) /\ NoForget(d0) /\ wire[k].up \in Seq(Commands) /\ d0 \in Seq(Events) /\ d = d0 \o fs /\ NoForget(fs)
       BY <1>3, <1>11, SocketFacts DEF AsksOnce, Hears
<1>13. NoAsk(u) /\ NoForget(d)
  <2>1. NoAsk(u)
    <3> DEFINE a == wire[k].up
    <3>1. a \in Seq(Commands) /\ ReadsOn(a, u) /\ NoAsk(a)
          BY <1>3, <1>12 DEF Hears
    <3> HIDE DEF a, u
    <3> QED BY <3>1, ReadLess
  <2>2. NoForget(d)
    <3> HIDE DEF d, d0
    <3> QED BY <1>12, ToldMore
  <2> QED BY <2>1, <2>2
<1>14. Answered(wire'[k], link'[k].start)
       BY <1>5, <1>6, <1>13 DEF Answered
<1>15. ~(k > client.used)
       BY <1>9, SocketFacts, LinkAssumption DEF Sockets
<1>16. \A i \in DOMAIN u : u[i].type \notin {"start", "attach"}
       BY <1>13 DEF NoAsk, Seeks
<1>17. SocketOK(k)'
       BY <1>5, <1>6, <1>13, <1>14, <1>15, <1>16 DEF SocketOK, AsksOnce
<1>18. ASSUME NEW j \in Sockets PROVE SocketOK(j)'
  <2>1. CASE j = k
        BY <1>17, <2>1
  <2>2. CASE j # k
    <3>1. SocketOK(j)
          BY SocketFacts
    <3> QED BY <1>4, <1>6, <2>2, <3>1 DEF SocketOK
  <2> QED BY <2>1, <2>2
<1>19. ASSUME NEW x \in Sessions PROVE RouteOK(x)'
  <2>1. RouteOK(x) /\ x # 0
        BY SocketFacts
  <2>2. CASE x = s
        BY <1>5, <1>6, <1>7, <1>8, <1>9, <1>14, <2>2 DEF RouteOK
  <2>3. CASE x # s
        BY <1>4, <1>5, <1>6, <1>8, <1>9, <2>1, <2>3 DEF RouteOK
  <2> QED BY <2>2, <2>3
<1>20. ASSUME client.socket = k PROVE Knows(k)'
  <2>1. client.session = 0
        BY <1>20, SocketFacts DEF Knows
  <2>2. \A i \in DOMAIN d0 : d0[i].of \in {0, s}
        BY <1>9, <1>12, <1>20 DEF NoForget
  <2>3. \A i \in DOMAIN fs : fs[i].of \in {0, s}
        BY <1>3
  <2>4. \A i \in DOMAIN d : d[i].of \in {0, s}
    <3> HIDE DEF d, d0
    <3>1. \A i \in DOMAIN (d0 \o fs) : (d0 \o fs)[i].of \in {0, s}
          BY <1>12, <2>2, <2>3, ToldMore
    <3> QED BY <1>12, <3>1
  <2> QED BY <1>5, <1>6, <1>14, <1>16, <2>1, <2>4 DEF Knows
<1>21. ASSUME NEW j \in Sockets, client.socket = j PROVE Knows(j)'
  <2>1. CASE j = k
        BY <1>20, <1>21, <2>1
  <2>2. CASE j # k
    <3>1. Knows(j)
          BY <1>21, SocketFacts
    <3> QED BY <1>4, <1>6, <2>2, <3>1 DEF Knows
  <2> QED BY <2>1, <2>2
<1>22. ASSUME NEW j \in Sockets, NEW x \in Sessions PROVE Learns(j, x)'
  <2>1. Learns(j, x) /\ x # 0
        BY SocketFacts
  <2>2. CASE j = k
        BY <1>5, <1>6, <2>2 DEF Learns
  <2>3. CASE j # k /\ x = s
        BY <1>6, <1>10, <2>3 DEF Learns
  <2>4. CASE j # k /\ x # s
        BY <1>4, <1>6, <1>8, <2>1, <2>4 DEF Learns, Shown
  <2> QED BY <2>2, <2>3, <2>4
<1>23. LinkTypes' /\ client'.socket <= client'.used
       BY <1>4, <1>6, <1>8 DEF LinkInv, LinkTypes
<1> QED BY <1>18, <1>19, <1>21, <1>22, <1>23 DEF LinkInv

LEMMA ResolvedKeeps ==
  ASSUME LinkInv, NEW k \in Sockets, Resolved(k)
  PROVE  LinkInv'
BY StartRefused, StartMakes DEF Resolved

\* A socket is told of a refusal that names no session.
LEMMA MessageRefused ==
  ASSUME LinkInv, NEW k \in Sockets, client' = client, link' = link, sess' = sess,
         link[k].start # "none" \/ link[k].session = 0,
         NEW w, Read(w), \A j \in Sockets : j # k => w[j] = wire[j],
         wire' = emit(w, k, <<Event("rejected", 0)>>)
  PROVE  LinkInv'
<1> DEFINE es == <<Event("rejected", 0)>>
<1>1. es \in Seq(Events) /\ NoForget(es) /\ \A i \in DOMAIN es : es[i].of = 0
  <2>1. Event("rejected", 0) \in Events /\ ~Forgets(Event("rejected", 0)) /\ Event("rejected", 0).of = 0
        BY LinkAssumption DEF Event, Events, Forgets
  <2> DEFINE e == Event("rejected", 0)
  <2> HIDE DEF e
  <2> QED BY <2>1 DEF NoForget, e
<1>2. k \in 0..MaxSockets /\ <<>> \in Seq(Events) /\ w \in [Sockets -> Wires]
      BY LinkAssumption DEF Sockets, Read
<1>3. wire' = emit(w, k, es)
      OBVIOUS
<1> HIDE DEF es
<1>4. PICK fs \in Seq(Events) : Hears(k, fs) /\ \A i \in DOMAIN fs : fs[i].of = 0
  <2>1. Hears(k, IF k = k /\ wire[k].alive THEN es ELSE <<>>)
        BY <1>1, <1>2, <1>3, HearsFrom
  <2>2. \A i \in DOMAIN <<>> : FALSE
        OBVIOUS
  <2>3. CASE wire[k].alive
        BY <1>1, <2>1, <2>3
  <2>4. CASE ~wire[k].alive
    <3>1. Hears(k, <<>>)
          BY <2>1, <2>4
    <3> QED BY <1>2, <2>2, <3>1
  <2> QED BY <2>3, <2>4
<1>5. wire' \in [Sockets -> Wires] /\ \A j \in Sockets : j # k => wire'[j] = wire[j]
  <2>1. wire' \in [Sockets -> Wires]
        BY <1>1, <1>2, <1>3, HearsFrom
  <2> QED BY <1>2, <1>3, <2>1 DEF emit
<1>6. LinkTypes' /\ Settles(link[k], link'[k])
      BY <1>5, SocketFacts DEF LinkTypes, Settles
<1>7. /\ SocketOK(k)'
      /\ Answered(wire[k], link[k].start) => Answered(wire'[k], link'[k].start)
      /\ Knows(k) => Knows(k)'
      BY <1>4, <1>6, HearsKeeps
<1>8. \A s \in Sessions : sess[s].sink = k => Answered(wire'[k], link'[k].start) /\ link'[k].session \in {0, s}
      BY <1>7, SocketFacts DEF RouteOK
<1>9. \A s \in Sessions : Learns(k, s)'
      BY SocketFacts DEF Learns
<1> QED BY <1>5, <1>6, <1>7, <1>8, <1>9, SocketFacts, OneSocket

\* The one command that asks for a session is read.
LEMMA AskRead ==
  ASSUME NEW u \in Seq(Commands), u # <<>>, Seeks(Head(u)), OneAsk(u)
  PROVE  NoAsk(Tail(u))
<1> DEFINE t == Tail(u)
<1>1. \A i \in DOMAIN t : i + 1 \in DOMAIN u /\ t[i] = u[i + 1] /\ i + 1 # 1
      OBVIOUS
<1>2. 1 \in DOMAIN u /\ Head(u) = u[1]
      OBVIOUS
<1> HIDE DEF t
<1>3. PICK n \in DOMAIN u : \A j \in DOMAIN u : j # n => ~Seeks(u[j])
      BY DEF OneAsk
<1>4. n = 1
      BY <1>2, <1>3
<1>5. NoAsk(t)
      BY <1>1, <1>3, <1>4 DEF NoAsk
<1> QED BY <1>5 DEF t

\* What holds once it is.
LEMMA AskedFirst ==
  ASSUME LinkInv, NEW k \in Sockets, wire[k].up # <<>>, Seeks(Head(wire[k].up))
  PROVE  /\ NoAsk(Tail(wire[k].up)) /\ NoForget(wire[k].down) /\ link[k].start = "none"
         /\ link[k].session = 0 /\ k <= client.used
         /\ \A s \in Sessions : sess[s].sink # k
         /\ client.socket = k => \A i \in DOMAIN wire[k].down : wire[k].down[i].of = 0
         /\ Head(wire[k].up).type = "start" /\ client.socket = k => client.session = 0
         /\ Head(wire[k].up).type = "attach" => Head(wire[k].up).arg \in Sessions
         /\ Head(wire[k].up).type = "attach" /\ client.socket = k => client.session = Head(wire[k].up).arg
<1> DEFINE u == wire[k].up
<1>1. u \in Seq(Commands) /\ SocketOK(k) /\ (client.socket = k => Knows(k)) /\ u # <<>> /\ Seeks(Head(u))
      BY SocketFacts
<1>2. 1 \in DOMAIN u /\ Head(u) = u[1]
  <2> HIDE DEF u
  <2> QED BY <1>1
<1>3. ~NoAsk(u)
      BY <1>1, <1>2 DEF NoAsk
<1>4. NoForget(wire[k].down) /\ link[k].start = "none" /\ OneAsk(u)
      BY <1>1, <1>3 DEF SocketOK, AsksOnce
<1>5. NoAsk(Tail(u))
  <2> HIDE DEF u
  <2> QED BY <1>1, <1>4, AskRead
<1>6. ~Answered(wire[k], link[k].start)
      BY <1>3 DEF Answered
<1>7. /\ link[k].session = 0 /\ k <= client.used
      /\ \A s \in Sessions : sess[s].sink # k
      /\ client.socket = k => \A i \in DOMAIN wire[k].down : Forgets(wire[k].down[i]) \/ wire[k].down[i].of = 0
      BY <1>6, NotAnsweredYet
<1>8. client.socket = k => \A i \in DOMAIN wire[k].down : wire[k].down[i].of = 0
      BY <1>4, <1>7 DEF NoForget
<1>9. /\ u[1].type = "start" /\ client.socket = k => client.session = 0
      /\ u[1].type = "attach" => u[1].arg \in Sessions
      /\ u[1].type = "attach" /\ client.socket = k => client.session = u[1].arg
      BY <1>1, <1>2 DEF Knows, SocketOK
<1> QED BY <1>2, <1>4, <1>5, <1>7, <1>8, <1>9

\* A start is taken up.
LEMMA StartTaken ==
  ASSUME LinkInv, NEW k \in Sockets, wire[k].up # <<>>, Head(wire[k].up).type = "start",
         client' = client, sess' = sess, link' = [link EXCEPT ![k].start = "resolving"],
         wire' = [wire EXCEPT ![k].up = Tail(@)]
  PROVE  LinkInv'
<1> DEFINE l == [link[k] EXCEPT !.start = "resolving"]
           t == Tail(wire[k].up)
<1>1. /\ Read(wire') /\ wire'[k].up = t /\ \A j \in Sockets : j # k => wire'[j] = wire[j]
      BY ReadOne
<1>2. wire' \in [Sockets -> Wires] /\ wire'[k].down = wire[k].down /\ wire'[k].alive = wire[k].alive
      BY <1>1 DEF Read
<1>3. /\ NoAsk(t) /\ NoForget(wire[k].down) /\ link[k].start = "none"
      /\ link[k].session = 0 /\ k <= client.used
      /\ \A s \in Sessions : sess[s].sink # k
      /\ client.socket = k => \A i \in DOMAIN wire[k].down : wire[k].down[i].of = 0
      /\ client.socket = k => client.session = 0
      BY AskedFirst DEF Seeks
<1> HIDE DEF t
<1>4. link' = [link EXCEPT ![k] = l] /\ l \in Links /\ l.start = "resolving" /\ l.session = 0
      BY <1>3, SocketFacts DEF Links
<1> HIDE DEF l
<1>5. link' \in [Sockets -> Links] /\ link'[k] = l /\ \A j \in Sockets : j # k => link'[j] = link[j]
      BY <1>4, SocketFacts
<1>6. \A i \in DOMAIN t : t[i].type \notin {"start", "attach"}
      BY <1>3 DEF NoAsk, Seeks
<1>7. ~(k > client.used)
      BY <1>3, SocketFacts, LinkAssumption DEF Sockets
<1>8. SocketOK(k)'
      BY <1>1, <1>2, <1>3, <1>4, <1>5, <1>6, <1>7 DEF SocketOK, AsksOnce
<1>9. client.socket = k => Knows(k)'
      BY <1>1, <1>2, <1>3, <1>4, <1>5, <1>6 DEF Knows
<1>10. \A s \in Sessions : Learns(k, s)'
  <2>1. \A s \in Sessions : link'[k].session # s
        BY <1>4, <1>5, SocketFacts
  <2> QED BY <2>1 DEF Learns
<1>11. LinkTypes' /\ link'[k].session \in {0, link[k].session}
       BY <1>2, <1>4, <1>5, SocketFacts DEF LinkTypes
<1> QED BY <1>1, <1>3, <1>5, <1>8, <1>9, <1>10, <1>11, OneSocket

\* What is there when an event is told after which a session is asked for anew.
LEMMA OneEventMore ==
  ASSUME NEW d \in Seq(Events), NEW e \in Events, NoForget(d), Forgets(e)
  PROVE  /\ OneForget(d \o <<e>>)
         /\ \A i \in DOMAIN (d \o <<e>>) : Forgets((d \o <<e>>)[i]) \/ \E j \in DOMAIN d : (d \o <<e>>)[i] = d[j]
<1> DEFINE c == d \o <<e>>
<1>1. /\ Len(d) \in Nat /\ Len(d) + 1 \in DOMAIN c /\ c[Len(d) + 1] = e
      /\ \A i \in DOMAIN c : i = Len(d) + 1 \/ (i \in DOMAIN d /\ c[i] = d[i])
      OBVIOUS
<1> HIDE DEF c
<1>2. OneForget(c)
      BY <1>1 DEF OneForget, NoForget
<1>3. \A i \in DOMAIN c : Forgets(c[i]) \/ \E j \in DOMAIN d : c[i] = d[j]
      BY <1>1
<1> QED BY <1>2, <1>3 DEF c

\* The session asked for is not there.
LEMMA AttachUnknown ==
  ASSUME LinkInv, NEW k \in Sockets, wire[k].up # <<>>, Head(wire[k].up).type = "attach",
         client' = client, sess' = sess, link' = link, NEW a \in Sessions,
         wire' = emit([wire EXCEPT ![k].up = Tail(@)], k, <<Event("unknown_session", a)>>)
  PROVE  LinkInv'
<1> DEFINE w == [wire EXCEPT ![k].up = Tail(@)]
           t == Tail(wire[k].up)
           e == Event("unknown_session", a)
           es == <<e>>
           d == wire[k].down
<1>1. /\ Read(w) /\ w[k].up = t /\ \A j \in Sockets : j # k => w[j] = wire[j]
      BY ReadOne
<1>2. w \in [Sockets -> Wires] /\ w[k].down = d /\ w[k].alive = wire[k].alive
      BY <1>1 DEF Read
<1>3. /\ NoAsk(t) /\ NoForget(d) /\ link[k].start = "none"
      /\ link[k].session = 0 /\ k <= client.used
      /\ \A s \in Sessions : sess[s].sink # k
      /\ client.socket = k => \A i \in DOMAIN d : d[i].of = 0
      BY AskedFirst DEF Seeks
<1>4. wire' = emit(w, k, es) /\ k \in 0..MaxSockets /\ d \in Seq(Events)
      BY SocketFacts, LinkAssumption DEF Sockets
<1> HIDE DEF t, w
<1>5. e \in Events /\ Forgets(e)
      BY LinkAssumption DEF Event, Events, Forgets, Sessions
<1> HIDE DEF e
<1>6. es \in Seq(Events) /\ Len(es) = 1 /\ es[1] = e
      BY <1>5
<1> HIDE DEF es
<1>7. /\ wire' \in [Sockets -> Wires] /\ \A j \in Sockets : j # k => wire'[j] = wire[j]
      /\ wire'[k].up = t /\ wire'[k].alive = wire[k].alive
      /\ wire'[k].down = IF wire[k].alive THEN d \o es ELSE d
  <2>1. /\ wire' \in [Sockets -> Wires]
        /\ \A j \in Sockets : wire'[j].up = w[j].up /\ wire'[j].alive = w[j].alive
        /\ \A j \in Sockets : wire'[j].down = IF j = k /\ w[j].alive THEN w[j].down \o es ELSE w[j].down
    <3>1. w \in [Sockets -> Wires] /\ k \in 0..MaxSockets /\ es \in Seq(Events) /\ wire' = emit(w, k, es)
          BY <1>2, <1>4, <1>6
    <3> QED BY ONLY <3>1, EmitIs
  <2>2. \A j \in Sockets : j # k => wire'[j] = w[j]
        BY <1>2, <1>4 DEF emit
  <2> QED BY <1>1, <1>2, <2>1, <2>2
<1>8. /\ OneForget(d \o es)
      /\ \A i \in DOMAIN (d \o es) : Forgets((d \o es)[i]) \/ \E j \in DOMAIN d : (d \o es)[i] = d[j]
  <2> HIDE DEF d
  <2>1. d \in Seq(Events) /\ NoForget(d)
        BY <1>3, <1>4
  <2> QED BY ONLY <1>5, <2>1, OneEventMore DEF es
<1>9. \A i \in DOMAIN t : t[i].type \notin {"start", "attach"}
      BY <1>3 DEF NoAsk, Seeks
<1>10. ~(k > client.used)
       BY <1>3, SocketFacts, LinkAssumption DEF Sockets
<1> DEFINE c == wire'[k].down
<1>11. (NoForget(c) \/ OneForget(c)) /\ (client.socket = k => \A i \in DOMAIN c : Forgets(c[i]) \/ c[i].of = 0)
  <2>1. CASE wire[k].alive
    <3>1. c = d \o es
          BY <1>7, <2>1
    <3> HIDE DEF c, d
    <3> QED BY <1>3, <1>8, <3>1
  <2>2. CASE ~wire[k].alive
        BY <1>3, <1>7, <2>2
  <2> QED BY <2>1, <2>2
<1>12. SocketOK(k)'
       BY <1>3, <1>7, <1>9, <1>10, <1>11 DEF SocketOK, AsksOnce
<1>13. client.socket = k => Knows(k)'
       BY <1>3, <1>7, <1>9, <1>11 DEF Knows
<1>14. \A s \in Sessions : Learns(k, s)'
  <2>1. \A s \in Sessions : link'[k].session # s
        BY <1>3, SocketFacts
  <2> QED BY <2>1 DEF Learns
<1>15. LinkTypes'
       BY <1>7, SocketFacts DEF LinkTypes
<1> QED BY <1>3, <1>7, <1>12, <1>13, <1>14, <1>15, OneSocket

\* The session asked for is there: its route is replaced, and the new one is told how it looks.
LEMMA AttachTaken ==
  ASSUME LinkInv, NEW k \in Sockets, wire[k].up # <<>>, Head(wire[k].up).type = "attach",
         client' = client, NEW a \in Sessions, a = Head(wire[k].up).arg, sess[a].phase = "live",
         link' = [link EXCEPT ![k].session = a], attach([wire EXCEPT ![k].up = Tail(@)], a, k)
  PROVE  LinkInv'
<1> DEFINE w == [wire EXCEPT ![k].up = Tail(@)]
           t == Tail(wire[k].up)
           d == wire[k].down
           o == sess[a].sink
           l == [link[k] EXCEPT !.session = a]
           r == Attached(sess[a], k)
           yes == <<Event("accepted", a)>>
           now == <<Showing(a, Shown(a).turn, Shown(a).dead)>>
           v == emit(w, o, yes)
<1>1. /\ Read(w) /\ w[k].up = t /\ \A j \in Sockets : j # k => w[j] = wire[j]
      BY ReadOne
<1>2. /\ NoAsk(t) /\ NoForget(d) /\ link[k].start = "none"
      /\ link[k].session = 0 /\ k <= client.used
      /\ \A s \in Sessions : sess[s].sink # k
      /\ client.socket = k => \A i \in DOMAIN d : d[i].of = 0
      /\ client.socket = k => client.session = a
      BY AskedFirst DEF Seeks
<1>3. /\ sess' = [sess EXCEPT ![a] = r] /\ wire' = emit(v, k, now)
      BY DEF attach
<1>4. /\ d \in Seq(Events) /\ sess[a] \in Talks /\ o \in 0..MaxSockets /\ k \in 0..MaxSockets /\ o # k /\ a \in 0..MaxSessions /\ a # 0
      /\ RouteOK(a)
  <2>1. sess[a] \in Talks /\ RouteOK(a) /\ d \in Seq(Events)
        BY SocketFacts
  <2>2. o \in 0..MaxSockets /\ o # k
        BY <1>2, <2>1 DEF Talks
  <2>3. k \in 0..MaxSockets /\ a \in 0..MaxSessions /\ a # 0
        BY LinkAssumption DEF Sockets, Sessions
  <2> QED BY <2>1, <2>2, <2>3
<1>5. Shown(a) \in Views
      BY <1>4 DEF Shown, Views, Talks
<1>6. /\ yes \in Seq(Events) /\ NoForget(yes) /\ \A i \in DOMAIN yes : yes[i].of = a
      /\ now \in Seq(Events) /\ NoForget(now) /\ Tells(now, Shown(a)) /\ \A i \in DOMAIN now : now[i].of = a
  <2> DEFINE x == Shown(a)
  <2>1. x \in Views
        BY <1>5
  <2> HIDE DEF x
  <2>2. /\ <<Event("accepted", a)>> \in Seq(Events) /\ NoForget(<<Event("accepted", a)>>)
        /\ \A i \in DOMAIN <<Event("accepted", a)>> : <<Event("accepted", a)>>[i].of = a
        BY <1>4, <2>1, Words
  <2>3. LET e == <<Showing(a, x.turn, x.dead)>> IN
        e \in Seq(Events) /\ NoForget(e) /\ Tells(e, x) /\ \A i \in DOMAIN e : e[i].of = a
    <3>1. "accepted" \in {"accepted", "rejected", "media.config"} /\ a \in 0..MaxSessions
          BY <1>4
    <3> QED BY ONLY <2>1, <3>1, Words
  <2> QED BY <2>2, <2>3 DEF x
<1> HIDE DEF w, t, d, o, yes, now, v
<1>7. w \in [Sockets -> Wires] /\ \A j \in Sockets : w[j].down = wire[j].down /\ w[j].alive = wire[j].alive
      BY <1>1 DEF Read
<1>8. /\ v \in [Sockets -> Wires]
      /\ \A j \in Sockets : v[j].up = w[j].up /\ v[j].alive = w[j].alive
      /\ \A j \in Sockets : v[j].down = IF j = o /\ w[j].alive THEN w[j].down \o yes ELSE w[j].down
  <2>1. w \in [Sockets -> Wires] /\ o \in 0..MaxSockets /\ yes \in Seq(Events) /\ v = emit(w, o, yes)
        BY <1>4, <1>6, <1>7 DEF v
  <2> QED BY ONLY <2>1, EmitIs
<1>9. /\ wire' \in [Sockets -> Wires]
      /\ \A j \in Sockets : wire'[j].up = v[j].up /\ wire'[j].alive = v[j].alive
      /\ \A j \in Sockets : wire'[j].down = IF j = k /\ v[j].alive THEN v[j].down \o now ELSE v[j].down
  <2>1. v \in [Sockets -> Wires] /\ k \in 0..MaxSockets /\ now \in Seq(Events) /\ wire' = emit(v, k, now)
        BY <1>3, <1>4, <1>6, <1>8
  <2> QED BY ONLY <2>1, EmitIs
<1>10. link' = [link EXCEPT ![k] = l] /\ l \in Links /\ l.start = "none" /\ l.session = a
       BY <1>2, <1>4, SocketFacts DEF Links
<1> HIDE DEF l
<1>11. link' \in [Sockets -> Links] /\ link'[k] = l /\ \A j \in Sockets : j # k => link'[j] = link[j]
       BY <1>10, SocketFacts
<1>12. r \in Talks /\ r.phase = "live" /\ r.sink = k /\ r.turn = sess[a].turn
       BY <1>4 DEF Attached, Talks
<1> HIDE DEF r
<1>13. sess' \in [Sessions -> Talks] /\ sess'[a] = r /\ \A x \in Sessions : x # a => sess'[x] = sess[x]
       BY <1>3, <1>12, SocketFacts
<1>14. LinkTypes' /\ client'.socket <= client'.used
       BY <1>9, <1>11, <1>13 DEF LinkInv, LinkTypes
<1> DEFINE c == wire'[k].down
           es == IF wire[k].alive THEN now ELSE <<>>
<1>15. /\ wire'[k].up = t /\ wire'[k].alive = wire[k].alive /\ c = IF wire[k].alive THEN d \o now ELSE d
       BY <1>1, <1>4, <1>7, <1>8, <1>9 DEF d
<1> HIDE DEF c
<1>16. /\ NoForget(c) /\ (wire[k].alive => Tells(c, Shown(a)))
       /\ client.socket = k => \A i \in DOMAIN c : c[i].of \in {0, a}
  <2>1. CASE wire[k].alive
    <3>1. c = d \o now /\ d \in Seq(Events) /\ now \in Seq(Events) /\ NoForget(d) /\ NoForget(now) /\ Tells(now, Shown(a))
          BY <1>2, <1>4, <1>6, <1>15, <2>1
    <3>2. NoForget(c) /\ Tells(c, Shown(a))
          BY ONLY <3>1, ToldMore
    <3>3. ASSUME client.socket = k PROVE \A i \in DOMAIN c : c[i].of \in {0, a}
      <4>1. (\A i \in DOMAIN d : d[i].of \in {0, a}) /\ \A i \in DOMAIN now : now[i].of \in {0, a}
            BY <1>2, <1>6, <3>3
      <4> QED BY ONLY <3>1, <4>1, ToldMore
    <3> QED BY <3>2, <3>3
  <2>2. CASE ~wire[k].alive
        BY <1>2, <1>15, <2>2
  <2> QED BY <2>1, <2>2
<1>17. Answered(wire'[k], link'[k].start)
       BY <1>2, <1>10, <1>11, <1>15, <1>16 DEF Answered, c
<1>18. \A i \in DOMAIN t : t[i].type \notin {"start", "attach"}
       BY <1>2 DEF NoAsk, Seeks
<1>19. ~(k > client.used)
       BY <1>2, SocketFacts, LinkAssumption DEF Sockets
<1>20. SocketOK(k)'
  <2>1. AsksOnce(wire'[k], link'[k].start)
        BY <1>17 DEF Answered, AsksOnce
  <2> QED BY <1>10, <1>11, <1>15, <1>17, <1>18, <1>19, <2>1 DEF SocketOK
<1>21. ASSUME NEW j \in Sockets, j # k
       PROVE  /\ SocketOK(j)' /\ (Answered(wire[j], link[j].start) => Answered(wire'[j], link'[j].start))
              /\ (client.socket = j => Knows(j)')
              /\ wire'[j].alive = wire[j].alive /\ (j # o => wire'[j].down = wire[j].down)
  <2> DEFINE fs == IF j = o /\ wire[j].alive THEN yes ELSE <<>>
  <2>1. /\ wire'[j].up = wire[j].up /\ wire'[j].alive = wire[j].alive
        /\ wire'[j].down = IF j = o /\ wire[j].alive THEN wire[j].down \o yes ELSE wire[j].down
        BY <1>1, <1>7, <1>8, <1>9, <1>21
  <2>2. Hears(j, fs)
    <3> DEFINE b == wire[j].down
    <3>1. b \in Seq(Events) /\ <<>> \in Seq(Events) /\ NoForget(<<>>)
          BY SocketFacts DEF NoForget
    <3>2. b \o <<>> = b
      <4> HIDE DEF b
      <4> QED BY ONLY <3>1, ConcatEmptySeq
    <3>3. wire'[j].down = b \o fs
          BY <2>1, <3>2
    <3>4. fs \in Seq(Events) /\ NoForget(fs) /\ (fs # <<>> => wire[j].alive)
          BY <1>6, <3>1
    <3> QED BY <2>1, <3>3, <3>4 DEF Hears, ReadsOn
  <2>3. Settles(link[j], link'[j])
        BY <1>11, <1>21 DEF Settles
  <2>4. \A i \in DOMAIN fs : fs[i].of = 0 \/ (Answered(wire[j], link[j].start) /\ link[j].session \in {0, fs[i].of})
    <3>1. \A i \in DOMAIN <<>> : FALSE
          OBVIOUS
    <3>2. CASE j = o /\ wire[j].alive
      <4>1. Answered(wire[j], link[j].start) /\ link[j].session \in {0, a}
            BY <1>4, <3>2 DEF RouteOK, o
      <4> QED BY <1>6, <3>2, <4>1
    <3>3. CASE ~(j = o /\ wire[j].alive)
          BY <3>1, <3>3
    <3> QED BY <3>2, <3>3
  <2> HIDE DEF fs
  <2>5. /\ SocketOK(j)'
        /\ Answered(wire[j], link[j].start) => Answered(wire'[j], link'[j].start)
        /\ Knows(j) => Knows(j)'
        BY <1>14, <2>2, <2>3, <2>4, HearsKeeps
  <2> QED BY <2>1, <2>5, SocketFacts
<1>22. ASSUME NEW x \in Sessions PROVE RouteOK(x)'
  <2>1. RouteOK(x)
        BY SocketFacts
  <2>2. CASE x = a
        BY <1>2, <1>10, <1>11, <1>12, <1>13, <1>17, <2>2 DEF RouteOK
  <2>3. CASE x # a
        BY <1>2, <1>10, <1>11, <1>13, <1>21, <2>1, <2>3 DEF RouteOK
  <2> QED BY <2>2, <2>3
<1>23. client.socket = k => Knows(k)'
       BY <1>2, <1>10, <1>11, <1>15, <1>16, <1>17, <1>18 DEF Knows, c
<1>24. Shown(a)' = Shown(a)
       BY <1>12, <1>13 DEF Shown
<1>25. ASSUME NEW j \in Sockets, NEW x \in Sessions PROVE Learns(j, x)'
  <2>1. Learns(j, x) /\ RouteOK(a) /\ x # 0
        BY SocketFacts
  <2>2. CASE j = k
    <3>1. SUFFICES ASSUME client.socket = k, x = a, wire[k].alive PROVE client.session = a /\ Ends(c, client.view, Shown(a)')
          BY <1>10, <1>11, <1>15, <2>2 DEF Learns, c
    <3> QED BY <1>2, <1>16, <1>24, <3>1 DEF Ends
  <2>3. CASE j # k /\ x = a
        BY <1>12, <1>13, <2>3 DEF Learns
  <2>4. CASE j # k /\ x # a
    <3>1. link'[j] = link[j] /\ sess'[x] = sess[x] /\ wire'[j].alive = wire[j].alive
          BY <1>11, <1>13, <1>21, <2>4
    <3>2. CASE link[j].session # x
          BY <3>1, <3>2 DEF Learns
    <3>3. CASE link[j].session = x
      <4>1. j # o
            BY <2>1, <2>4, <3>3 DEF RouteOK, o
      <4> QED BY <1>21, <2>1, <2>4, <3>1, <4>1 DEF Learns, Shown
    <3> QED BY <3>2, <3>3
  <2> QED BY <2>2, <2>3, <2>4
<1> QED BY <1>14, <1>20, <1>21, <1>22, <1>23, <1>25 DEF LinkInv

\* The gateway handles a message of a socket.
LEMMA MessageKeeps ==
  ASSUME LinkInv, NEW k \in Sockets, message(k)
  PROVE  LinkInv'
<1> DEFINE u == wire[k].up
           c == Head(u)
           w == [wire EXCEPT ![k].up = Tail(@)]
           s == link[k].session
<1>1. client' = client /\ u # <<>>
      BY DEF message
<1>2. Read(w) /\ c \in Commands /\ \A j \in Sockets : j # k => w[j] = wire[j]
      BY <1>1, ReadOne
<1>3. s \in 0..MaxSessions /\ (s # 0 => s \in Sessions)
      BY SocketFacts DEF Links, Sessions
<1>4. CASE link[k].start # "none"
  <2>1. wire' = emit(w, k, <<Event("rejected", 0)>>) /\ link' = link /\ sess' = sess
        BY <1>4 DEF message
  <2> HIDE DEF w
  <2> QED BY <1>1, <1>2, <1>4, <2>1, MessageRefused
<1>5. CASE link[k].start = "none" /\ s # 0
  <2>1. handleCommand(w, s, c) /\ UNCHANGED <<client, link>>
        BY <1>5 DEF message
  <2> HIDE DEF w, c, s
  <2> QED BY <1>2, <1>3, <1>5, <2>1, CommandHandled
<1>6. CASE link[k].start = "none" /\ s = 0
  <2>1. handleFirstCommand(w, k, c)
        BY <1>6 DEF message
  <2>2. CASE c.type = "start"
    <3>1. link' = [link EXCEPT ![k].start = "resolving"] /\ wire' = w /\ sess' = sess
          BY <2>1, <2>2 DEF handleFirstCommand
    <3> QED BY <1>1, <2>2, <3>1, StartTaken
  <2>3. CASE c.type = "attach" /\ Lives(c.arg)
    <3>1. link' = [link EXCEPT ![k].session = c.arg] /\ attach(w, c.arg, k)
          BY <2>1, <2>3 DEF handleFirstCommand
    <3>2. c.arg \in Sessions
          BY <1>1, <2>3, AskedFirst DEF Seeks
    <3> QED BY <1>1, <2>3, <3>1, <3>2, AttachTaken DEF Lives
  <2>4. CASE c.type = "attach" /\ ~Lives(c.arg)
    <3>1. wire' = emit(w, k, <<Event("unknown_session", c.arg)>>) /\ link' = link /\ sess' = sess
          BY <2>1, <2>4 DEF handleFirstCommand
    <3>2. c.arg \in Sessions
          BY <1>1, <2>4, AskedFirst DEF Seeks
    <3> QED BY <1>1, <2>4, <3>1, <3>2, AttachUnknown
  <2>5. CASE c.type \notin {"start", "attach"}
    <3>1. wire' = emit(w, k, <<Event("rejected", 0)>>) /\ link' = link /\ sess' = sess
          BY <2>1, <2>5 DEF handleFirstCommand
    <3> HIDE DEF w
    <3> QED BY <1>1, <1>2, <1>6, <3>1, MessageRefused
  <2> QED BY <2>2, <2>3, <2>4, <2>5
<1> QED BY <1>4, <1>5, <1>6

\* Nothing happens.
LEMMA LinkStutters ==
  ASSUME LinkInv, UNCHANGED linkVars
  PROVE  LinkInv'
BY DEF LinkInv, linkVars, LinkTypes, SocketOK, RouteOK, Knows, Learns, Shown

LEMMA LinkStarts == LinkInit => LinkInv
<1> SUFFICES ASSUME LinkInit PROVE LinkInv
    OBVIOUS
<1>1. client = [socket |-> 0, used |-> 0, session |-> 0, closed |-> FALSE, sent |-> 0, view |-> [turn |-> 0, dead |-> FALSE]]
      BY DEF LinkInit
<1>2. NoWire \in Wires /\ NoLink \in Links /\ NoSession \in Talks
  <2>1. <<>> \in Seq(Commands) /\ <<>> \in Seq(Events) /\ 0 \in 0..MaxSockets /\ 0 \in 0..MaxSessions /\ 0 \in Nat
        BY LinkAssumption
  <2> QED BY <2>1 DEF NoWire, NoLink, NoSession, Wires, Links, Talks
<1>3. LinkTypes
  <2>1. [turn |-> 0, dead |-> FALSE] \in Views /\ 0 \in 0..MaxSockets /\ 0 \in 0..MaxSessions
        BY LinkAssumption DEF Views
  <2>2. client \in Clients
        BY <1>1, <2>1 DEF Clients
  <2> QED BY <1>2, <2>2 DEF LinkInit, LinkTypes
<1>4. \A k \in Sockets : wire[k] = NoWire /\ link[k] = NoLink /\ k # 0
      BY LinkAssumption DEF LinkInit, Sockets
<1>5. \A s \in Sessions : sess[s] = NoSession /\ s # 0
      BY LinkAssumption DEF LinkInit, Sessions
<1>6. client.socket = 0 /\ client.used = 0
      BY <1>1
<1>7. \A k \in Sockets : SocketOK(k)
      BY <1>4 DEF SocketOK, AsksOnce, NoWire, NoLink, NoAsk, NoForget
<1>8. \A s \in Sessions : RouteOK(s)
      BY <1>4, <1>5 DEF RouteOK, NoSession, NoLink
<1>9. \A k \in Sockets : client.socket # k
      BY <1>4, <1>6
<1> QED BY <1>3, <1>6, <1>7, <1>8, <1>9 DEF LinkInv, Learns

\* The invariant of the session link.
THEOREM LinkInvariant == LinkSpec => []LinkInv
<1>1. LinkInit => LinkInv
      BY LinkStarts
<1>2. LinkInv /\ [LinkNext]_linkVars => LinkInv'
  <2> SUFFICES ASSUME LinkInv, [LinkNext]_linkVars PROVE LinkInv'
      OBVIOUS
  <2>1. client.socket \in 0..MaxSockets /\ client.used \in Nat /\ (client.socket # 0 => client.socket \in Sockets)
        BY LinkAssumption DEF LinkInv, LinkTypes, Clients, Sockets
  <2>2. CASE connect
    <3>1. client.used + 1 \in Sockets
          BY <2>1, <2>2, LinkAssumption DEF connect, Sockets
    <3> QED BY <2>2, <3>1, ConnectKeeps
  <2>3. CASE onMessage
        BY <2>1, <2>3, OnMessageKeeps DEF onMessage
  <2>4. CASE onClose
        BY <2>1, <2>4, OnCloseKeeps DEF onClose
  <2>5. CASE UserCommands
        BY <2>1, <2>5, UserCommandsKeeps DEF UserCommands
  <2>6. CASE UserLeaves
        BY <2>1, <2>6, UserLeavesKeeps, UserLeavesUnheard
  <2>7. CASE \E k \in Sockets : Breaks(k) \/ message(k) \/ close(k) \/ Resolved(k) \/ Started(k) \/ StartFails(k)
        BY <2>7, BreaksKeeps, MessageKeeps, CloseKeeps, ResolvedKeeps, StartsSettle
  <2>8. CASE \E s \in Sessions : TurnStarts(s) \/ TurnEnds(s) \/ EndsItself(s) \/ GraceFires(s)
        BY <2>8, SessionSteps
  <2>9. CASE UNCHANGED linkVars
        BY <2>9, LinkStutters
  <2> QED BY <2>2, <2>3, <2>4, <2>5, <2>6, <2>7, <2>8, <2>9 DEF LinkNext
<1> QED BY <1>1, <1>2, PTL DEF LinkSpec

\* client.ts, session.ts attach: a client on the session's route shows the session as it is once
\* nothing is in flight, however many sockets it went through.
THEOREM ClientCatchesUp == LinkSpec => []CaughtUp
<1>1. LinkInv => CaughtUp
  <2> SUFFICES ASSUME LinkInv, NEW k \in Sockets, NEW s \in Sessions,
                      client.socket = k, link[k].session = s, sess[s].sink = k,
                      wire[k].alive, wire[k].down = <<>>, link[k].start = "none"
               PROVE  client.session = s /\ client.view = Shown(s)
      BY DEF CaughtUp
  <2>1. /\ client.session = s \/ \E i \in DOMAIN wire[k].down : wire[k].down[i].of = s
        /\ Ends(wire[k].down, client.view, Shown(s))
        BY SocketFacts DEF Learns
  <2>2. \A i \in DOMAIN wire[k].down : FALSE
        OBVIOUS
  <2> QED BY <2>1, <2>2 DEF Ends, Tells
<1> QED BY <1>1, LinkInvariant, PTL
=============================================================================
