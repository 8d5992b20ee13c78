------------------------ MODULE ConversationLoop_proofs ------------------------
(***************************************************************************)
(* What the conversation loop keeps, for any number of turns, revisions,   *)
(* tool calls and kinds of session.  The inductive invariant ties the      *)
(* dispatches to the kernel's handles: a dispatch that is still at work    *)
(* was either told to stop or works for the active turn, and while a turn  *)
(* is captured nobody has begun to answer it.  The lemmas about single     *)
(* kernel methods are those of DuplexKernel_proofs.                        *)
(***************************************************************************)
EXTENDS ConversationLoop, DuplexKernel_proofs

\* A session d whose turn is being answered.
Answering(d) == d.state \in {"thinking", "speaking"}

\* Only handles the kernel gave out have a dispatch.
WorkIsHandedOut(d, w) ==
    \A h \in Handles : w[h].at # "unstarted" => h \in HandedOut(d)

\* A dispatch at work was told to stop, or works for the turn being answered.
LiveWorkIsCurrent(d, w) ==
    \A h \in Handles :
        w[h].at \in Suspensions =>
            h \in d.aborted \/ (h = Current(d) /\ Answering(d))

\* A turn being answered has a dispatch at work; one being captured has none.
CurrentIsWorked(d, w) ==
    /\ Answering(d) => w[Current(d)].at \in Suspensions
    /\ d.state = "speech_started" => w[Current(d)].at = "unstarted"
    /\ d.state = "speaking" => w[Current(d)].voiced

\* A completed turn's dispatch has returned.
FinishedIsDone(d, w) == \A h \in d.finished : w[h].at = "done"

\* The dispatches w agree with the session d.
BookInv(d, w) ==
    /\ SessionInv(d)
    /\ d.state \notin {"idle", "finalizing"}
    /\ WorkIsHandedOut(d, w)
    /\ LiveWorkIsCurrent(d, w)
    /\ CurrentIsWorked(d, w)
    /\ FinishedIsDone(d, w)

\* The shape of a dispatch that makes at most n tool calls.
WorkRecords(n) ==
    [at : Suspensions \cup {"unstarted", "done"},
     kind : {"user", "text", "agent", "welcome"},
     offered : Handles \cup {NoHandle},
     said : BOOLEAN, acted : BOOLEAN, calls : 0..n, voiced : BOOLEAN]

-----------------------------------------------------------------------------
(* Handles.                                                                *)

\* A handle given out is stopped, or is the active turn's last; and only
\* handles given out are stopped.
LEMMA OverOrCurrent ==
  ASSUME NEW d, SessionInv(d)
  PROVE  /\ d.aborted \cup d.finished \subseteq HandedOut(d)
         /\ \A h \in HandedOut(d) : \/ h \in d.aborted \cup d.finished
                                    \/ d.turn # 0 /\ h = Current(d)
         /\ d.turn # 0 => Current(d) \in HandedOut(d) \ (d.aborted \cup d.finished)
<1>1. d \in Records /\ StopsHandedOut(d) /\ StopsOthers(d)
  BY DEF SessionInv
<1>2. \A h \in Handles : \E t \in TurnIds, r \in 0..MaxRevision : h = <<t, r>>
  BY DEF Handles
<1>3. d.aborted \cup d.finished \subseteq HandedOut(d)
  <2>1. d.aborted \subseteq Handles /\ d.finished \subseteq Handles
    BY <1>1, Fields
  <2> QED
    BY <1>1, <1>2, <2>1 DEF HandedOut, StopsHandedOut
<1>4. ASSUME NEW h \in HandedOut(d)
      PROVE  h \in d.aborted \cup d.finished \/ (d.turn # 0 /\ h = Current(d))
  <2>1. PICK t \in TurnIds, r \in 0..MaxRevision : h = <<t, r>>
    BY <1>2 DEF HandedOut
  <2>2. t <= d.issued /\ r <= d.revs[t]
    BY <2>1 DEF HandedOut
  <2>3. h \notin d.aborted \cup d.finished => t = d.turn /\ r = d.revs[t]
    BY <1>1, <2>1, <2>2 DEF StopsOthers
  <2> QED
    BY <2>1, <2>3, TurnIdsNat DEF Current
<1>5. ASSUME d.turn # 0
      PROVE  Current(d) \in HandedOut(d) \ (d.aborted \cup d.finished)
  <2>1. /\ d.turn \in TurnIds /\ d.revs[d.turn] \in 0..MaxRevision
        /\ d.turn = d.issued /\ d.turn \in Nat /\ d.revs[d.turn] \in Nat
    BY <1>5, ActiveTurn, TurnIdsNat, KernelAssumption
  <2>2. d.turn <= d.issued /\ d.revs[d.turn] <= d.revs[d.turn]
    BY <2>1
  <2>3. Current(d) \notin d.aborted \cup d.finished
    BY <1>1, <2>1, <2>2 DEF StopsOthers, Current
  <2> QED
    BY <2>1, <2>2, <2>3, HandlePairs DEF HandedOut, Current
<1> QED
  BY <1>3, <1>4, <1>5

\* What is answered, captured or spoken is the active turn.
LEMMA TurnOf ==
  ASSUME NEW d, SessionInv(d)
  PROVE  /\ Answering(d) \/ d.state = "speech_started" => d.turn # 0
         /\ d.turn # 0 /\ d.state \notin {"idle", "finalizing"} =>
               Answering(d) \/ d.state = "speech_started"
  BY DEF SessionInv, Matches, TurnStates, Answering

\* A handle given out stays given out.
LEMMA HandedOutGrows ==
  ASSUME NEW d, SessionInv(d), NEW f, SessionInv(f),
         f.issued \in {d.issued, d.issued + 1},
         \A t \in TurnIds : f.revs[t] \in {d.revs[t], d.revs[t] + 1}
  PROVE  HandedOut(d) \subseteq HandedOut(f)
<1>1. d.issued \in Nat /\ \A t \in TurnIds : d.revs[t] \in Nat /\ t \in Nat
  BY Fields, KernelAssumption, TurnIdsNat DEF SessionInv
<1>2. \A h \in Handles : h[1] \in TurnIds /\ h[2] \in Nat
  BY KernelAssumption DEF Handles
<1> QED
  BY <1>1, <1>2 DEF HandedOut

\* The next turn's handle was not given out yet.
LEMMA NextTurnIsFresh ==
  ASSUME NEW d, SessionInv(d), d.issued < MaxTurns
  PROVE  /\ <<d.issued + 1, 0>> \in Handles \ HandedOut(d)
         /\ d.revs[d.issued + 1] = 0
<1>1. d.issued \in Nat /\ d.issued + 1 \in TurnIds /\ d.issued + 1 > d.issued
  BY Fields, KernelAssumption, TurnIdsNat DEF SessionInv
<1>2. d.revs[d.issued + 1] = 0
  BY <1>1 DEF SessionInv, Unrevised
<1>3. 0 \in 0..MaxRevision /\ ~(d.issued + 1 <= d.issued)
  BY <1>1, KernelAssumption
<1> QED
  BY <1>1, <1>2, <1>3, HandlePairs DEF HandedOut

\* So was not the next revision's.
LEMMA NextRevisionIsFresh ==
  ASSUME NEW d, SessionInv(d), NEW t \in TurnIds
  PROVE  <<t, d.revs[t] + 1>> \notin HandedOut(d)
<1>1. d.revs[t] \in Nat
  BY Fields, KernelAssumption DEF SessionInv
<1> QED
  BY <1>1 DEF HandedOut

-----------------------------------------------------------------------------
(* What a step of the kernel and of the dispatches does to their agreement.*)

\* Two assignments of dispatches that are suspended at the same places.
SameAt(w, v) == \A h \in Handles : v[h].at = w[h].at

\* A suspended dispatch that was not told to stop works for the active turn.
LEMMA UnabortedIsCurrent ==
  ASSUME NEW d, NEW w, BookInv(d, w), NEW h \in Handles,
         w[h].at \in Suspensions, h \notin d.aborted
  PROVE  h = Current(d) /\ h[1] = d.turn /\ d.turn # 0 /\ Answering(d)
<1>1. h = Current(d) /\ Answering(d)
  BY DEF BookInv, LiveWorkIsCurrent
<1>2. d.turn # 0
  BY <1>1, TurnOf DEF BookInv
<1> QED
  BY <1>1, <1>2 DEF Current

\* A dispatch goes on within its turn.
LEMMA WorkGoesOn ==
  ASSUME NEW d, NEW n, NEW w \in [Handles -> WorkRecords(n)], BookInv(d, w),
         NEW h \in Handles, w[h].at \in Suspensions,
         NEW u, u.at \in Suspensions, w[h].voiced => u.voiced
  PROVE  BookInv(d, [w EXCEPT ![h] = u])
<1> DEFINE v == [w EXCEPT ![h] = u]
<1>1. v[h] = u /\ \A k \in Handles : k # h => v[k] = w[k]
  OBVIOUS
<1> HIDE DEF v
<1>2. "unstarted" \notin Suspensions /\ "done" \notin Suspensions
  BY DEF Suspensions
<1>3. \A k \in Handles : /\ v[k].at \in Suspensions <=> w[k].at \in Suspensions
                         /\ v[k].at = "unstarted" <=> w[k].at = "unstarted"
                         /\ v[k].at = "done" <=> w[k].at = "done"
                         /\ w[k].voiced => v[k].voiced
  BY <1>1, <1>2
<1>4. d.turn # 0 => Current(d) \in Handles
  BY OverOrCurrent DEF BookInv, HandedOut
<1>5. Answering(d) \/ d.state = "speech_started" \/ d.state = "speaking" => d.turn # 0
  BY TurnOf DEF BookInv, Answering
<1>6. d.finished \subseteq Handles
  BY Fields DEF BookInv, SessionInv
<1>7. WorkIsHandedOut(d, v) /\ LiveWorkIsCurrent(d, v) /\ FinishedIsDone(d, v)
  BY <1>3, <1>6 DEF BookInv, WorkIsHandedOut, LiveWorkIsCurrent, FinishedIsDone
<1>8. CurrentIsWorked(d, v)
  BY <1>3, <1>4, <1>5 DEF BookInv, CurrentIsWorked
<1> QED
  BY <1>7, <1>8 DEF BookInv, v

\* A dispatch that was told to stop returns.
LEMMA AbortedReturns ==
  ASSUME NEW d, NEW n, NEW w \in [Handles -> WorkRecords(n)], BookInv(d, w),
         NEW h \in Handles, w[h].at \in Suspensions, h \in d.aborted,
         NEW u, u.at = "done"
  PROVE  BookInv(d, [w EXCEPT ![h] = u])
<1> DEFINE v == [w EXCEPT ![h] = u]
<1>1. v[h] = u /\ \A k \in Handles : k # h => v[k] = w[k]
  OBVIOUS
<1> HIDE DEF v
<1>2. "unstarted" \notin Suspensions /\ "done" \notin Suspensions
  BY DEF Suspensions
<1>3. d.turn # 0 => Current(d) \in Handles /\ Current(d) # h
  BY OverOrCurrent DEF BookInv, HandedOut
<1>4. Answering(d) \/ d.state = "speech_started" \/ d.state = "speaking" => d.turn # 0
  BY TurnOf DEF BookInv, Answering
<1>5. d.finished \subseteq Handles
  BY Fields DEF BookInv, SessionInv
<1>6. WorkIsHandedOut(d, v) /\ LiveWorkIsCurrent(d, v) /\ FinishedIsDone(d, v)
  BY <1>1, <1>2, <1>5 DEF BookInv, WorkIsHandedOut, LiveWorkIsCurrent, FinishedIsDone
<1>7. CurrentIsWorked(d, v)
  BY <1>1, <1>3, <1>4 DEF BookInv, CurrentIsWorked
<1> QED
  BY <1>6, <1>7 DEF BookInv, v

\* The active turn's own dispatch ends it and returns.
LEMMA WorkEnds ==
  ASSUME NEW d, NEW n, NEW w \in [Handles -> WorkRecords(n)], BookInv(d, w),
         NEW h \in Handles, w[h].at \in Suspensions, h \notin d.aborted,
         NEW f, SessionInv(f), f.turn = 0, f.state = "listening",
         f.issued = d.issued, f.revs = d.revs,
         d.aborted \subseteq f.aborted, f.finished \subseteq d.finished \cup {Current(d)},
         NEW u, u.at = "done"
  PROVE  BookInv(f, [w EXCEPT ![h] = u])
<1> DEFINE v == [w EXCEPT ![h] = u]
<1>1. v[h] = u /\ \A k \in Handles : k # h => v[k] = w[k]
  OBVIOUS
<1> HIDE DEF v
<1>2. h = Current(d)
  BY UnabortedIsCurrent
<1>3. "unstarted" \notin Suspensions /\ "done" \notin Suspensions
  BY DEF Suspensions
<1>4. HandedOut(f) = HandedOut(d)
  BY DEF HandedOut
<1>5. d.finished \subseteq Handles
  BY Fields DEF BookInv, SessionInv
<1>6. WorkIsHandedOut(f, v)
  BY <1>1, <1>3, <1>4 DEF BookInv, WorkIsHandedOut
<1>7. LiveWorkIsCurrent(f, v)
  BY <1>1, <1>2, <1>3 DEF BookInv, LiveWorkIsCurrent
<1>8. FinishedIsDone(f, v)
  BY <1>1, <1>2, <1>5 DEF BookInv, FinishedIsDone
<1>9. CurrentIsWorked(f, v)
  BY DEF CurrentIsWorked, Answering
<1> QED
  BY <1>6, <1>7, <1>8, <1>9 DEF BookInv, v

\* The active turn's dispatch gets a first sound through to its player.
LEMMA WorkSpeaks ==
  ASSUME NEW d, NEW n, NEW w \in [Handles -> WorkRecords(n)], BookInv(d, w),
         NEW h \in Handles, w[h].at \in Suspensions, h \notin d.aborted,
         NEW f, SessionInv(f), SameBook(d, f), f.state = "speaking",
         NEW u, u.at \in Suspensions, u.voiced
  PROVE  BookInv(f, [w EXCEPT ![h] = u])
<1> DEFINE v == [w EXCEPT ![h] = u]
<1>1. v[h] = u /\ \A k \in Handles : k # h => v[k] = w[k]
  OBVIOUS
<1> HIDE DEF v
<1>2. h = Current(d) /\ Current(f) = Current(d)
  BY UnabortedIsCurrent DEF Current, SameBook
<1>3. "unstarted" \notin Suspensions /\ "done" \notin Suspensions
  BY DEF Suspensions
<1>4. HandedOut(f) = HandedOut(d) /\ f.aborted = d.aborted /\ f.finished = d.finished
  BY DEF HandedOut, SameBook
<1>5. d.finished \subseteq Handles
  BY Fields DEF BookInv, SessionInv
<1>6. WorkIsHandedOut(f, v)
  BY <1>1, <1>3, <1>4 DEF BookInv, WorkIsHandedOut
<1>7. LiveWorkIsCurrent(f, v)
  BY <1>1, <1>2, <1>4 DEF BookInv, LiveWorkIsCurrent, Answering
<1>8. FinishedIsDone(f, v)
  BY <1>1, <1>3, <1>4, <1>5 DEF BookInv, FinishedIsDone
<1>9. CurrentIsWorked(f, v)
  BY <1>1, <1>2 DEF CurrentIsWorked, Answering
<1> QED
  BY <1>6, <1>7, <1>8, <1>9 DEF BookInv, v

\* The active turn ends and nobody returns yet.
LEMMA TurnStops ==
  ASSUME NEW d, NEW w, BookInv(d, w), NEW v, SameAt(w, v),
         NEW f, SessionInv(f), f.turn = 0, f.state \in {"listening", "closed"},
         f.issued = d.issued, f.revs = d.revs, Stopped(d, f)
  PROVE  BookInv(f, v)
<1>1. HandedOut(f) = HandedOut(d)
  BY DEF HandedOut
<1>2. d.finished \subseteq Handles /\ f.finished = d.finished /\ d.aborted \subseteq f.aborted
  BY Fields DEF BookInv, SessionInv, Stopped
<1>3. Answering(d) => d.turn # 0
  BY TurnOf DEF BookInv
<1>4. WorkIsHandedOut(f, v) /\ FinishedIsDone(f, v)
  BY <1>1, <1>2 DEF BookInv, WorkIsHandedOut, FinishedIsDone, SameAt
<1>5. LiveWorkIsCurrent(f, v)
  BY <1>2, <1>3 DEF BookInv, LiveWorkIsCurrent, SameAt, Stopped
<1>6. CurrentIsWorked(f, v)
  BY DEF CurrentIsWorked, Answering
<1> QED
  BY <1>4, <1>5, <1>6 DEF BookInv

\* A handle given out just now is captured for; whoever worked was stopped.
LEMMA CaptureBegins ==
  ASSUME NEW d, NEW w, BookInv(d, w), NEW v, SameAt(w, v),
         NEW f, SessionInv(f), f.state = "speech_started", Stopped(d, f),
         HandedOut(d) \subseteq HandedOut(f), Current(f) \in Handles \ HandedOut(d)
  PROVE  BookInv(f, v)
<1>1. d.finished \subseteq Handles /\ f.finished = d.finished
  BY Fields DEF BookInv, SessionInv, Stopped
<1>2. Answering(d) => d.turn # 0
  BY TurnOf DEF BookInv
<1>3. WorkIsHandedOut(f, v) /\ FinishedIsDone(f, v)
  BY <1>1 DEF BookInv, WorkIsHandedOut, FinishedIsDone, SameAt
<1>4. LiveWorkIsCurrent(f, v)
  BY <1>2 DEF BookInv, LiveWorkIsCurrent, SameAt, Stopped
<1>5. CurrentIsWorked(f, v)
  BY DEF BookInv, WorkIsHandedOut, CurrentIsWorked, Answering, SameAt
<1> QED
  BY <1>3, <1>4, <1>5 DEF BookInv

\* A turn opened past capture starts with its dispatch at work.
LEMMA AnswerBegins ==
  ASSUME NEW d, NEW w, BookInv(d, w),
         NEW n, NEW v \in [Handles -> WorkRecords(n)], SameAt(w, v),
         NEW f, SessionInv(f), f.state = "thinking", Stopped(d, f),
         HandedOut(d) \subseteq HandedOut(f), Current(f) \in Handles \ HandedOut(d),
         NEW u, u.at \in Suspensions
  PROVE  BookInv(f, [v EXCEPT ![Current(f)] = u])
<1> DEFINE x == [v EXCEPT ![Current(f)] = u]
           c == Current(f)
<1>1. x[c] = u /\ \A k \in Handles : k # c => x[k].at = w[k].at
  BY DEF SameAt
<1> HIDE DEF x
<1>2. f.turn # 0
  BY TurnOf DEF Answering
<1>3. c \in HandedOut(f)
  BY <1>2, OverOrCurrent
<1>4. /\ d.finished \subseteq Handles /\ f.finished = d.finished
      /\ c \notin d.finished
  BY OverOrCurrent, Fields DEF BookInv, SessionInv, Stopped
<1>5. Answering(d) => d.turn # 0
  BY TurnOf DEF BookInv
<1>6. WorkIsHandedOut(f, x) /\ FinishedIsDone(f, x)
  BY <1>1, <1>3, <1>4 DEF BookInv, WorkIsHandedOut, FinishedIsDone
<1>7. LiveWorkIsCurrent(f, x)
  BY <1>1, <1>5 DEF BookInv, LiveWorkIsCurrent, Stopped, Answering
<1>8. CurrentIsWorked(f, x)
  BY <1>1 DEF CurrentIsWorked, Answering
<1> QED
  BY <1>6, <1>7, <1>8 DEF BookInv, x

\* The captured turn's own dispatch begins.
LEMMA AnswerFollows ==
  ASSUME NEW d, NEW n, NEW w \in [Handles -> WorkRecords(n)], BookInv(d, w),
         d.state = "speech_started",
         NEW f, SessionInv(f), SameBook(d, f), f.state = "thinking",
         NEW u, u.at \in Suspensions
  PROVE  BookInv(f, [w EXCEPT ![Current(d)] = u])
<1> DEFINE x == [w EXCEPT ![Current(d)] = u]
           c == Current(d)
<1>1. d.turn # 0
  BY TurnOf DEF BookInv
<1>2. c \in HandedOut(d) /\ c \notin d.finished /\ c \in Handles
  BY <1>1, OverOrCurrent DEF BookInv, HandedOut
<1>3. x[c] = u /\ \A k \in Handles : k # c => x[k] = w[k]
  BY <1>2
<1> HIDE DEF x
<1>4. /\ HandedOut(f) = HandedOut(d) /\ f.aborted = d.aborted
      /\ f.finished = d.finished /\ Current(f) = c
  BY DEF HandedOut, SameBook, Current
<1>5. d.finished \subseteq Handles
  BY Fields DEF BookInv, SessionInv
<1>6. WorkIsHandedOut(f, x) /\ FinishedIsDone(f, x)
  BY <1>2, <1>3, <1>4, <1>5 DEF BookInv, WorkIsHandedOut, FinishedIsDone
<1>7. LiveWorkIsCurrent(f, x)
  BY <1>3, <1>4 DEF BookInv, LiveWorkIsCurrent, Answering
<1>8. CurrentIsWorked(f, x)
  BY <1>3, <1>4 DEF CurrentIsWorked, Answering
<1> QED
  BY <1>6, <1>7, <1>8 DEF BookInv, x

-----------------------------------------------------------------------------
(* Chains of kernel calls that one step of the loop makes.                 *)

\* startAgentTurn or startUserText, then startThinking.
LEMMA ThinkingTurn ==
  ASSUME NEW d, SessionInv(d), d.issued < MaxTurns, mayStartIdleTurn(d),
         NEW g \in {startUserText(d), startAgentTurn(d)},
         NEW f, f = startThinking(g, d.issued + 1)
  PROVE  /\ SessionInv(f) /\ f.state = "thinking" /\ Stopped(d, f)
         /\ f.turn = d.issued + 1 /\ f.issued = d.issued + 1 /\ f.revs = d.revs
         /\ Current(f) = <<d.issued + 1, 0>>
<1>1. /\ SessionInv(g) /\ g.turn = d.issued + 1 /\ g.issued = d.issued + 1
      /\ g.revs = d.revs /\ g.state = "finalizing"
      /\ g.aborted = d.aborted /\ g.finished = d.finished
  BY StartIdleTurnInv
<1>2. g.turn # 0
  BY <1>1 DEF SessionInv, Matches, TurnStates
<1>3. mayThink(g, d.issued + 1)
  BY <1>1, <1>2 DEF mayThink, isCurrent
<1>4. SessionInv(f) /\ SameBook(g, f) /\ f.state = "thinking"
  BY <1>1, <1>3, StartThinkingInv
<1>5. f.revs[d.issued + 1] = 0
  BY <1>1, <1>4, NextTurnIsFresh DEF SameBook
<1>6. d.turn = 0
  BY DEF mayStartIdleTurn
<1> QED
  BY <1>1, <1>4, <1>5, <1>6 DEF SameBook, Stopped, Current

\* The end of an utterance, soft or hard, then startThinking.
LEMMA ThinkingAfterSpeech ==
  ASSUME NEW d, SessionInv(d), NEW t, mayFinalize(d, t),
         NEW g \in {finalizeUserSpeech(d, t), softFinalizeUserSpeech(d, t)},
         NEW f, f = startThinking(g, t)
  PROVE  SessionInv(f) /\ SameBook(d, f) /\ f.state = "thinking"
<1>1. SessionInv(g) /\ SameBook(d, g) /\ g.state = "finalizing"
  BY FinalizeInv, SoftFinalizeInv
<1>2. mayThink(g, t)
  BY <1>1 DEF mayThink, isCurrent, mayFinalize, SameBook
<1>3. SessionInv(f) /\ SameBook(g, f) /\ f.state = "thinking"
  BY <1>1, <1>2, StartThinkingInv
<1> QED
  BY <1>1, <1>3 DEF SameBook

-----------------------------------------------------------------------------
(* Dispatches.  Whatever a dispatch does is one of five things.            *)

\* Where a dispatch may be that has had the model call a tool.
AskedAt == {"model", "tool", "closing", "done"}

\* What a step may do to a dispatch's offer: it keeps it or drops it; or the
\* dispatch comes to the model, or begins there, and is offered what is pending.
OffersFairly(h, u) ==
    \/ /\ u.offered \in {work[h].offered, NoHandle}
       /\ work[h].at \in AskedAt => u.at \in AskedAt
    \/ /\ u.offered = pending
       /\ work[h].at \notin AskedAt

\* Dispatch h becomes u: it goes on, returns because it was told to, ends its
\* turn unheard, completes it, or is heard.
WorkStep(h, u) ==
    /\ work[h].at \in Suspensions
    /\ u \in WorkRecords(options.calls)
    /\ OffersFairly(h, u)
    /\ work' = [work EXCEPT ![h] = u]
    /\ UNCHANGED micVars
    /\ \/ /\ u.at \in Suspensions /\ u.voiced = work[h].voiced
          /\ duplex' = duplex
       \/ /\ u.at = "done" /\ h \in duplex.aborted
          /\ duplex' = duplex
       \/ /\ u.at = "done" /\ h \notin duplex.aborted
          /\ duplex' = interrupt(duplex, "cancel")
       \/ /\ u.at = "done" /\ h \notin duplex.aborted
          /\ duplex' = complete(duplex, h[1])
       \/ /\ u.at \in Suspensions /\ u.voiced /\ h \notin duplex.aborted
          /\ duplex' = startSpeaking(duplex, h[1])

\* The record of a dispatch that has returned.
DoneWork == [NoWork EXCEPT !.at = "done"]

\* Every step of a dispatch is one of these.
LEMMA DispatchIsWorkStep ==
  ASSUME TypeOK, NEW h \in Handles, Dispatch(h)
  PROVE  \E u : WorkStep(h, u)
<1> DEFINE W == WorkRecords(options.calls)
<1>1. /\ work \in [Handles -> W] /\ work[h] \in W
      /\ pending \in Handles \cup {NoHandle} /\ options.calls \in Nat
  BY LoopAssumption DEF TypeOK, WorkRecords
<1>2. DoneWork \in W /\ DoneWork.at = "done" /\ OffersFairly(h, DoneWork)
  <2>1. 0 \in 0..options.calls
    BY <1>1
  <2> QED
    BY <2>1 DEF DoneWork, WorkRecords, NoWork, OffersFairly, AskedAt
<1> DEFINE At(x) == [work[h] EXCEPT !.at = x]
           Offered == [work[h] EXCEPT !.at = "model", !.offered = pending]
<1>3. ASSUME NEW x \in Suspensions
      PROVE  /\ At(x) \in W /\ At(x).at = x /\ At(x).voiced = work[h].voiced
             /\ x \in AskedAt \/ work[h].at \notin AskedAt => OffersFairly(h, At(x))
  BY <1>1, <1>3 DEF WorkRecords, OffersFairly
<1>4. /\ Offered \in W /\ Offered.at = "model" /\ Offered.voiced = work[h].voiced
      /\ work[h].at \notin AskedAt => OffersFairly(h, Offered)
  BY <1>1 DEF WorkRecords, Suspensions, OffersFairly
<1>5. "asr" \in Suspensions /\ "model" \in Suspensions /\ "tool" \in Suspensions
      /\ "closing" \in Suspensions /\ "keyterms" \in Suspensions
      /\ "asr" \notin AskedAt /\ "keyterms" \notin AskedAt
      /\ "model" \in AskedAt /\ "tool" \in AskedAt /\ "closing" \in AskedAt
  BY DEF Suspensions, AskedAt
<1>6. ASSUME Returns(h) PROVE work' = [work EXCEPT ![h] = DoneWork]
  BY <1>6 DEF Returns, DoneWork
<1>7. ASSUME NEW x, Goes(h, x) PROVE work' = [work EXCEPT ![h] = At(x)]
  BY <1>7 DEF Goes
<1>8. ASSUME OffersPending(h) PROVE work' = [work EXCEPT ![h] = Offered]
  BY <1>8 DEF OffersPending
<1> HIDE DEF W
<1>9. CASE Transcribed(h)
  <2>1. CASE Returns(h) /\ \/ Aborted(duplex, h) /\ UNCHANGED duplex
                           \/ ~Aborted(duplex, h) /\ duplex' = interrupt(duplex, "cancel")
    <3>1. WorkStep(h, DoneWork)
      BY <1>9, <1>2, <1>5, <1>6, <2>1 DEF Transcribed, WorkStep, Aborted, W
    <3> QED
      BY <3>1
  <2>2. CASE Goes(h, "keyterms") /\ UNCHANGED duplex
    <3>1. WorkStep(h, At("keyterms"))
      BY <1>9, <1>3, <1>5, <1>7, <2>2 DEF Transcribed, WorkStep, W
    <3> QED
      BY <3>1
  <2>3. CASE OffersPending(h) /\ UNCHANGED duplex
    <3>1. WorkStep(h, Offered)
      BY <1>9, <1>4, <1>5, <1>8, <2>3 DEF Transcribed, WorkStep, W
    <3> QED
      BY <3>1
  <2> QED
    BY <1>9, <2>1, <2>2, <2>3 DEF Transcribed
<1>10. CASE KeytermsArrive(h)
  <2>1. WorkStep(h, Offered)
    BY <1>10, <1>4, <1>5, <1>8 DEF KeytermsArrive, WorkStep, W
  <2> QED
    BY <2>1
<1>11. CASE ModelSpeaks(h)
  <2> DEFINE u == [work[h] EXCEPT !.said = TRUE]
  <2>1. /\ u \in W /\ u.at = "model" /\ u.voiced = work[h].voiced
        /\ OffersFairly(h, u)
        /\ work' = [work EXCEPT ![h] = u]
    BY <1>1, <1>11 DEF ModelSpeaks, W, WorkRecords, OffersFairly
  <2> HIDE DEF u
  <2>2. WorkStep(h, u)
    BY <1>5, <1>11, <2>1 DEF ModelSpeaks, WorkStep, W
  <2> QED
    BY <2>2
<1>12. CASE Piece(h)
  <2> DEFINE u == [work[h] EXCEPT !.voiced = TRUE]
  <2>1. /\ u \in W /\ u.at = "model" /\ u.voiced
        /\ OffersFairly(h, u)
        /\ work' = [work EXCEPT ![h] = u]
    BY <1>1, <1>12 DEF Piece, W, WorkRecords, OffersFairly
  <2> HIDE DEF u
  <2>2. WorkStep(h, u)
    BY <1>5, <1>12, <2>1 DEF Piece, WorkStep, W, Aborted
  <2> QED
    BY <2>2
<1>13. ASSUME Calls(h) PROVE work[h].calls + 1 \in 0..options.calls
  BY <1>1, <1>13 DEF Calls, W, WorkRecords
<1>14. ASSUME Calls(h), Executes(h) PROVE \E u : WorkStep(h, u)
  <2> DEFINE u == [work[h] EXCEPT !.calls = @ + 1, !.at = "tool"]
  <2>1. /\ u \in W /\ u.at = "tool" /\ u.voiced = work[h].voiced
        /\ OffersFairly(h, u)
        /\ work' = [work EXCEPT ![h] = u]
    BY <1>1, <1>5, <1>13, <1>14 DEF Executes, W, WorkRecords, OffersFairly
  <2> HIDE DEF u
  <2>2. WorkStep(h, u)
    BY <1>5, <1>14, <2>1 DEF Calls, WorkStep, W
  <2> QED
    BY <2>2
<1>15. ASSUME Calls(h), NEW ok \in BOOLEAN, Answered(h, ok) PROVE \E u : WorkStep(h, u)
  <2> DEFINE u == [work[h] EXCEPT !.calls = @ + 1, !.acted = @ \/ ok]
  <2>1. (work[h].acted \/ ok) \in BOOLEAN
    OBVIOUS
  <2>2. /\ u \in W /\ u.at = "model" /\ u.voiced = work[h].voiced
        /\ OffersFairly(h, u)
        /\ work' = [work EXCEPT ![h] = u]
    BY <1>1, <1>5, <1>13, <1>15, <2>1 DEF Answered, Calls, W, WorkRecords, OffersFairly
  <2> HIDE DEF u
  <2>3. WorkStep(h, u)
    BY <1>5, <1>15, <2>2 DEF Calls, WorkStep, W
  <2> QED
    BY <2>3
<1>16. CASE CallTool(h) \/ CallConfirm(h)
  BY <1>14, <1>16 DEF CallTool, CallConfirm
<1>17. CASE CallRefused(h) \/ CallParked(h) \/ CallCancel(h)
  BY <1>15, <1>17 DEF CallRefused, CallParked, CallCancel
<1>18. CASE ToolReturns(h)
  <2>1. PICK ok \in BOOLEAN :
          work' = [work EXCEPT ![h].at = "model",
                               ![h].acted = @ \/ (ok /\ ~Aborted(duplex, h))]
    BY <1>18 DEF ToolReturns
  <2> DEFINE a == work[h].acted \/ (ok /\ ~Aborted(duplex, h))
             u == [work[h] EXCEPT !.at = "model", !.acted = a]
  <2>2. a \in BOOLEAN
    OBVIOUS
  <2>3. work' = [work EXCEPT ![h] = u]
    BY <1>1, <2>1
  <2> HIDE DEF a
  <2>4. /\ u \in W /\ u.at = "model" /\ u.voiced = work[h].voiced
        /\ OffersFairly(h, u)
    BY <1>1, <1>5, <2>2 DEF W, WorkRecords, OffersFairly
  <2> HIDE DEF u
  <2>5. WorkStep(h, u)
    BY <1>5, <1>18, <2>3, <2>4 DEF ToolReturns, WorkStep, W
  <2> QED
    BY <2>5
<1>19. CASE ReplyEnds(h)
  <2>1. WorkStep(h, At("closing"))
    BY <1>3, <1>5, <1>7, <1>19 DEF ReplyEnds, WorkStep, W
  <2> QED
    BY <2>1
<1>20. CASE Unwinds(h)
  <2>1. WorkStep(h, DoneWork)
    BY <1>2, <1>5, <1>6, <1>20 DEF Unwinds, LeavesPipeline, WorkStep, W, Aborted
  <2> QED
    BY <2>1
<1>21. CASE EmptyReply(h)
  <2>1. WorkStep(h, DoneWork)
    BY <1>2, <1>5, <1>6, <1>21 DEF EmptyReply, LeavesPipeline, WorkStep, W, Aborted
  <2> QED
    BY <2>1
<1>22. CASE PlayerCloses(h)
  <2>1. WorkStep(h, DoneWork)
    BY <1>2, <1>5, <1>6, <1>22 DEF PlayerCloses, LeavesPipeline, WorkStep, W, Aborted
  <2> QED
    BY <2>1
<1>23. CASE Fails(h)
  <2>1. WorkStep(h, DoneWork)
    BY <1>2, <1>5, <1>6, <1>23 DEF Fails, WorkStep, W, Aborted
  <2> QED
    BY <2>1
<1> QED
  BY <1>9, <1>10, <1>11, <1>12, <1>16, <1>17, <1>18, <1>19, <1>20, <1>21, <1>22, <1>23
     DEF Dispatch

\* So every step of a dispatch keeps the dispatches and the session agreed.
LEMMA WorkStepKeepsBook ==
  ASSUME TypeOK, BookInv(duplex, work), NEW h \in Handles, NEW u, WorkStep(h, u)
  PROVE  BookInv(duplex, work)'
<1>1. /\ work \in [Handles -> WorkRecords(options.calls)]
      /\ work[h].at \in Suspensions /\ work' = [work EXCEPT ![h] = u]
      /\ SessionInv(duplex)
  BY DEF TypeOK, WorkRecords, WorkStep, BookInv
<1> SUFFICES BookInv(duplex', [work EXCEPT ![h] = u])
  BY <1>1
<1>2. CASE u.at \in Suspensions /\ u.voiced = work[h].voiced /\ duplex' = duplex
  BY <1>1, <1>2, WorkGoesOn
<1>3. CASE u.at = "done" /\ h \in duplex.aborted /\ duplex' = duplex
  BY <1>1, <1>3, AbortedReturns
<1>4. CASE /\ u.at = "done" /\ h \notin duplex.aborted
           /\ duplex' = interrupt(duplex, "cancel")
  <2> DEFINE f == interrupt(duplex, "cancel")
  <2>1. duplex.turn # 0
    BY <1>1, <1>4, UnabortedIsCurrent
  <2>2. /\ SessionInv(f) /\ f.turn = 0 /\ f.state = "listening"
        /\ f.issued = duplex.issued /\ f.revs = duplex.revs /\ Stopped(duplex, f)
    BY <1>1, <2>1, InterruptInv
  <2> HIDE DEF f
  <2>3. duplex.aborted \subseteq f.aborted /\ f.finished \subseteq duplex.finished \cup {Current(duplex)}
    BY <2>2 DEF Stopped
  <2>4. BookInv(f, [work EXCEPT ![h] = u])
    BY <1>1, <1>4, <2>2, <2>3, WorkEnds
  <2> QED
    BY <1>4, <2>4 DEF f
<1>5. CASE /\ u.at = "done" /\ h \notin duplex.aborted
           /\ duplex' = complete(duplex, h[1])
  <2> DEFINE f == complete(duplex, h[1])
  <2>1. mayComplete(duplex, h[1])
    BY <1>1, <1>5, UnabortedIsCurrent DEF mayComplete, isCurrent, Answering
  <2>2. /\ SessionInv(f) /\ f.turn = 0 /\ f.state = "listening"
        /\ f.issued = duplex.issued /\ f.revs = duplex.revs
        /\ f.aborted = duplex.aborted
        /\ f.finished = duplex.finished \cup {Current(duplex)}
    BY <1>1, <2>1, CompleteInv
  <2> HIDE DEF f
  <2>3. BookInv(f, [work EXCEPT ![h] = u])
    BY <1>1, <1>5, <2>2, WorkEnds
  <2> QED
    BY <1>5, <2>3 DEF f
<1>6. CASE /\ u.at \in Suspensions /\ u.voiced /\ h \notin duplex.aborted
           /\ duplex' = startSpeaking(duplex, h[1])
  <2> DEFINE f == startSpeaking(duplex, h[1])
  <2>1. isCurrent(duplex, h[1]) /\ Answering(duplex)
    BY <1>1, <1>6, UnabortedIsCurrent DEF isCurrent
  <2>2. CASE duplex.state = "speaking"
    <3>1. f = duplex
      BY <2>2 DEF startSpeaking, maySpeak
    <3>2. BookInv(duplex, [work EXCEPT ![h] = u])
      BY <1>1, <1>6, WorkGoesOn
    <3> QED
      BY <1>6, <3>1, <3>2
  <2>3. CASE duplex.state = "thinking"
    <3>1. SessionInv(f) /\ SameBook(duplex, f) /\ f.state = "speaking"
      BY <1>1, <2>1, <2>3, StartSpeakingInv DEF maySpeak
    <3> HIDE DEF f
    <3>2. BookInv(f, [work EXCEPT ![h] = u])
      BY <1>1, <1>6, <3>1, WorkSpeaks
    <3> QED
      BY <1>6, <3>2 DEF f
  <2> QED
    BY <2>1, <2>2, <2>3 DEF Answering
<1> QED
  BY <1>2, <1>3, <1>4, <1>5, <1>6 DEF WorkStep

\* A dispatch starts no turn and brings none back to capture.
LEMMA WorkStepKeepsTurns ==
  ASSUME BookInv(duplex, work), NEW h, NEW u, WorkStep(h, u)
  PROVE  /\ duplex'.issued = duplex.issued
         /\ duplex'.state = "speech_started" => duplex' = duplex
<1>1. SessionInv(duplex)
  BY DEF BookInv
<1>2. CASE duplex' = duplex
  BY <1>2
<1>3. CASE duplex' = interrupt(duplex, "cancel")
  BY <1>1, <1>3, InterruptInv
<1>4. CASE duplex' = complete(duplex, h[1])
  <2>1. CASE mayComplete(duplex, h[1])
    BY <1>1, <1>4, <2>1, CompleteInv
  <2>2. CASE ~mayComplete(duplex, h[1])
    BY <1>4, <2>2 DEF complete
  <2> QED
    BY <2>1, <2>2
<1>5. CASE duplex' = startSpeaking(duplex, h[1])
  <2>1. CASE maySpeak(duplex, h[1])
    BY <1>1, <1>5, <2>1, StartSpeakingInv DEF SameBook
  <2>2. CASE ~maySpeak(duplex, h[1])
    BY <1>5, <2>2 DEF startSpeaking
  <2> QED
    BY <2>1, <2>2
<1> QED
  BY <1>2, <1>3, <1>4, <1>5 DEF WorkStep

\* What a dispatch does to the other variables of the loop.
LEMMA DispatchShape ==
  ASSUME TypeOK, NEW h \in Handles, Dispatch(h)
  PROVE  /\ suppressed' \in {"no", "until", "forever"}
         /\ nudge' \in BOOLEAN /\ queued' = queued
         /\ pending' \in Handles \cup {NoHandle}
         /\ settled' \subseteq [action : Handles, by : Handles,
                                how : {"ran", "cancelled", "dropped"}]
<1> USE DEF TypeOK
<1>1. Released \in {"no", "until", "forever"}
  BY DEF Released
<1>2. ASSUME MayConfirm(h) PROVE pending \in Handles
  BY <1>2 DEF MayConfirm
<1>3. ASSUME NEW how \in {"ran", "cancelled", "dropped"}, MayConfirm(h), Settle(h, how)
      PROVE  /\ pending' \in Handles \cup {NoHandle}
             /\ settled' \subseteq [action : Handles, by : Handles,
                                    how : {"ran", "cancelled", "dropped"}]
  BY <1>2, <1>3 DEF Settle
<1>4. CASE Transcribed(h) \/ KeytermsArrive(h) \/ ModelSpeaks(h) \/ ToolReturns(h)
  BY <1>4 DEF Transcribed, KeytermsArrive, ModelSpeaks, ToolReturns
<1>5. CASE Piece(h)
  BY <1>5 DEF Piece
<1>6. CASE CallTool(h) \/ CallRefused(h)
  BY <1>6 DEF CallTool, CallRefused, Calls
<1>7. CASE CallParked(h)
  BY <1>7 DEF CallParked, Calls
<1>8. CASE CallConfirm(h) \/ CallCancel(h)
  BY <1>3, <1>8 DEF CallConfirm, CallCancel, Calls
<1>9. CASE ReplyEnds(h)
  BY <1>3, <1>9 DEF ReplyEnds
<1>10. CASE Unwinds(h) \/ EmptyReply(h)
  BY <1>1, <1>10 DEF Unwinds, EmptyReply, LeavesPipeline
<1>11. CASE PlayerCloses(h)
  BY <1>1, <1>11 DEF PlayerCloses, LeavesPipeline
<1>12. CASE Fails(h)
  BY <1>1, <1>12 DEF Fails
<1> QED
  BY <1>4, <1>5, <1>6, <1>7, <1>8, <1>9, <1>10, <1>11, <1>12 DEF Dispatch

-----------------------------------------------------------------------------
(* The invariant of the loop.                                              *)

\* Before the first frame no turn was started.
NothingBefore == loop = "starting" => duplex.issued = 0

\* The segmenter holds the utterance whose confirmation is on its way, and the
\* bound on turns still has room for it.
ConfirmedIsHeld ==
    loop = "push" /\ ~push.stale /\ push.event = "confirmed" =>
        /\ segment = "confirmed"
        /\ mic = NoHandle => duplex.issued < MaxTurns

LoopInv ==
    /\ TypeOK
    /\ BookInv(duplex, work)
    /\ CaptureIsHeld
    /\ NothingBefore
    /\ ConfirmedIsHeld

\* The types of what the loop keeps beside the kernel's session.
LoopShape ==
    /\ options \in Sessions
    /\ loop \in {"starting", "frame", "push", "ended", "crashed"}
    /\ push \in [event : VadEvents, stale : BOOLEAN]
    /\ segment \in {"quiet", "provisional", "confirmed"}
    /\ mic \in Handles \cup {NoHandle}
    /\ prefix \in BOOLEAN
    /\ speculative \in 0..MaxTurns
    /\ suppressed \in {"no", "until", "forever"}
    /\ nudge \in BOOLEAN
    /\ queued \in 0..MaxQueued
    /\ work \in [Handles -> WorkRecords(options.calls)]
    /\ pending \in Handles \cup {NoHandle}
    /\ settled \subseteq [action : Handles, by : Handles,
                          how : {"ran", "cancelled", "dropped"}]

\* The session's own fields are typed by the kernel's invariant.
LEMMA ShapeIsType ==
  /\ LoopShape /\ BookInv(duplex, work) => TypeOK
  /\ LoopShape' /\ BookInv(duplex, work)' => TypeOK'
<1>1. ASSUME NEW d, SessionInv(d)
      PROVE  d.state \in SessionStates /\ d.issued \in 0..MaxTurns
  BY <1>1, Fields DEF SessionInv
<1> QED
  BY <1>1 DEF LoopShape, TypeOK, WorkRecords, BookInv

\* The type invariant in the form in which the steps are proved.
LEMMA TypeIsShape == TypeOK => LoopShape
  BY DEF TypeOK, LoopShape, WorkRecords

\* A step of a dispatch keeps the loop's invariant.
LEMMA DispatchKeeps ==
  ASSUME LoopInv, NEW h \in Handles, Dispatch(h)
  PROVE  LoopInv'
<1>1. PICK u : WorkStep(h, u)
  BY DispatchIsWorkStep DEF LoopInv
<1>2. BookInv(duplex, work)'
  BY <1>1, WorkStepKeepsBook DEF LoopInv
<1>3. LoopShape
  BY TypeIsShape DEF LoopInv
<1>4. LoopShape'
  BY <1>1, <1>3, DispatchShape DEF LoopInv, LoopShape, WorkStep, micVars
<1>5. TypeOK'
  BY <1>2, <1>4, ShapeIsType
<1>6. /\ duplex'.state = "speech_started" => duplex' = duplex
      /\ duplex'.issued = duplex.issued
  BY <1>1, WorkStepKeepsTurns DEF LoopInv
<1>7. CaptureIsHeld' /\ NothingBefore' /\ ConfirmedIsHeld'
  BY <1>1, <1>6 DEF LoopInv, CaptureIsHeld, NothingBefore, ConfirmedIsHeld, WorkStep,
                    micVars
<1> QED
  BY <1>2, <1>5, <1>7 DEF LoopInv

-----------------------------------------------------------------------------
(* The frame loop and the owner.                                           *)

\* A fired signal leaves every dispatch where it is suspended, and whoever was
\* not told to stop as it was.
LEMMA AfterAbortsKeeps ==
  ASSUME TypeOK, NEW d
  PROVE  /\ AfterAborts(d) \in [Handles -> WorkRecords(options.calls)]
         /\ SameAt(work, AfterAborts(d))
         /\ \A h \in Handles : AfterAborts(d)[h].offered \in {work[h].offered, NoHandle}
<1>1. work \in [Handles -> WorkRecords(options.calls)] /\ options.calls \in Nat
  BY LoopAssumption DEF TypeOK, WorkRecords
<1>2. 0 \in 0..options.calls
  BY <1>1
<1>3. ASSUME NEW h \in Handles
      PROVE  /\ AfterAborts(d)[h] \in WorkRecords(options.calls)
             /\ AfterAborts(d)[h].at = work[h].at
             /\ AfterAborts(d)[h].offered \in {work[h].offered, NoHandle}
  <2> DEFINE u == [NoWork EXCEPT !.at = work[h].at, !.said = work[h].said]
  <2>1. work[h] \in WorkRecords(options.calls)
    BY <1>1
  <2>2. u \in WorkRecords(options.calls) /\ u.at = work[h].at /\ u.offered = NoHandle
    BY <1>2, <2>1 DEF WorkRecords, NoWork
  <2>3. AfterAborts(d)[h] = u \/ AfterAborts(d)[h] = work[h]
    BY DEF AfterAborts
  <2> QED
    BY <2>1, <2>2, <2>3
<1>4. AfterAborts(d) \in [Handles -> WorkRecords(options.calls)]
  BY <1>3 DEF AfterAborts
<1> QED
  BY <1>3, <1>4 DEF SameAt

\* The records that dispatches begin with.
LEMMA NewWork ==
  ASSUME TypeOK
  PROVE  /\ AudioWork \in WorkRecords(options.calls) /\ AudioWork.at \in Suspensions
         /\ TextWork \in WorkRecords(options.calls) /\ TextWork.at \in Suspensions
         /\ \A kind \in {"agent", "welcome"} :
               /\ AgentWork(kind) \in WorkRecords(options.calls)
               /\ AgentWork(kind).at \in Suspensions
<1>1. 0 \in 0..options.calls /\ pending \in Handles \cup {NoHandle}
  BY LoopAssumption DEF TypeOK
<1> QED
  BY <1>1 DEF AudioWork, TextWork, AgentWork, WorkRecords, NoWork, Suspensions

\* A turn is opened between turns, with its dispatch at work.
LEMMA IdleTurnOpens ==
  ASSUME LoopInv, duplex.issued < MaxTurns, mayStartIdleTurn(duplex),
         NEW kind \in {"agent", "welcome"},
         duplex' = startThinking(startAgentTurn(duplex), duplex.issued + 1),
         work' = [work EXCEPT ![<<duplex.issued + 1, 0>>] = AgentWork(kind)]
  PROVE  /\ BookInv(duplex, work)'
         /\ duplex'.state = "thinking"
         /\ work' \in [Handles -> WorkRecords(options.calls)]
<1>1. /\ work \in [Handles -> WorkRecords(options.calls)]
      /\ BookInv(duplex, work) /\ SessionInv(duplex)
  BY DEF LoopInv, TypeOK, WorkRecords, BookInv
<1>2. AgentWork(kind) \in WorkRecords(options.calls) /\ AgentWork(kind).at \in Suspensions
  BY NewWork DEF LoopInv
<1> DEFINE f == duplex'
<1>3. /\ SessionInv(f) /\ f.state = "thinking" /\ Stopped(duplex, f)
      /\ f.issued = duplex.issued + 1 /\ f.revs = duplex.revs
      /\ Current(f) = <<duplex.issued + 1, 0>>
  BY <1>1, ThinkingTurn
<1>4. HandedOut(duplex) \subseteq HandedOut(f)
  BY <1>1, <1>3, HandedOutGrows
<1>5. Current(f) \in Handles \ HandedOut(duplex)
  BY <1>1, <1>3, NextTurnIsFresh
<1>6. SameAt(work, work)
  BY DEF SameAt
<1>7. BookInv(f, [work EXCEPT ![Current(f)] = AgentWork(kind)])
  BY <1>1, <1>2, <1>3, <1>4, <1>5, <1>6, AnswerBegins
<1> QED
  BY <1>1, <1>2, <1>3, <1>7

\* The captured turn is answered by the dispatch of the handle that was held.
LEMMA CaptureEnds ==
  ASSUME LoopInv, mayFinalize(duplex, mic[1]),
         NEW g \in {finalizeUserSpeech(duplex, mic[1]),
                    softFinalizeUserSpeech(duplex, mic[1])},
         duplex' = startThinking(g, mic[1]),
         work' = [work EXCEPT ![mic] = AudioWork]
  PROVE  /\ BookInv(duplex, work)'
         /\ duplex'.state = "thinking" /\ duplex'.issued = duplex.issued
         /\ work' \in [Handles -> WorkRecords(options.calls)]
         /\ mic = Current(duplex) /\ mic[1] \in TurnIds
<1>1. /\ work \in [Handles -> WorkRecords(options.calls)]
      /\ BookInv(duplex, work) /\ SessionInv(duplex)
  BY DEF LoopInv, TypeOK, WorkRecords, BookInv
<1>2. AudioWork \in WorkRecords(options.calls) /\ AudioWork.at \in Suspensions
  BY NewWork DEF LoopInv
<1>3. duplex.state = "speech_started" /\ duplex.turn # 0 /\ duplex.turn = mic[1]
  BY DEF mayFinalize, isCurrent
<1>4. mic = Current(duplex)
  BY <1>3 DEF LoopInv, CaptureIsHeld
<1>5. SessionInv(duplex') /\ SameBook(duplex, duplex') /\ duplex'.state = "thinking"
  BY <1>1, ThinkingAfterSpeech
<1>6. BookInv(duplex', [work EXCEPT ![mic] = AudioWork])
  BY <1>1, <1>2, <1>3, <1>4, <1>5, AnswerFollows
<1> QED
  BY <1>1, <1>2, <1>3, <1>4, <1>5, <1>6, ActiveTurn DEF SameBook

\* Steps that leave the session, the dispatches and the held handle alone.
LEMMA QuietStepKeeps ==
  ASSUME LoopInv, duplex' = duplex, work' = work, mic' = mic, LoopShape',
         loop' = "starting" => loop = "starting", ConfirmedIsHeld'
  PROVE  LoopInv'
<1>1. BookInv(duplex, work)'
  BY DEF LoopInv
<1>2. TypeOK'
  BY <1>1, ShapeIsType
<1>3. CaptureIsHeld' /\ NothingBefore'
  BY DEF LoopInv, CaptureIsHeld, NothingBefore
<1> QED
  BY <1>1, <1>2, <1>3 DEF LoopInv

\* The frame loop up to its await of vad.push.
LEMMA FrameKeeps ==
  ASSUME LoopInv,
         Begin \/ FrameAfterClose \/ SuppressedFrame \/ \E event \in VadEvents : Frame(event)
  PROVE  LoopInv'
<1>1. LoopShape /\ BookInv(duplex, work) /\ SessionInv(duplex)
  BY TypeIsShape DEF LoopInv, BookInv
<1>2. CASE FrameAfterClose \/ SuppressedFrame
  <2>1. LoopShape' /\ ConfirmedIsHeld'
    BY <1>1, <1>2 DEF FrameAfterClose, SuppressedFrame, LoopShape, ConfirmedIsHeld
  <2> QED
    BY <1>2, <2>1, QuietStepKeeps DEF FrameAfterClose, SuppressedFrame
<1>3. CASE Begin
  <2>1. /\ loop' = "frame" /\ mic' = mic
        /\ UNCHANGED <<push, segment, prefix, speculative, suppressed, nudge,
                       queued, pending, settled, options>>
    BY <1>3 DEF Begin
  <2>2. CASE UNCHANGED <<duplex, work>>
    <3>1. LoopShape' /\ ConfirmedIsHeld'
      BY <1>1, <2>1, <2>2 DEF LoopShape, ConfirmedIsHeld
    <3> QED
      BY <2>1, <2>2, <3>1, QuietStepKeeps
  <2>3. CASE /\ MaxTurns > 0
             /\ duplex' = startThinking(startAgentTurn(duplex), 1)
             /\ work' = [work EXCEPT ![<<1, 0>>] = AgentWork("welcome")]
    <3>1. duplex.issued = 0 /\ duplex.state # "closed"
      BY <1>3 DEF Begin, LoopInv, NothingBefore
    <3>2. duplex.turn = 0
      BY <1>1, <3>1 DEF SessionInv, Newest
    <3>3. mayStartIdleTurn(duplex)
      BY <1>1, <3>1, <3>2
         DEF mayStartIdleTurn, BookInv, SessionInv, Records, SessionStates, Matches, TurnStates
    <3>4. duplex.issued < MaxTurns /\ duplex.issued + 1 = 1
      BY <2>3, <3>1, KernelAssumption
    <3>5. /\ BookInv(duplex, work)' /\ duplex'.state = "thinking"
          /\ work' \in [Handles -> WorkRecords(options.calls)]
      BY <2>3, <3>3, <3>4, IdleTurnOpens
    <3>6. LoopShape'
      BY <1>1, <2>1, <3>5 DEF LoopShape
    <3>7. CaptureIsHeld' /\ NothingBefore' /\ ConfirmedIsHeld'
      BY <2>1, <3>5 DEF CaptureIsHeld, NothingBefore, ConfirmedIsHeld
    <3> QED
      BY <3>5, <3>6, <3>7, ShapeIsType DEF LoopInv
  <2> QED
    BY <1>3, <2>2, <2>3 DEF Begin
<1>4. ASSUME NEW event \in VadEvents, Frame(event) PROVE LoopInv'
  <2>1. /\ loop = "frame" /\ event \in Reportable
        /\ speculative' = FreshSpeculative /\ segment' = Segmented(event)
        /\ push' = [event |-> event, stale |-> FALSE]
        /\ loop' = IF event = "none" THEN "frame" ELSE "push"
        /\ UNCHANGED <<mic, prefix, suppressed, pending, settled, options>>
    BY <1>4 DEF Frame
  <2> DEFINE granted == mayStartIdleTurn(duplex) /\ duplex.issued < MaxTurns
             speaks == queued > 0 /\ IdleGap /\ granted
  <2>2. PICK due \in BOOLEAN :
          LET fires  == nudge /\ due /\ IdleGap
              starts == speaks \/ (fires /\ granted)
              t      == duplex.issued + 1
              d      == IF starts THEN startThinking(startAgentTurn(duplex), t)
                        ELSE duplex
          IN  /\ event = "confirmed" /\ mic = NoHandle => d.issued < MaxTurns
              /\ duplex' = d
              /\ work' = IF starts THEN [work EXCEPT ![<<t, 0>>] = AgentWork("agent")]
                         ELSE work
              /\ queued' = IF speaks THEN queued - 1 ELSE queued
              /\ nudge' = (nudge /\ ~fires)
    BY <1>4 DEF Frame
  <2> DEFINE starts == speaks \/ (nudge /\ due /\ IdleGap /\ granted)
  <2>3. segment' \in {"quiet", "provisional", "confirmed"}
    BY <1>1, <2>1 DEF Segmented, LoopShape
  <2>4. speculative' \in 0..MaxTurns
    BY <1>1, <2>1, KernelAssumption DEF FreshSpeculative, LoopShape
  <2>5. queued' \in 0..MaxQueued
    <3>1. queued \in Nat /\ MaxQueued \in Nat /\ queued <= MaxQueued
      BY <1>1, LoopAssumption DEF LoopShape
    <3> HIDE DEF granted
    <3> QED
      BY <2>2, <3>1
  <2>6. nudge' \in BOOLEAN
    BY <2>2
  <2>7. ConfirmedIsHeld'
    <3>1. event = "confirmed" => segment' = "confirmed"
      BY <2>1 DEF Segmented
    <3>2. event = "confirmed" /\ mic = NoHandle => duplex'.issued < MaxTurns
      BY <2>2
    <3> QED
      BY <2>1, <3>1, <3>2 DEF ConfirmedIsHeld
  <2>8. ASSUME work' \in [Handles -> WorkRecords(options.calls)] PROVE LoopShape'
    BY <1>1, <2>1, <2>3, <2>4, <2>5, <2>6, <2>8 DEF LoopShape
  <2>9. CASE ~starts
    <3>1. duplex' = duplex /\ work' = work
      BY <2>2, <2>9
    <3>2. LoopShape'
      BY <1>1, <2>8, <3>1 DEF LoopShape
    <3> QED
      BY <2>1, <2>7, <3>1, <3>2, QuietStepKeeps
  <2>10. CASE starts
    <3>1. /\ mayStartIdleTurn(duplex) /\ duplex.issued < MaxTurns
          /\ duplex' = startThinking(startAgentTurn(duplex), duplex.issued + 1)
          /\ work' = [work EXCEPT ![<<duplex.issued + 1, 0>>] = AgentWork("agent")]
      BY <2>2, <2>10
    <3>2. /\ BookInv(duplex, work)' /\ duplex'.state = "thinking"
          /\ work' \in [Handles -> WorkRecords(options.calls)]
      BY <3>1, IdleTurnOpens
    <3>3. LoopShape' /\ CaptureIsHeld' /\ NothingBefore'
      BY <2>1, <2>8, <3>2 DEF CaptureIsHeld, NothingBefore
    <3> QED
      BY <2>7, <3>2, <3>3, ShapeIsType DEF LoopInv
  <2> QED
    BY <2>9, <2>10
<1> QED
  BY <1>2, <1>3, <1>4

\* The frame loop after vad.push.
LEMMA ResumeKeeps ==
  ASSUME LoopInv, StalePush \/ SpeechStart \/ SpeechConfirmed \/ SpeechDropped \/ SpeechEnd
  PROVE  LoopInv'
<1>1. /\ LoopShape /\ BookInv(duplex, work) /\ SessionInv(duplex) /\ TypeOK
      /\ work \in [Handles -> WorkRecords(options.calls)]
  BY TypeIsShape DEF LoopInv, BookInv, LoopShape
<1>2. CASE StalePush
  <2>1. LoopShape' /\ ConfirmedIsHeld' /\ loop' = "frame"
    BY <1>1, <1>2 DEF StalePush, LoopShape, VadEvents, ConfirmedIsHeld
  <2> QED
    BY <1>2, <2>1, QuietStepKeeps DEF StalePush
<1>3. ASSUME NEW event, Resume(event)
      PROVE  /\ push' \in [event : VadEvents, stale : BOOLEAN]
             /\ loop' \in {"frame", "crashed"} => ConfirmedIsHeld' /\ NothingBefore'
             /\ UNCHANGED <<segment, suppressed, queued, pending, settled, options>>
  BY <1>3 DEF Resume, VadEvents, ConfirmedIsHeld, NothingBefore
<1>4. ASSUME NEW event, Resume(event), loop' \in {"frame", "crashed"},
             mic' \in Handles \cup {NoHandle}, prefix' \in BOOLEAN,
             speculative' \in 0..MaxTurns, nudge' \in BOOLEAN,
             work' \in [Handles -> WorkRecords(options.calls)],
             BookInv(duplex, work)', CaptureIsHeld'
      PROVE  LoopInv'
  <2>1. LoopShape'
    BY <1>1, <1>3, <1>4 DEF LoopShape
  <2> QED
    BY <1>3, <1>4, <2>1, ShapeIsType DEF LoopInv
<1>5. CASE SpeechStart
  <2>1. Resume("start") /\ loop' = "frame" /\ nudge' = FALSE
    BY <1>5 DEF SpeechStart
  <2>2. CASE UNCHANGED <<duplex, mic, prefix, speculative, work>>
    <3>1. CaptureIsHeld' /\ BookInv(duplex, work)'
      BY <1>1, <2>2 DEF LoopInv, CaptureIsHeld
    <3> QED
      BY <1>1, <1>4, <2>1, <2>2, <3>1 DEF LoopShape
  <2>3. CASE /\ speculative # 0 /\ mayReopen(duplex, speculative)
             /\ duplex.revs[speculative] < MaxRevision
             /\ duplex' = reopen(duplex, speculative)
             /\ mic' = Current(duplex')
             /\ prefix' = TRUE
             /\ speculative' = 0
             /\ work' = AfterAborts(duplex')
    <3> DEFINE t == speculative
               f == duplex'
    <3>1. /\ SessionInv(f) /\ f.turn = t /\ f.issued = duplex.issued
          /\ f.revs[t] = duplex.revs[t] + 1 /\ f.state = "speech_started"
          /\ \A u \in TurnIds : u # t => f.revs[u] = duplex.revs[u]
          /\ Stopped(duplex, f)
      BY <1>1, <2>3, ReopenInv
    <3>2. duplex.turn = t /\ t \in TurnIds
      BY <1>1, <2>3, ActiveTurn DEF mayReopen, isCurrent
    <3>3. HandedOut(duplex) \subseteq HandedOut(f)
      BY <1>1, <3>1, HandedOutGrows
    <3>4. Current(f) \in Handles \ HandedOut(duplex)
      <4>1. Current(f) = <<t, duplex.revs[t] + 1>>
        BY <3>1 DEF Current
      <4>2. Current(f) \in Handles
        BY <3>1, <3>2, OverOrCurrent, TurnIdsNat DEF HandedOut
      <4> QED
        BY <1>1, <3>2, <4>1, <4>2, NextRevisionIsFresh
    <3>5. /\ AfterAborts(f) \in [Handles -> WorkRecords(options.calls)]
          /\ SameAt(work, AfterAborts(f))
      BY <1>1, AfterAbortsKeeps
    <3>6. BookInv(f, AfterAborts(f))
      BY <1>1, <3>1, <3>3, <3>4, <3>5, CaptureBegins
    <3>7. CaptureIsHeld' /\ 0 \in 0..MaxTurns
      BY <2>3, KernelAssumption DEF CaptureIsHeld
    <3> QED
      BY <1>4, <2>1, <2>3, <3>4, <3>5, <3>6, <3>7
  <2> QED
    BY <1>5, <2>2, <2>3 DEF SpeechStart
<1>6. CASE SpeechConfirmed
  <2>1. /\ Resume("confirmed") /\ loop' \in {"frame", "crashed"}
        /\ UNCHANGED <<prefix, speculative, nudge>>
    BY <1>6 DEF SpeechConfirmed
  <2>2. CASE UNCHANGED <<duplex, mic, work>>
    <3>1. CaptureIsHeld' /\ BookInv(duplex, work)'
      BY <1>1, <2>2 DEF LoopInv, CaptureIsHeld
    <3> QED
      BY <1>1, <1>4, <2>1, <2>2, <3>1 DEF LoopShape
  <2>3. CASE /\ mic = NoHandle
             /\ duplex' = startUserSpeech(duplex)
             /\ mic' = Current(duplex')
             /\ work' = AfterAborts(duplex')
    <3> DEFINE f == duplex'
    <3>1. duplex.issued < MaxTurns
      BY <2>1, <2>3 DEF LoopInv, ConfirmedIsHeld, Resume
    <3>2. /\ SessionInv(f) /\ f.turn = duplex.issued + 1
          /\ f.issued = duplex.issued + 1 /\ f.revs = duplex.revs
          /\ f.state = "speech_started" /\ Stopped(duplex, f)
      BY <1>1, <2>3, <3>1, StartUserSpeechInv
    <3>3. HandedOut(duplex) \subseteq HandedOut(f)
      BY <1>1, <3>2, HandedOutGrows
    <3>4. Current(f) \in Handles \ HandedOut(duplex)
      BY <1>1, <3>1, <3>2, NextTurnIsFresh DEF Current
    <3>5. /\ AfterAborts(f) \in [Handles -> WorkRecords(options.calls)]
          /\ SameAt(work, AfterAborts(f))
      BY <1>1, AfterAbortsKeeps
    <3>6. BookInv(f, AfterAborts(f))
      BY <1>1, <3>2, <3>3, <3>4, <3>5, CaptureBegins
    <3>7. CaptureIsHeld'
      BY <2>3 DEF CaptureIsHeld
    <3> QED
      BY <1>1, <1>4, <2>1, <2>3, <3>4, <3>5, <3>6, <3>7 DEF LoopShape
  <2> QED
    BY <1>6, <2>2, <2>3 DEF SpeechConfirmed
<1>7. ASSUME mic # NoHandle, ~mayFinalize(duplex, mic[1])
      PROVE  duplex.state # "speech_started"
  <2>1. duplex.state = "speech_started" => mic = Current(duplex) /\ duplex.turn # 0
    BY <1>1, TurnOf DEF LoopInv, CaptureIsHeld
  <2> QED
    BY <1>7, <2>1 DEF mayFinalize, isCurrent, Current
<1>8. ASSUME mayFinalize(duplex, mic[1]), SoftEnded(mic) \/ HardEnded(mic)
      PROVE  /\ BookInv(duplex, work)' /\ CaptureIsHeld'
             /\ work' \in [Handles -> WorkRecords(options.calls)]
             /\ speculative' \in 0..MaxTurns
  <2>1. /\ BookInv(duplex, work)' /\ duplex'.state = "thinking"
        /\ work' \in [Handles -> WorkRecords(options.calls)]
        /\ mic[1] \in TurnIds
    BY <1>8, CaptureEnds DEF SoftEnded, HardEnded
  <2>2. speculative' \in 0..MaxTurns
    BY <1>1, <1>8, <2>1, TurnIdsNat, KernelAssumption DEF SoftEnded, HardEnded, LoopShape
  <2> QED
    BY <2>1, <2>2 DEF CaptureIsHeld
<1>9. ASSUME UNCHANGED <<duplex, work>>,
             mic' = mic \/ duplex.state # "speech_started"
      PROVE  BookInv(duplex, work)' /\ CaptureIsHeld'
  BY <1>1, <1>9 DEF LoopInv, CaptureIsHeld
<1>10. CASE SpeechDropped
  <2>1. /\ Resume("dropped") /\ loop' = "frame" /\ nudge' = nudge
        /\ mic' \in {mic, NoHandle} /\ prefix' \in {prefix, FALSE}
    BY <1>10 DEF SpeechDropped
  <2>2. /\ mic' \in Handles \cup {NoHandle} /\ prefix' \in BOOLEAN /\ nudge' \in BOOLEAN
    BY <1>1, <2>1 DEF LoopShape
  <2>3. CASE mayFinalize(duplex, mic[1]) /\ SoftEnded(mic)
    BY <1>4, <1>8, <2>1, <2>2, <2>3
  <2>4. CASE /\ UNCHANGED <<duplex, work, speculative>>
             /\ (mic # NoHandle /\ ~mayFinalize(duplex, mic[1])) \/ mic' = mic
    BY <1>1, <1>4, <1>7, <1>9, <2>1, <2>2, <2>4 DEF LoopShape
  <2> QED
    BY <1>10, <2>3, <2>4 DEF SpeechDropped
<1>11. CASE SpeechEnd
  <2>1. /\ Resume("end") /\ loop' = "frame" /\ nudge' = nudge
        /\ mic' \in {mic, NoHandle} /\ prefix' \in {prefix, FALSE}
    BY <1>11 DEF SpeechEnd
  <2>2. /\ mic' \in Handles \cup {NoHandle} /\ prefix' \in BOOLEAN /\ nudge' \in BOOLEAN
    BY <1>1, <2>1 DEF LoopShape
  <2>3. CASE mayFinalize(duplex, mic[1]) /\ (SoftEnded(mic) \/ HardEnded(mic))
    BY <1>4, <1>8, <2>1, <2>2, <2>3
  <2>4. CASE UNCHANGED <<duplex, work, speculative, mic>>
    BY <1>1, <1>4, <1>9, <2>1, <2>2, <2>4 DEF LoopShape
  <2> QED
    BY <1>11, <2>3, <2>4 DEF SpeechEnd
<1> QED
  BY <1>2, <1>5, <1>6, <1>10, <1>11

\* The owner of the session, and time.
LEMMA OwnerKeeps ==
  ASSUME LoopInv, Owner \/ SuppressionPasses
  PROVE  LoopInv'
<1>1. /\ LoopShape /\ BookInv(duplex, work) /\ SessionInv(duplex) /\ TypeOK
      /\ work \in [Handles -> WorkRecords(options.calls)]
  BY TypeIsShape DEF LoopInv, BookInv, LoopShape
<1>2. CASE QueueAgentSpeech \/ ClearQueuedAgentSpeech \/ SuppressionPasses
  <2>1. queued' \in 0..MaxQueued
    BY <1>1, <1>2, LoopAssumption
       DEF QueueAgentSpeech, ClearQueuedAgentSpeech, SuppressionPasses, LoopShape
  <2>2. LoopShape' /\ ConfirmedIsHeld'
    BY <1>1, <1>2, <2>1
       DEF QueueAgentSpeech, ClearQueuedAgentSpeech, SuppressionPasses, LoopShape,
           micVars, LoopInv, ConfirmedIsHeld
  <2> QED
    BY <1>2, <2>2, QuietStepKeeps
       DEF QueueAgentSpeech, ClearQueuedAgentSpeech, SuppressionPasses, micVars
<1>3. CASE OwnerInterrupt \/ Stop
  <2>1. /\ SessionInv(duplex') /\ duplex'.turn = 0
        /\ duplex'.state \in {"listening", "closed"}
        /\ duplex'.issued = duplex.issued /\ duplex'.revs = duplex.revs
        /\ Stopped(duplex, duplex')
    BY <1>1, <1>3, InterruptInv, CloseInv DEF OwnerInterrupt, Stop
  <2>2. /\ work' = AfterAborts(duplex')
        /\ UNCHANGED <<micVars, suppressed, nudge, queued, pending, settled>>
    BY <1>3 DEF OwnerInterrupt, Stop
  <2>3. work' \in [Handles -> WorkRecords(options.calls)] /\ SameAt(work, work')
    BY <1>1, <2>2, AfterAbortsKeeps
  <2>4. BookInv(duplex, work)'
    BY <1>1, <2>1, <2>3, TurnStops
  <2>5. LoopShape'
    BY <1>1, <2>2, <2>3 DEF LoopShape, micVars
  <2>6. CaptureIsHeld' /\ NothingBefore' /\ ConfirmedIsHeld'
    BY <2>1, <2>2 DEF CaptureIsHeld, NothingBefore, ConfirmedIsHeld, LoopInv, micVars
  <2> QED
    BY <2>4, <2>5, <2>6, ShapeIsType DEF LoopInv
<1>4. CASE TypedText
  <2> DEFINE d == IF duplex.state = "listening" THEN duplex
                  ELSE interrupt(duplex, "barge_in")
             t == duplex.issued + 1
             f == duplex'
  <2>1. /\ loop # "starting" /\ duplex.state \notin {"idle", "closed"}
        /\ duplex.issued < MaxTurns
        /\ f = startThinking(startUserText(d), t)
        /\ work' = [AfterAborts(d) EXCEPT ![<<t, 0>>] = TextWork]
        /\ mic' = NoHandle /\ push' = [push EXCEPT !.stale = (loop = "push")]
        /\ segment' = "quiet" /\ nudge' = FALSE /\ speculative' = 0 /\ prefix' = FALSE
        /\ UNCHANGED <<options, loop, suppressed, queued, pending, settled>>
    BY <1>4 DEF TypedText
  <2>2. /\ SessionInv(d) /\ d.state = "listening" /\ d.turn = 0
        /\ d.issued = duplex.issued /\ d.revs = duplex.revs /\ Stopped(duplex, d)
    <3>1. CASE duplex.state = "listening"
      BY <1>1, <3>1 DEF SessionInv, Matches, TurnStates, Stopped
    <3>2. CASE duplex.state # "listening"
      <4>1. duplex.turn # 0
        BY <1>1, <2>1, <3>2 DEF SessionInv, Records, SessionStates, Matches, TurnStates
      <4> QED
        BY <1>1, <3>2, <4>1, InterruptInv
    <3> QED
      BY <3>1, <3>2
  <2> HIDE DEF d
  <2>3. mayStartIdleTurn(d) /\ d.issued < MaxTurns
    BY <2>1, <2>2 DEF mayStartIdleTurn
  <2>4. /\ SessionInv(f) /\ f.state = "thinking" /\ Stopped(d, f)
        /\ f.issued = t /\ f.revs = duplex.revs /\ Current(f) = <<t, 0>>
    BY <2>1, <2>2, <2>3, ThinkingTurn
  <2>5. Stopped(duplex, f)
    BY <2>2, <2>4 DEF Stopped
  <2>6. HandedOut(duplex) \subseteq HandedOut(f)
    BY <1>1, <2>4, HandedOutGrows
  <2>7. Current(f) \in Handles \ HandedOut(duplex)
    BY <1>1, <2>1, <2>4, NextTurnIsFresh
  <2>8. /\ AfterAborts(d) \in [Handles -> WorkRecords(options.calls)]
        /\ SameAt(work, AfterAborts(d))
    BY <1>1, AfterAbortsKeeps
  <2>9. TextWork \in WorkRecords(options.calls) /\ TextWork.at \in Suspensions
    BY <1>1, NewWork
  <2>10. BookInv(f, [AfterAborts(d) EXCEPT ![Current(f)] = TextWork])
    BY <1>1, <2>4, <2>5, <2>6, <2>7, <2>8, <2>9, AnswerBegins
  <2>11. BookInv(duplex, work)' /\ work' \in [Handles -> WorkRecords(options.calls)]
    BY <2>1, <2>4, <2>8, <2>9, <2>10
  <2>12. push' \in [event : VadEvents, stale : BOOLEAN] /\ (loop = "push" => push'.stale)
    BY <1>1, <2>1 DEF LoopShape
  <2>13. LoopShape'
    <3>1. 0 \in 0..MaxTurns
      BY KernelAssumption
    <3>2. /\ mic' = NoHandle /\ segment' = "quiet" /\ nudge' = FALSE
          /\ speculative' = 0 /\ prefix' = FALSE
          /\ UNCHANGED <<options, loop, suppressed, queued, pending, settled>>
      BY <2>1
    <3> QED
      BY <1>1, <2>11, <2>12, <3>1, <3>2 DEF LoopShape
  <2>14. CaptureIsHeld' /\ NothingBefore' /\ ConfirmedIsHeld'
    BY <2>1, <2>4, <2>12 DEF CaptureIsHeld, NothingBefore, ConfirmedIsHeld
  <2> QED
    BY <2>11, <2>13, <2>14, ShapeIsType DEF LoopInv
<1> QED
  BY <1>2, <1>3, <1>4 DEF Owner

-----------------------------------------------------------------------------
(* The loop's invariant, and what follows from it.                         *)

\* What the session is when the loop begins.
LEMMA InitIs ==
  ASSUME Init
  PROVE  /\ SessionInv(duplex) /\ duplex.state = "listening"
         /\ duplex.turn = 0 /\ duplex.issued = 0
<1>1. NewSession.state = "idle" /\ NewSession \in Records
  BY NewSessionInv DEF SessionInv, NewSession
<1>2. SessionInv(duplex)
  BY <1>1, NewSessionInv, StartInv DEF Init
<1>3. duplex.state = "listening" /\ duplex.turn = 0 /\ duplex.issued = 0
  BY DEF Init, start, NewSession
<1> QED
  BY <1>2, <1>3

\* A conversation of any session begins with the invariant.
LEMMA InitKeeps == Init => LoopInv
<1> SUFFICES ASSUME Init PROVE LoopInv
  OBVIOUS
<1>1. SessionInv(duplex) /\ duplex.state = "listening" /\ duplex.issued = 0
  BY InitIs
<1>2. \A h \in Handles : work[h] = NoWork
  BY DEF Init
<1>3. NoWork.at = "unstarted" /\ "unstarted" \notin Suspensions
  BY DEF NoWork, Suspensions
<1>4. duplex.finished = {}
  BY DEF Init, start, NewSession
<1>5. BookInv(duplex, work)
  BY <1>1, <1>2, <1>3, <1>4
     DEF BookInv, WorkIsHandedOut, LiveWorkIsCurrent, CurrentIsWorked, FinishedIsDone,
         Answering
<1>6. 0 \in 0..MaxTurns /\ 0 \in 0..MaxQueued /\ 0 \in 0..options.calls
  BY KernelAssumption, LoopAssumption DEF Init
<1>7. LoopShape
  BY <1>6 DEF Init, LoopShape, WorkRecords, NoWork, VadEvents
<1>8. CaptureIsHeld /\ NothingBefore /\ ConfirmedIsHeld
  BY <1>1 DEF Init, CaptureIsHeld, NothingBefore, ConfirmedIsHeld
<1> QED
  BY <1>5, <1>7, <1>8, ShapeIsType DEF LoopInv

\* Every step of the frame loop, of a dispatch and of the owner keeps the invariant.
LEMMA NextKeeps == LoopInv /\ [Next]_vars => LoopInv'
<1> SUFFICES ASSUME LoopInv, [Next]_vars PROVE LoopInv'
  OBVIOUS
<1>1. CASE FrameLoop
  BY <1>1, FrameKeeps, ResumeKeeps DEF FrameLoop
<1>2. ASSUME NEW h \in Handles, Dispatch(h) PROVE LoopInv'
  BY <1>2, DispatchKeeps
<1>3. CASE Owner \/ SuppressionPasses
  BY <1>3, OwnerKeeps
<1>4. CASE UNCHANGED vars
  <2>1. LoopShape /\ LoopShape'
    BY <1>4, TypeIsShape DEF LoopInv, LoopShape, vars
  <2> QED
    BY <1>4, <2>1, QuietStepKeeps DEF LoopInv, ConfirmedIsHeld, vars
<1> QED
  BY <1>1, <1>2, <1>3, <1>4 DEF Next

\* Whatever frames, dispatches and the owner do, the loop keeps its types and
\* its dispatches agree with the kernel's handles.
THEOREM LoopInvariant == Spec => []LoopInv
<1> QED
  BY InitKeeps, NextKeeps, PTL DEF Spec

\* The loop keeps its types.
THEOREM LoopTypeCorrect == Spec => []TypeOK
<1>1. LoopInv => TypeOK
  BY DEF LoopInv
<1> QED
  BY <1>1, LoopInvariant, PTL

\* No early return, failure, reopen or supersession leaves a turn captured,
\* thinking or speaking with nobody left to end it.
THEOREM TurnsStayOwned == Spec => []EveryTurnIsOwned
<1>1. LoopInv => EveryTurnIsOwned
  BY DEF LoopInv, BookInv, CurrentIsWorked, EveryTurnIsOwned, ThinkingIsWorkedOn, Answering
<1> QED
  BY <1>1, LoopInvariant, PTL

\* A superseded dispatch neither speaks for its successor nor completes its
\* turn.
THEOREM SupersededStaysMute == Spec => []SupersededWorkIsMute
<1>1. LoopInv => SupersededWorkIsMute
  BY DEF LoopInv, BookInv, CurrentIsWorked, FinishedIsDone, SupersededWorkIsMute,
         OnlyCurrentWorkSpeaks, CompletedByOwnWork
<1> QED
  BY <1>1, LoopInvariant, PTL

\* A voice turn is opened only for speech the segmenter still holds: a typed
\* turn that discarded it while vad.push was awaited is not interrupted by it.
THEOREM HeldSpeechOpens == Spec => OnlyHeldSpeechOpensTurn
<1> DEFINE Opens == mic = NoHandle /\ mic' # NoHandle /\ duplex'.issued > duplex.issued
<1>1. ASSUME LoopInv, [Next]_vars, Opens PROVE segment = "confirmed"
  <2>1. SessionInv(duplex) /\ duplex.issued \in Nat
    BY <1>1, Fields, KernelAssumption DEF LoopInv, BookInv, SessionInv
  <2>2. CASE SpeechConfirmed
    BY <1>1, <2>2 DEF LoopInv, ConfirmedIsHeld, SpeechConfirmed, Resume
  <2>3. CASE SpeechStart
    <3>1. duplex'.issued = duplex.issued
      BY <1>1, <2>1, <2>3, ReopenInv DEF SpeechStart
    <3> QED
      BY <1>1, <2>1, <3>1
  <2>4. CASE ~SpeechConfirmed /\ ~SpeechStart
    <3>1. mic' \in {mic, NoHandle}
      <4>1. CASE FrameLoop
        BY <2>4, <4>1 DEF FrameLoop, Begin, FrameAfterClose, SuppressedFrame, Frame,
                          StalePush, SpeechDropped, SpeechEnd
      <4>2. ASSUME NEW h \in Handles, Dispatch(h) PROVE mic' = mic
        BY <1>1, <4>2, DispatchIsWorkStep DEF LoopInv, WorkStep, micVars
      <4>3. CASE Owner \/ SuppressionPasses
        BY <4>3 DEF Owner, TypedText, OwnerInterrupt, Stop, QueueAgentSpeech,
                    ClearQueuedAgentSpeech, SuppressionPasses, micVars
      <4>4. CASE UNCHANGED vars
        BY <4>4 DEF vars
      <4> QED
        BY <1>1, <4>1, <4>2, <4>3, <4>4 DEF Next
    <3> QED
      BY <1>1, <3>1
  <2> QED
    BY <2>2, <2>3, <2>4
<1>2. LoopInv /\ [Next]_vars => [Opens => segment = "confirmed"]_vars
  BY <1>1
<1> QED
  BY <1>2, LoopInvariant, PTL DEF Spec, OnlyHeldSpeechOpensTurn

-----------------------------------------------------------------------------
(* External actions.  One that is asked about was asked by a dispatch that *)
(* has come as far as the model; whoever may confirm it is a later one, so *)
(* by then the asker's handle is over, and cannot ask again.               *)

ActionInv ==
    /\ pending # NoHandle => /\ work[pending].at \in AskedAt
                             /\ \A s \in settled : s.action # pending
    /\ \A h \in Handles : work[h].offered # h
    /\ \A s \in settled : s.action \in duplex.aborted \cup duplex.finished
    /\ ActionsAreAskedOnce

\* A handle that is over stays over.
OverGrows == /\ duplex.aborted \subseteq duplex'.aborted
             /\ duplex.finished \subseteq duplex'.finished

\* Outside its own steps a dispatch only loses its offer, or begins.
Undisturbed ==
    \A k \in Handles :
        \/ /\ work'[k].at = work[k].at
           /\ work'[k].offered \in {work[k].offered, NoHandle}
        \/ /\ work[k].at = "unstarted"
           /\ work'[k].offered \in {pending, NoHandle}

\* A step of a dispatch leaves over what is over.
LEMMA WorkStepOver ==
  ASSUME BookInv(duplex, work), NEW h, NEW u, WorkStep(h, u)
  PROVE  OverGrows
<1>1. SessionInv(duplex)
  BY DEF BookInv
<1>2. CASE duplex' = duplex
  BY <1>2 DEF OverGrows
<1>3. CASE duplex' = interrupt(duplex, "cancel")
  BY <1>1, <1>3, InterruptInv DEF Stopped, OverGrows
<1>4. CASE duplex' = complete(duplex, h[1])
  <2>1. CASE mayComplete(duplex, h[1])
    BY <1>1, <1>4, <2>1, CompleteInv DEF OverGrows
  <2>2. CASE ~mayComplete(duplex, h[1])
    BY <1>4, <2>2 DEF complete, OverGrows
  <2> QED
    BY <2>1, <2>2
<1>5. CASE duplex' = startSpeaking(duplex, h[1])
  <2>1. CASE maySpeak(duplex, h[1])
    BY <1>1, <1>5, <2>1, StartSpeakingInv DEF SameBook, OverGrows
  <2>2. CASE ~maySpeak(duplex, h[1])
    BY <1>5, <2>2 DEF startSpeaking, OverGrows
  <2> QED
    BY <2>1, <2>2
<1> QED
  BY <1>2, <1>3, <1>4, <1>5 DEF WorkStep

\* A dispatch that begins, alone or with the signals of d fired, disturbs no other.
BegunWith(k, u) ==
    /\ k \in Handles /\ work[k].at = "unstarted"
    /\ u.offered \in {pending, NoHandle}

\* Starting one dispatch disturbs no other.
LEMMA BeginsUndisturbed ==
  ASSUME TypeOK, NEW k, NEW u, BegunWith(k, u), work' = [work EXCEPT ![k] = u]
  PROVE  Undisturbed
<1>1. work'[k] = u /\ \A h \in Handles : h # k => work'[h] = work[h]
  BY DEF TypeOK, BegunWith
<1> QED
  BY <1>1 DEF BegunWith, Undisturbed

\* Nor does starting one as the signals of d fire.
LEMMA BeginsAfterAborts ==
  ASSUME TypeOK, NEW d, NEW k, NEW u, BegunWith(k, u),
         work' = [AfterAborts(d) EXCEPT ![k] = u]
  PROVE  Undisturbed
<1>1. /\ AfterAborts(d) \in [Handles -> WorkRecords(options.calls)]
      /\ \A h \in Handles : /\ AfterAborts(d)[h].at = work[h].at
                            /\ AfterAborts(d)[h].offered \in {work[h].offered, NoHandle}
  BY AfterAbortsKeeps DEF SameAt, TypeOK, WorkRecords
<1>2. work'[k] = u /\ \A h \in Handles : h # k => work'[h] = AfterAborts(d)[h]
  BY <1>1 DEF BegunWith
<1> QED
  BY <1>1, <1>2 DEF BegunWith, Undisturbed

\* Nor do the frame loop and the owner disturb what is over, the dispatches
\* under way or the confirmation slot.
LEMMA OthersDisturbNothing ==
  ASSUME LoopInv, FrameLoop \/ Owner \/ SuppressionPasses
  PROVE  OverGrows /\ Undisturbed /\ UNCHANGED <<pending, settled, options>>
<1>1. /\ TypeOK /\ BookInv(duplex, work) /\ SessionInv(duplex)
      /\ work \in [Handles -> WorkRecords(options.calls)]
  BY DEF LoopInv, BookInv, TypeOK, WorkRecords
<1>2. ASSUME UNCHANGED <<duplex, work>> PROVE OverGrows /\ Undisturbed
  BY <1>2 DEF OverGrows, Undisturbed
<1>3. ASSUME Stopped(duplex, duplex') PROVE OverGrows
  BY <1>3 DEF Stopped, OverGrows
<1>4. ASSUME NEW d, work' = AfterAborts(d) PROVE Undisturbed
  BY <1>1, <1>4, AfterAbortsKeeps DEF Undisturbed, SameAt
<1>6. ASSUME duplex.issued < MaxTurns
      PROVE  /\ <<duplex.issued + 1, 0>> \in Handles
             /\ work[<<duplex.issued + 1, 0>>].at = "unstarted"
  BY <1>1, <1>6, NextTurnIsFresh DEF BookInv, WorkIsHandedOut
<1>7. /\ \A kind : AgentWork(kind).offered = NoHandle
      /\ AudioWork.offered = NoHandle /\ TextWork.offered = pending
  BY DEF AgentWork, AudioWork, TextWork, NoWork
<1>8. ASSUME duplex.issued < MaxTurns, mayStartIdleTurn(duplex), NEW kind,
             duplex' = startThinking(startAgentTurn(duplex), duplex.issued + 1),
             work' = [work EXCEPT ![<<duplex.issued + 1, 0>>] = AgentWork(kind)]
      PROVE  OverGrows /\ Undisturbed
  <2>1. Stopped(duplex, duplex')
    BY <1>1, <1>8, ThinkingTurn
  <2> DEFINE k == <<duplex.issued + 1, 0>>
  <2>2. BegunWith(k, AgentWork(kind)) /\ work' = [work EXCEPT ![k] = AgentWork(kind)]
    BY <1>6, <1>7, <1>8 DEF BegunWith
  <2> HIDE DEF k
  <2>3. Undisturbed
    BY <1>1, <2>2, BeginsUndisturbed
  <2> QED
    BY <1>3, <2>1, <2>3
<1>9. CASE Begin
  <2>1. CASE UNCHANGED <<duplex, work>>
    BY <1>2, <1>9, <2>1 DEF Begin
  <2>2. CASE /\ MaxTurns > 0
             /\ duplex' = startThinking(startAgentTurn(duplex), 1)
             /\ work' = [work EXCEPT ![<<1, 0>>] = AgentWork("welcome")]
    <3>1. duplex.issued = 0 /\ duplex.state # "closed"
      BY <1>9 DEF Begin, LoopInv, NothingBefore
    <3>2. duplex.turn = 0
      BY <1>1, <3>1 DEF SessionInv, Newest
    <3>3. mayStartIdleTurn(duplex)
      BY <1>1, <3>1, <3>2
         DEF mayStartIdleTurn, BookInv, SessionInv, Records, SessionStates, Matches, TurnStates
    <3>4. duplex.issued < MaxTurns /\ duplex.issued + 1 = 1
      BY <2>2, <3>1, KernelAssumption
    <3> QED
      BY <1>8, <1>9, <2>2, <3>3, <3>4 DEF Begin
  <2> QED
    BY <1>9, <2>1, <2>2 DEF Begin
<1>10. ASSUME NEW event, Frame(event)
       PROVE  OverGrows /\ Undisturbed /\ UNCHANGED <<pending, settled, options>>
  <2>1. CASE UNCHANGED <<duplex, work>>
    BY <1>2, <1>10, <2>1 DEF Frame
  <2>2. CASE /\ mayStartIdleTurn(duplex) /\ duplex.issued < MaxTurns
             /\ duplex' = startThinking(startAgentTurn(duplex), duplex.issued + 1)
             /\ work' = [work EXCEPT ![<<duplex.issued + 1, 0>>] = AgentWork("agent")]
    BY <1>8, <1>10, <2>2 DEF Frame
  <2> QED
    BY <1>10, <2>1, <2>2 DEF Frame
<1>11. CASE FrameAfterClose \/ SuppressedFrame \/ StalePush
  BY <1>2, <1>11 DEF FrameAfterClose, SuppressedFrame, StalePush
<1>12. CASE SpeechStart
  <2>1. UNCHANGED <<pending, settled, options>>
    BY <1>12 DEF SpeechStart, Resume
  <2>2. CASE UNCHANGED <<duplex, work>>
    BY <1>2, <2>1, <2>2
  <2>3. CASE /\ mayReopen(duplex, speculative)
             /\ duplex.revs[speculative] < MaxRevision
             /\ duplex' = reopen(duplex, speculative)
             /\ work' = AfterAborts(duplex')
    BY <1>1, <1>3, <1>4, <2>1, <2>3, ReopenInv
  <2> QED
    BY <1>12, <2>2, <2>3 DEF SpeechStart
<1>13. CASE SpeechConfirmed
  <2>1. UNCHANGED <<pending, settled, options>>
    BY <1>13 DEF SpeechConfirmed, Resume
  <2>2. CASE UNCHANGED <<duplex, work>>
    BY <1>2, <2>1, <2>2
  <2>3. CASE /\ mic = NoHandle
             /\ duplex' = startUserSpeech(duplex)
             /\ work' = AfterAborts(duplex')
    <3>1. duplex.issued < MaxTurns
      BY <1>13, <2>3 DEF LoopInv, ConfirmedIsHeld, SpeechConfirmed, Resume
    <3> QED
      BY <1>1, <1>3, <1>4, <2>1, <2>3, <3>1, StartUserSpeechInv
  <2> QED
    BY <1>13, <2>2, <2>3 DEF SpeechConfirmed
<1>14. ASSUME mayFinalize(duplex, mic[1]), SoftEnded(mic) \/ HardEnded(mic)
       PROVE  OverGrows /\ Undisturbed
  <2>1. mic = Current(duplex) /\ duplex.turn # 0 /\ duplex.state = "speech_started"
    BY <1>14, CaptureEnds DEF SoftEnded, HardEnded, mayFinalize, isCurrent
  <2>2. mic \in Handles /\ work[mic].at = "unstarted"
    BY <1>1, <2>1, OverOrCurrent DEF BookInv, CurrentIsWorked, HandedOut
  <2>3. SameBook(duplex, duplex')
    BY <1>1, <1>14, ThinkingAfterSpeech DEF SoftEnded, HardEnded
  <2>4. work' = [work EXCEPT ![mic] = AudioWork]
    BY <1>14 DEF SoftEnded, HardEnded
  <2>5. Undisturbed
    BY <1>1, <1>7, <2>2, <2>4, BeginsUndisturbed DEF BegunWith
  <2> QED
    BY <2>3, <2>5 DEF SameBook, OverGrows
<1>15. CASE SpeechDropped \/ SpeechEnd
  <2>1. UNCHANGED <<pending, settled, options>>
    BY <1>15 DEF SpeechDropped, SpeechEnd, Resume
  <2>2. \/ UNCHANGED <<duplex, work>>
        \/ mayFinalize(duplex, mic[1]) /\ (SoftEnded(mic) \/ HardEnded(mic))
    BY <1>15 DEF SpeechDropped, SpeechEnd
  <2> QED
    BY <1>2, <1>14, <2>1, <2>2
<1>16. CASE OwnerInterrupt \/ Stop
  <2>1. Stopped(duplex, duplex')
    BY <1>1, <1>16, InterruptInv, CloseInv DEF OwnerInterrupt, Stop
  <2> QED
    BY <1>3, <1>4, <1>16, <2>1 DEF OwnerInterrupt, Stop, micVars
<1>17. CASE QueueAgentSpeech \/ ClearQueuedAgentSpeech \/ SuppressionPasses
  BY <1>2, <1>17 DEF QueueAgentSpeech, ClearQueuedAgentSpeech, SuppressionPasses, micVars
<1>18. CASE TypedText
  <2> DEFINE d == IF duplex.state = "listening" THEN duplex
                  ELSE interrupt(duplex, "barge_in")
             t == duplex.issued + 1
  <2>1. /\ duplex.state \notin {"idle", "closed"} /\ duplex.issued < MaxTurns
        /\ duplex' = startThinking(startUserText(d), t)
        /\ work' = [AfterAborts(d) EXCEPT ![<<t, 0>>] = TextWork]
        /\ UNCHANGED <<pending, settled, options>>
    BY <1>18 DEF TypedText
  <2>2. /\ SessionInv(d) /\ d.state = "listening" /\ d.turn = 0
        /\ d.issued = duplex.issued /\ Stopped(duplex, d)
    <3>1. CASE duplex.state = "listening"
      BY <1>1, <3>1 DEF SessionInv, Matches, TurnStates, Stopped
    <3>2. CASE duplex.state # "listening"
      <4>1. duplex.turn # 0
        BY <1>1, <2>1, <3>2 DEF BookInv, SessionInv, Records, SessionStates, Matches, TurnStates
      <4> QED
        BY <1>1, <3>2, <4>1, InterruptInv
    <3> QED
      BY <3>1, <3>2
  <2> HIDE DEF d
  <2>3. Stopped(d, duplex')
    BY <2>1, <2>2, ThinkingTurn DEF mayStartIdleTurn
  <2>4. OverGrows
    BY <1>3, <2>2, <2>3 DEF Stopped
  <2>5. Undisturbed
    <3> DEFINE k == <<t, 0>>
    <3>1. BegunWith(k, TextWork) /\ work' = [AfterAborts(d) EXCEPT ![k] = TextWork]
      BY <1>6, <1>7, <2>1 DEF BegunWith
    <3> HIDE DEF k
    <3> QED
      BY <1>1, <3>1, BeginsAfterAborts
  <2> QED
    BY <2>1, <2>4, <2>5
<1> QED
  BY <1>9, <1>10, <1>11, <1>12, <1>13, <1>15, <1>16, <1>17, <1>18
     DEF FrameLoop, Owner

\* While the confirmation slot is left alone, what it holds stays asked about.
LEMMA SlotKept ==
  ASSUME LoopInv, ActionInv, OverGrows, UNCHANGED <<pending, settled>>,
         \/ Undisturbed
         \/ \E h \in Handles : \E u : WorkStep(h, u)
  PROVE  ActionInv'
<1>1. /\ work \in [Handles -> WorkRecords(options.calls)]
      /\ pending \in Handles \cup {NoHandle} /\ NoHandle \notin Handles
  BY HandlePairs DEF LoopInv, TypeOK, WorkRecords, NoHandle, Handles, TurnIds
<1>2. "unstarted" \notin AskedAt /\ "done" \in AskedAt
  BY DEF AskedAt
<1>3. ActionsAreAskedOnce'
  BY DEF ActionInv, ActionsAreAskedOnce, SettledOnce, NeverConfirmedByItself
<1>4. \A s \in settled' : s.action \in duplex'.aborted \cup duplex'.finished
  BY DEF ActionInv, OverGrows
<1>5. CASE Undisturbed
  <2>1. pending # NoHandle => work'[pending].at \in AskedAt
    BY <1>1, <1>2, <1>5 DEF ActionInv, Undisturbed
  <2>2. \A h \in Handles : work'[h].offered # h
    BY <1>1, <1>2, <1>5 DEF ActionInv, Undisturbed
  <2> QED
    BY <1>3, <1>4, <2>1, <2>2 DEF ActionInv
<1>6. ASSUME NEW h \in Handles, NEW u, WorkStep(h, u) PROVE ActionInv'
  <2>1. /\ work'[h] = u /\ \A k \in Handles : k # h => work'[k] = work[k]
        /\ OffersFairly(h, u)
    BY <1>1, <1>6 DEF WorkStep
  <2>2. pending # NoHandle => work'[pending].at \in AskedAt
    BY <1>1, <2>1 DEF ActionInv, OffersFairly
  <2>3. \A k \in Handles : work'[k].offered # k
    BY <1>1, <2>1 DEF ActionInv, OffersFairly
  <2> QED
    BY <1>3, <1>4, <2>2, <2>3 DEF ActionInv
<1> QED
  BY <1>5, <1>6

\* What a dispatch that was not told to stop was offered belongs to a turn that
\* is over.
LEMMA OfferedIsOver ==
  ASSUME LoopInv, ActionInv, NEW h \in Handles, work[h].at \in Suspensions,
         h \notin duplex.aborted
  PROVE  /\ h \notin duplex.aborted \cup duplex.finished
         /\ MayConfirm(h) => /\ pending \in Handles /\ pending # h
                             /\ pending \in duplex.aborted \cup duplex.finished
<1>1. BookInv(duplex, work) /\ SessionInv(duplex) /\ pending \in Handles \cup {NoHandle}
  BY DEF LoopInv, BookInv, TypeOK
<1>2. h = Current(duplex) /\ duplex.turn # 0
  BY <1>1, UnabortedIsCurrent
<1>3. h \notin duplex.aborted \cup duplex.finished
  BY <1>1, <1>2, OverOrCurrent
<1>4. ASSUME MayConfirm(h)
      PROVE  /\ pending \in Handles /\ pending # h
             /\ pending \in duplex.aborted \cup duplex.finished
  <2>1. pending # NoHandle /\ pending \in Handles /\ pending # h
    BY <1>1, <1>4 DEF MayConfirm, ActionInv
  <2>2. work[pending].at # "unstarted"
    BY <2>1 DEF ActionInv, AskedAt
  <2>3. pending \in HandedOut(duplex)
    BY <1>1, <2>1, <2>2 DEF BookInv, WorkIsHandedOut
  <2> QED
    BY <1>1, <1>2, <2>1, <2>3, OverOrCurrent
<1> QED
  BY <1>3, <1>4

\* A dispatch keeps external actions asked about first and decided once.
LEMMA DispatchKeepsActions ==
  ASSUME LoopInv, ActionInv, NEW h \in Handles, Dispatch(h)
  PROVE  ActionInv'
<1>1. PICK u : WorkStep(h, u)
  BY DispatchIsWorkStep DEF LoopInv
<1>2. OverGrows
  BY <1>1, WorkStepOver DEF LoopInv
<1>3. /\ work \in [Handles -> WorkRecords(options.calls)]
      /\ pending \in Handles \cup {NoHandle} /\ NoHandle \notin Handles
  BY HandlePairs DEF LoopInv, TypeOK, WorkRecords, NoHandle, Handles, TurnIds
<1>4. /\ work'[h] = u /\ \A k \in Handles : k # h => work'[k] = work[k]
      /\ OffersFairly(h, u) /\ work[h].at \in Suspensions
  BY <1>1, <1>3 DEF WorkStep
<1>5. CASE UNCHANGED <<pending, settled>>
  BY <1>1, <1>2, <1>5, SlotKept
<1>6. \A k \in Handles : work'[k].offered # k
  BY <1>3, <1>4 DEF ActionInv, OffersFairly
<1>7. CASE CallParked(h)
  <2>1. /\ pending' = h /\ settled' = settled /\ work[h].at = "model"
        /\ h \notin duplex.aborted /\ duplex' = duplex
    BY <1>7 DEF CallParked, Calls, Aborted
  <2>2. work'[h].at \in AskedAt
    BY <1>4, <2>1 DEF OffersFairly, AskedAt
  <2>3. h \notin duplex.aborted \cup duplex.finished
    BY <1>4, <2>1, OfferedIsOver
  <2> QED
    BY <1>6, <2>1, <2>2, <2>3
       DEF ActionInv, ActionsAreAskedOnce, SettledOnce, NeverConfirmedByItself
<1>8. ASSUME NEW how, MayConfirm(h), Settle(h, how), h \notin duplex.aborted PROVE ActionInv'
  <2> DEFINE new == [action |-> pending, by |-> h, how |-> how]
  <2>1. /\ pending # NoHandle /\ pending # h
        /\ pending \in duplex.aborted \cup duplex.finished
    BY <1>4, <1>8, OfferedIsOver DEF MayConfirm
  <2>2. pending' = NoHandle /\ settled' = settled \cup {new}
    BY <1>8 DEF Settle
  <2>3. new.action = pending /\ new.by = h
    OBVIOUS
  <2>4. \A s \in settled : s.action # pending
    BY <2>1 DEF ActionInv
  <2> HIDE DEF new
  <2>5. SettledOnce'
    BY <2>2, <2>3, <2>4 DEF ActionInv, ActionsAreAskedOnce, SettledOnce
  <2>6. NeverConfirmedByItself'
    BY <2>1, <2>2, <2>3 DEF ActionInv, ActionsAreAskedOnce, NeverConfirmedByItself
  <2>7. \A s \in settled' : s.action \in duplex'.aborted \cup duplex'.finished
    BY <1>2, <2>1, <2>2, <2>3 DEF ActionInv, OverGrows
  <2> QED
    BY <1>6, <2>2, <2>5, <2>6, <2>7 DEF ActionInv, ActionsAreAskedOnce
<1>9. \/ UNCHANGED <<pending, settled>>
      \/ CallParked(h)
      \/ \E how : MayConfirm(h) /\ Settle(h, how) /\ h \notin duplex.aborted
  BY DEF Dispatch, Transcribed, KeytermsArrive, ModelSpeaks, Piece, CallTool, CallRefused,
         CallConfirm, CallCancel, ToolReturns, Unwinds, EmptyReply, ReplyEnds,
         PlayerCloses, Fails, Calls, Aborted
<1> QED
  BY <1>5, <1>7, <1>8, <1>9

\* An external action is asked about first, by one dispatch, and decided once,
\* by a later one: no reopen, interruption or late confirmation runs it twice.
THEOREM ActionsStayAskedOnce == Spec => []ActionsAreAskedOnce
<1>1. Init => ActionInv
  <2>1. NoHandle \notin Handles
    BY HandlePairs DEF NoHandle, Handles, TurnIds
  <2> QED
    BY <2>1 DEF Init, NoWork, ActionInv, ActionsAreAskedOnce, SettledOnce,
                NeverConfirmedByItself
<1>2. LoopInv /\ ActionInv /\ [Next]_vars => ActionInv'
  <2> SUFFICES ASSUME LoopInv, ActionInv, [Next]_vars PROVE ActionInv'
    OBVIOUS
  <2>1. CASE FrameLoop \/ Owner \/ SuppressionPasses
    BY <2>1, OthersDisturbNothing, SlotKept
  <2>2. CASE \E h \in Handles : Dispatch(h)
    BY <2>2, DispatchKeepsActions
  <2>3. CASE UNCHANGED vars
    <3>1. OverGrows /\ Undisturbed /\ UNCHANGED <<pending, settled>>
      BY <2>3 DEF vars, OverGrows, Undisturbed
    <3> QED
      BY <3>1, SlotKept
  <2> QED
    BY <2>1, <2>2, <2>3 DEF Next
<1>3. ActionInv => ActionsAreAskedOnce
  BY DEF ActionInv
<1> QED
  BY <1>1, <1>2, <1>3, LoopInvariant, PTL DEF Spec

-----------------------------------------------------------------------------
(* Deafness.                                                               *)

\* A dispatch in the reply pipeline or in one of its tools.
Piping == {"model", "tool", "closing"}

DeafInv == DeafnessIsOwned /\ (options.allowBargeIn => suppressed # "forever")

\* A step of a dispatch that leaves the microphone muted without end leaves
\* itself, or whoever was to lift it, on its way.
LEMMA DispatchKeepsOwner ==
  ASSUME LoopInv, DeafInv, NEW h \in Handles, Dispatch(h)
  PROVE  DeafInv'
<1>1. PICK u : WorkStep(h, u)
  BY DispatchIsWorkStep DEF LoopInv
<1>2. /\ work \in [Handles -> WorkRecords(options.calls)]
      /\ options' = options
  BY <1>1 DEF LoopInv, TypeOK, WorkRecords, WorkStep, micVars
<1>3. \A k \in Handles : k # h => work'[k] = work[k]
  BY <1>1, <1>2 DEF WorkStep
<1>4. \/ suppressed' = suppressed /\ work[h].at \notin Piping
      \/ suppressed' = suppressed /\ work'[h].at \in Piping
      \/ suppressed' = Released
      \/ /\ suppressed' = IF options.allowBargeIn THEN suppressed ELSE "forever"
         /\ work'[h].at \in Piping
  <2> USE <1>2 DEF Piping
  <2>1. CASE Transcribed(h) \/ KeytermsArrive(h)
    BY <2>1 DEF Transcribed, KeytermsArrive
  <2>2. CASE ModelSpeaks(h) \/ ToolReturns(h) \/ ReplyEnds(h)
    BY <2>2 DEF ModelSpeaks, ToolReturns, ReplyEnds, Goes, WorkRecords
  <2>3. CASE CallTool(h) \/ CallRefused(h) \/ CallParked(h) \/ CallConfirm(h) \/ CallCancel(h)
    BY <2>3 DEF CallTool, CallRefused, CallParked, CallConfirm, CallCancel, Calls,
                Executes, Answered, WorkRecords
  <2>4. CASE Piece(h)
    BY <2>4 DEF Piece, WorkRecords
  <2>5. CASE Unwinds(h) \/ EmptyReply(h) \/ PlayerCloses(h)
    BY <2>5 DEF Unwinds, EmptyReply, PlayerCloses, LeavesPipeline
  <2>6. CASE Fails(h)
    BY <2>6 DEF Fails, Suspensions
  <2> QED
    BY <2>1, <2>2, <2>3, <2>4, <2>5, <2>6 DEF Dispatch
<1>5. options.allowBargeIn => suppressed' # "forever"
  BY <1>4 DEF DeafInv, Released
<1>6. ASSUME suppressed' = "forever" PROVE \E k \in Handles : work'[k].at \in Piping
  <2>1. CASE work'[h].at \in Piping
    BY <2>1
  <2>2. CASE suppressed' = suppressed /\ work[h].at \notin Piping
    <3>1. PICK k \in Handles : work[k].at \in Piping
      BY <1>6, <2>2 DEF DeafInv, DeafnessIsOwned, Piping
    <3> QED
      BY <1>3, <2>2, <3>1
  <2>3. CASE suppressed' = Released
    BY <1>5, <1>6, <2>3 DEF Released
  <2> QED
    BY <1>4, <2>1, <2>2, <2>3
<1> QED
  BY <1>2, <1>5, <1>6 DEF DeafInv, DeafnessIsOwned, Piping

\* While barge-in is off and the microphone is muted without end, some reply
\* under way has yet to unmute it, however replies overlap, fail or are told to
\* stop.
THEOREM DeafnessStaysOwned == Spec => []DeafnessIsOwned
<1>1. Init => DeafInv
  BY DEF Init, DeafInv, DeafnessIsOwned
<1>2. LoopInv /\ DeafInv /\ [Next]_vars => DeafInv'
  <2> SUFFICES ASSUME LoopInv, DeafInv, [Next]_vars PROVE DeafInv'
    OBVIOUS
  <2>1. ASSUME Undisturbed, options' = options, suppressed' \in {suppressed, "no"}
        PROVE  DeafInv'
    <3>1. ASSUME suppressed' = "forever" PROVE \E k \in Handles : work'[k].at \in Piping
      <4>1. PICK k \in Handles : work[k].at \in Piping
        BY <2>1, <3>1 DEF DeafInv, DeafnessIsOwned, Piping
      <4>2. work'[k].at = work[k].at
        BY <2>1, <4>1 DEF Undisturbed, Piping
      <4> QED
        BY <4>1, <4>2
    <3> QED
      BY <2>1, <3>1 DEF DeafInv, DeafnessIsOwned, Piping
  <2>2. CASE FrameLoop \/ Owner \/ SuppressionPasses
    <3>1. suppressed' \in {suppressed, "no"}
      BY <2>2 DEF FrameLoop, Begin, FrameAfterClose, SuppressedFrame, Frame, StalePush,
                  SpeechStart, SpeechConfirmed, SpeechDropped, SpeechEnd, Resume, Owner,
                  TypedText, OwnerInterrupt, Stop, QueueAgentSpeech,
                  ClearQueuedAgentSpeech, SuppressionPasses
    <3> QED
      BY <2>1, <2>2, <3>1, OthersDisturbNothing
  <2>3. CASE \E h \in Handles : Dispatch(h)
    BY <2>3, DispatchKeepsOwner
  <2>4. CASE UNCHANGED vars
    BY <2>1, <2>4 DEF vars, Undisturbed
  <2> QED
    BY <2>2, <2>3, <2>4 DEF Next
<1>3. DeafInv => DeafnessIsOwned
  BY DEF DeafInv
<1> QED
  BY <1>1, <1>2, <1>3, LoopInvariant, PTL DEF Spec

-----------------------------------------------------------------------------
(* The microphone.  In a session with barge-in and no interrupt command the *)
(* frame loop holds a turn only while it is captured, from an utterance the *)
(* segmenter is still assembling; a turn reopened on mere suspicion carries *)
(* its prefix, so a burst of noise lets go of it again.                     *)

\* Nothing ends a captured turn, or discards its audio, behind the frame loop.
Uncut == options.allowBargeIn /\ "turn.interrupt" \notin options.controls

HeldIsHeard ==
    /\ duplex.state = "speech_started"
    /\ loop = "frame" => segment # "quiet"
    /\ segment = "provisional" => prefix
    /\ loop = "push" => /\ ~push.stale
                        /\ push.event # "start"
                        /\ push.event = "dropped" => prefix

HeldInv ==
    /\ loop = "push" /\ ~push.stale /\ push.event = "start" => segment = "provisional"
    /\ Uncut /\ mic # NoHandle /\ duplex.state # "closed" => HeldIsHeard

\* A turn that is held and captured can be finalized.
LEMMA HeldMayEnd ==
  ASSUME LoopInv, duplex.state = "speech_started"
  PROVE  mayFinalize(duplex, mic[1])
<1>1. duplex.turn # 0
  BY TurnOf DEF LoopInv, BookInv
<1>2. mic = Current(duplex)
  BY DEF LoopInv, CaptureIsHeld
<1> QED
  BY <1>1, <1>2 DEF mayFinalize, isCurrent, Current

\* While a turn is captured a dispatch leaves the session and the frame loop
\* alone, and it never leaves a closed one.
LEMMA DispatchKeepsHeld ==
  ASSUME LoopInv, HeldInv, NEW h \in Handles, Dispatch(h)
  PROVE  HeldInv'
<1>1. PICK u : WorkStep(h, u)
  BY DispatchIsWorkStep DEF LoopInv
<1>2. UNCHANGED micVars
  BY <1>1 DEF WorkStep
<1>3. duplex' = duplex \/ Answering(duplex)
  BY <1>1, UnabortedIsCurrent DEF LoopInv, WorkStep
<1> QED
  BY <1>2, <1>3 DEF micVars, HeldInv, HeldIsHeard, Uncut, Answering

\* The frame loop keeps it.
LEMMA FrameLoopKeepsHeld ==
  ASSUME LoopInv, HeldInv, FrameLoop
  PROVE  HeldInv'
<1>1. /\ BookInv(duplex, work) /\ SessionInv(duplex) /\ duplex.state \in SessionStates
      /\ options' = options
  BY OthersDisturbNothing DEF LoopInv, BookInv, TypeOK
<1>2. CASE Begin
  <2>1. loop = "starting" /\ duplex.issued = 0 /\ duplex.state # "closed" /\ loop' = "frame"
        /\ mic' = mic
    BY <1>2 DEF LoopInv, NothingBefore, Begin
  <2>2. duplex.state # "speech_started"
    <3>1. duplex.turn = 0
      BY <1>1, <2>1 DEF SessionInv, Newest
    <3> QED
      BY <1>1, <3>1, TurnOf
  <2>3. Uncut => mic = NoHandle
    BY <2>1, <2>2 DEF HeldInv, HeldIsHeard
  <2> QED
    BY <1>1, <2>1, <2>3 DEF HeldInv, Uncut
<1>3. CASE FrameAfterClose
  BY <1>3 DEF FrameAfterClose, HeldInv
<1>4. CASE SuppressedFrame
  <2>1. ~Uncut /\ loop' = "frame"
    BY <1>4 DEF SuppressedFrame, InputSuppressed, Uncut
  <2> QED
    BY <1>1, <2>1 DEF HeldInv, Uncut
<1>5. ASSUME NEW event \in VadEvents, Frame(event) PROVE HeldInv'
  <2>1. /\ loop = "frame" /\ duplex.state # "closed" /\ mic' = mic /\ prefix' = prefix
        /\ event \in Reportable /\ segment' = Segmented(event)
        /\ push' = [event |-> event, stale |-> FALSE]
        /\ loop' = IF event = "none" THEN "frame" ELSE "push"
    BY <1>5 DEF Frame
  <2>2. event = "start" => segment' = "provisional"
    BY <2>1 DEF Segmented
  <2>3. ASSUME Uncut', mic' # NoHandle PROVE HeldIsHeard'
    <3>1. HeldIsHeard
      BY <1>1, <2>1, <2>3 DEF HeldInv, Uncut
    <3>2. duplex' = duplex
      BY <1>5, <2>1, <2>3 DEF Frame, IdleGap
    <3>3. \/ segment = "provisional" /\ prefix /\ event \in {"none", "confirmed", "dropped"}
          \/ segment = "confirmed" /\ event \in {"none", "end"}
      BY <2>1, <3>1 DEF HeldIsHeard, Reportable, LoopInv, TypeOK
    <3> QED
      BY <2>1, <3>1, <3>2, <3>3 DEF HeldIsHeard, Segmented
  <2> QED
    BY <2>1, <2>2, <2>3 DEF HeldInv
<1>6. CASE StalePush
  <2>1. /\ loop = "push" /\ push.stale /\ loop' = "frame" /\ UNCHANGED <<duplex, mic>>
    BY <1>6 DEF StalePush
  <2> QED
    BY <1>1, <2>1 DEF HeldInv, HeldIsHeard, Uncut
<1>7. CASE SpeechStart
  <2>1. /\ loop = "push" /\ ~push.stale /\ push.event = "start" /\ loop' = "frame"
        /\ segment' = segment /\ segment = "provisional"
    BY <1>7 DEF SpeechStart, Resume, HeldInv
  <2>2. CASE UNCHANGED <<duplex, mic>>
    BY <1>1, <2>1, <2>2 DEF HeldInv, HeldIsHeard, Uncut
  <2>3. CASE /\ mayReopen(duplex, speculative)
             /\ duplex.revs[speculative] < MaxRevision
             /\ duplex' = reopen(duplex, speculative)
             /\ prefix' = TRUE
    <3>1. duplex'.state = "speech_started"
      BY <1>1, <2>3, ReopenInv
    <3> QED
      BY <2>1, <2>3, <3>1 DEF HeldInv, HeldIsHeard
  <2> QED
    BY <1>7, <2>2, <2>3 DEF SpeechStart
<1>8. CASE SpeechConfirmed
  <2>1. /\ loop = "push" /\ segment' = segment /\ segment = "confirmed"
        /\ loop' \in {"frame", "crashed"}
    BY <1>8 DEF SpeechConfirmed, Resume, LoopInv, ConfirmedIsHeld
  <2>2. CASE UNCHANGED <<duplex, mic>>
    BY <1>1, <2>1, <2>2 DEF HeldInv, HeldIsHeard, Uncut
  <2>3. CASE mic = NoHandle /\ duplex' = startUserSpeech(duplex)
    <3>1. duplex.issued < MaxTurns
      BY <1>8, <2>3 DEF SpeechConfirmed, Resume, LoopInv, ConfirmedIsHeld
    <3>2. duplex'.state = "speech_started"
      BY <1>1, <2>3, <3>1, StartUserSpeechInv
    <3> QED
      BY <2>1, <3>2 DEF HeldInv, HeldIsHeard
  <2> QED
    BY <1>8, <2>2, <2>3 DEF SpeechConfirmed
<1>9. CASE SpeechDropped
  <2>1. /\ loop = "push" /\ push.event = "dropped" /\ loop' = "frame"
    BY <1>9 DEF SpeechDropped, Resume
  <2>2. CASE mic' = NoHandle
    BY <2>1, <2>2 DEF HeldInv
  <2>3. CASE ~prefix /\ UNCHANGED <<duplex, mic>>
    BY <1>1, <2>1, <2>3 DEF HeldInv, HeldIsHeard, Uncut
  <2>4. CASE mic = NoHandle /\ mic' = mic
    BY <2>1, <2>4 DEF HeldInv
  <2> QED
    BY <1>9, <2>2, <2>3, <2>4 DEF SpeechDropped
<1>10. CASE SpeechEnd
  <2>1. /\ loop = "push" /\ loop' = "frame"
    BY <1>10 DEF SpeechEnd, Resume
  <2>2. CASE mic' = NoHandle
    BY <2>1, <2>2 DEF HeldInv
  <2>3. CASE ~mayFinalize(duplex, mic[1]) /\ UNCHANGED <<duplex, mic>>
    BY <1>1, <2>1, <2>3, HeldMayEnd DEF HeldInv, HeldIsHeard, Uncut
  <2> QED
    BY <1>10, <2>2, <2>3 DEF SpeechEnd
<1> QED
  BY <1>2, <1>3, <1>4, <1>5, <1>6, <1>7, <1>8, <1>9, <1>10 DEF FrameLoop

\* So does the owner.
LEMMA OwnerKeepsHeld ==
  ASSUME LoopInv, HeldInv, Owner \/ SuppressionPasses
  PROVE  HeldInv'
<1>1. SessionInv(duplex) /\ options' = options
  BY OthersDisturbNothing DEF LoopInv, BookInv
<1>2. CASE TypedText
  <2>1. mic' = NoHandle /\ (loop' = "push" => push'.stale)
    BY <1>2 DEF TypedText, LoopInv, TypeOK
  <2> QED
    BY <2>1 DEF HeldInv
<1>3. CASE OwnerInterrupt
  BY <1>1, <1>3 DEF OwnerInterrupt, micVars, HeldInv, Uncut
<1>4. CASE Stop
  <2>1. duplex'.state = "closed"
    BY <1>1, <1>4, CloseInv DEF Stop
  <2> QED
    BY <1>4, <2>1 DEF Stop, micVars, HeldInv
<1>5. CASE QueueAgentSpeech \/ ClearQueuedAgentSpeech \/ SuppressionPasses
  BY <1>5 DEF QueueAgentSpeech, ClearQueuedAgentSpeech, SuppressionPasses, micVars,
              HeldInv, HeldIsHeard, Uncut
<1> QED
  BY <1>2, <1>3, <1>4, <1>5 DEF Owner

\* Between utterances the frame loop holds no turn, in every session with
\* barge-in whose owner never interrupts by command.
THEOREM QuietMicStaysFree == Spec => [](Uncut => QuietMicHoldsNoTurn)
<1>1. Init => HeldInv
  BY DEF Init, HeldInv
<1>2. LoopInv /\ HeldInv /\ [Next]_vars => HeldInv'
  <2>1. ASSUME HeldInv, UNCHANGED vars PROVE HeldInv'
    BY <2>1 DEF vars, HeldInv, HeldIsHeard, Uncut
  <2> QED
    BY <2>1, DispatchKeepsHeld, FrameLoopKeepsHeld, OwnerKeepsHeld DEF Next
<1>3. HeldInv => (Uncut => QuietMicHoldsNoTurn)
  BY DEF HeldInv, HeldIsHeard, QuietMicHoldsNoTurn
<1> QED
  BY <1>1, <1>2, <1>3, LoopInvariant, PTL DEF Spec

-----------------------------------------------------------------------------
(* The loop implements TurnLifecycle: the kernel calls one step chains       *)
(* amount to one of its steps.                                               *)

\* So with the frame loop, the owner and time.
LEMMA OthersRefine ==
  ASSUME LoopInv, LoopInv', FrameLoop \/ Owner \/ SuppressionPasses
  PROVE  LifecycleStep(duplex, duplex')
<1>1. TypeOK /\ BookInv(duplex, work) /\ SessionInv(duplex) /\ SessionInv(duplex')
  BY DEF LoopInv, BookInv
<1>2. ASSUME UNCHANGED duplex PROVE LifecycleStep(duplex, duplex')
  BY <1>2 DEF LifecycleStep, SameLifecycle
<1>3. ASSUME duplex.issued < MaxTurns, mayStartIdleTurn(duplex),
             duplex' = startThinking(startAgentTurn(duplex), duplex.issued + 1)
      PROVE  LifecycleStep(duplex, duplex')
  BY <1>1, <1>3, ThinkingTurn, OpeningIsStep
<1>4. CASE Begin
  <2>1. CASE UNCHANGED duplex
    BY <1>2, <2>1
  <2>2. CASE MaxTurns > 0 /\ duplex' = startThinking(startAgentTurn(duplex), 1)
    <3>1. duplex.issued = 0 /\ duplex.state # "closed"
      BY <1>4 DEF Begin, LoopInv, NothingBefore
    <3>2. duplex.turn = 0
      BY <1>1, <3>1 DEF SessionInv, Newest
    <3>3. mayStartIdleTurn(duplex)
      BY <1>1, <3>1, <3>2
         DEF mayStartIdleTurn, BookInv, SessionInv, Records, SessionStates, Matches, TurnStates
    <3>4. duplex.issued < MaxTurns /\ duplex.issued + 1 = 1
      BY <2>2, <3>1, KernelAssumption
    <3> QED
      BY <1>3, <2>2, <3>3, <3>4
  <2> QED
    BY <1>4, <2>1, <2>2 DEF Begin
<1>5. ASSUME NEW event, Frame(event) PROVE LifecycleStep(duplex, duplex')
  BY <1>2, <1>3, <1>5 DEF Frame
<1>6. CASE FrameAfterClose \/ SuppressedFrame \/ StalePush
  BY <1>2, <1>6 DEF FrameAfterClose, SuppressedFrame, StalePush
<1>7. CASE SpeechStart
  BY <1>1, <1>2, <1>7, ReopeningIsStep DEF SpeechStart
<1>8. CASE SpeechConfirmed
  <2>1. CASE mic = NoHandle /\ duplex' = startUserSpeech(duplex)
    <3>1. duplex.issued < MaxTurns
      BY <1>8, <2>1 DEF LoopInv, ConfirmedIsHeld, SpeechConfirmed, Resume
    <3> QED
      BY <1>1, <2>1, <3>1, StartUserSpeechInv, OpeningIsStep
  <2> QED
    BY <1>2, <1>8, <2>1 DEF SpeechConfirmed
<1>9. CASE SpeechDropped \/ SpeechEnd
  <2>1. CASE mayFinalize(duplex, mic[1]) /\ (SoftEnded(mic) \/ HardEnded(mic))
    <3>1. SameBook(duplex, duplex') /\ duplex'.state = "thinking"
      BY <1>1, <2>1, ThinkingAfterSpeech DEF SoftEnded, HardEnded
    <3>2. duplex.state = "speech_started" /\ duplex.turn # 0
      BY <2>1 DEF mayFinalize, isCurrent
    <3> QED
      BY <1>1, <3>1, <3>2, MovingIsStep
  <2> QED
    BY <1>2, <1>9, <2>1 DEF SpeechDropped, SpeechEnd
<1>10. CASE OwnerInterrupt \/ Stop
  BY <1>1, <1>10, InterruptInv, CloseInv, EndingIsStep DEF OwnerInterrupt, Stop
<1>11. CASE QueueAgentSpeech \/ ClearQueuedAgentSpeech \/ SuppressionPasses
  BY <1>2, <1>11 DEF QueueAgentSpeech, ClearQueuedAgentSpeech, SuppressionPasses
<1>12. CASE TypedText
  <2> DEFINE d == IF duplex.state = "listening" THEN duplex
                  ELSE interrupt(duplex, "barge_in")
             t == duplex.issued + 1
  <2>1. /\ duplex.state \notin {"idle", "closed"} /\ duplex.issued < MaxTurns
        /\ duplex' = startThinking(startUserText(d), t)
    BY <1>12 DEF TypedText
  <2>2. /\ SessionInv(d) /\ mayStartIdleTurn(d)
        /\ d.issued = duplex.issued /\ d.revs = duplex.revs
    <3>1. CASE duplex.state = "listening"
      BY <1>1, <3>1 DEF SessionInv, Matches, TurnStates, mayStartIdleTurn
    <3>2. CASE duplex.state # "listening"
      <4>1. duplex.turn # 0
        BY <1>1, <2>1, <3>2 DEF BookInv, SessionInv, Records, SessionStates, Matches, TurnStates
      <4> QED
        BY <1>1, <3>2, <4>1, InterruptInv DEF mayStartIdleTurn
    <3> QED
      BY <3>1, <3>2
  <2> HIDE DEF d
  <2>3. /\ duplex'.state = "thinking" /\ duplex'.turn = t /\ duplex'.issued = t
        /\ duplex'.revs = duplex.revs
    BY <2>1, <2>2, ThinkingTurn
  <2> QED
    BY <1>1, <2>3, OpeningIsStep
<1> QED
  BY <1>4, <1>5, <1>6, <1>7, <1>8, <1>9, <1>10, <1>11, <1>12 DEF FrameLoop, Owner

\* And with a dispatch.
LEMMA DispatchRefines ==
  ASSUME LoopInv, LoopInv', NEW h \in Handles, Dispatch(h)
  PROVE  LifecycleStep(duplex, duplex')
<1>1. SessionInv(duplex) /\ SessionInv(duplex')
  BY DEF LoopInv, BookInv
<1>2. PICK u : WorkStep(h, u)
  BY DispatchIsWorkStep DEF LoopInv
<1>3. CASE duplex' = duplex
  BY <1>3 DEF LifecycleStep, SameLifecycle
<1>4. CASE duplex' = interrupt(duplex, "cancel")
  BY <1>1, <1>4, InterruptInv, EndingIsStep
<1>5. CASE duplex' = complete(duplex, h[1]) /\ mayComplete(duplex, h[1])
  BY <1>1, <1>5, CompleteInv, EndingIsStep
<1>6. CASE duplex' = startSpeaking(duplex, h[1]) /\ maySpeak(duplex, h[1])
  <2>1. /\ SameBook(duplex, duplex') /\ duplex.turn # 0
        /\ duplex.state = "thinking" /\ duplex'.state = "speaking"
    BY <1>1, <1>6, StartSpeakingInv DEF maySpeak, isCurrent
  <2> QED
    BY <1>1, <2>1, MovingIsStep
<1> QED
  BY <1>2, <1>3, <1>4, <1>5, <1>6 DEF WorkStep, complete, startSpeaking

\* However frames, dispatches and the owner interleave, the turns of the loop
\* live as TurnLifecycle says: one at a time, a sounding reply never back in
\* capture, one live handle.
THEOREM LoopKeepsLifecycle == Spec => ImplementsLifecycle
<1>1. Init => Lifecycle!Init
  <2> SUFFICES ASSUME Init PROVE Lifecycle!Init
    OBVIOUS
  <2>1. SessionInv(duplex) /\ duplex.turn = 0 /\ duplex.issued = 0
    BY NewSessionInv, StartInv DEF Init, NewSession, start
  <2>2. \A t \in TurnIds : phaseOf(duplex)[t] = "new"
    BY <2>1, PhaseIs, TurnIdsNat
  <2>3. phaseOf(duplex) = [t \in TurnIds |-> "new"]
    BY <2>2 DEF phaseOf
  <2>4. LiveHandles(duplex) = {}
    BY <2>1, LiveIs
  <2> QED
    BY <2>3, <2>4 DEF Lifecycle!Init
<1>2. LoopInv /\ LoopInv' /\ [Next]_vars => LifecycleStep(duplex, duplex')
  BY OthersRefine, DispatchRefines DEF Next, vars, LifecycleStep, SameLifecycle
<1>3. LifecycleStep(duplex, duplex') => [Lifecycle!Next]_(Lifecycle!vars)
  BY DEF LifecycleStep, SameLifecycle, EndsAt, OpensAt, SupersedesAt, AnswersAt, SpeaksAt,
         ReopensAt, OpenPhase, Lifecycle!vars, Lifecycle!Next, Lifecycle!End,
         Lifecycle!Open, Lifecycle!Supersede, Lifecycle!Answer, Lifecycle!Speak,
         Lifecycle!Reopen, Lifecycle!IsOpen, Lifecycle!OpenPhases
<1> QED
  BY <1>1, <1>2, <1>3, LoopInvariant, PTL DEF Spec, ImplementsLifecycle, Lifecycle!Spec
=============================================================================
