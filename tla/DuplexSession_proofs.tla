------------------------- MODULE DuplexSession_proofs -------------------------
(***************************************************************************)
(* A session's three sides, for any number of turns, revisions, players    *)
(* and frames.                                                             *)
(*                                                                         *)
(* The kernel: its inductive invariant is SessionInv of                    *)
(* DuplexKernel_proofs; each action is one kernel method, and so one of    *)
(* the lemmas there.  The core: a stop leaves the kernel closed and the    *)
(* timer off, and no step that was under way takes that back.  The reply   *)
(* player: a player is whole when what it holds was written and fits, and  *)
(* every piece of a step that the model composes moves each player from    *)
(* whole to whole, an aborted one without a frame sent.                    *)
(***************************************************************************)
EXTENDS DuplexSession, SessionCore, MediaPlayer, DuplexKernel_proofs

\* Every action keeps the session invariant, and the count of endings right
\* unless an observer reenters.
LEMMA NextInv ==
  ASSUME SessionInv(duplex), [Next]_duplex
  PROVE  /\ SessionInv(duplex)'
         /\ ~ObserverReenters /\ EndsOnce(duplex) => EndsOnce(duplex)'
<1> DEFINE Good(d) == /\ SessionInv(d)
                      /\ ~ObserverReenters /\ EndsOnce(duplex) => EndsOnce(d)
<1> SUFFICES ASSUME Next PROVE Good(duplex')
  OBVIOUS
<1>1. CASE Start
  BY <1>1, StartInv DEF Start
<1>2. CASE StartUserSpeech
  BY <1>2, StartUserSpeechInv DEF StartUserSpeech, CanIssue
<1>3. CASE StartUserText
  BY <1>3, StartIdleTurnInv DEF StartUserText, CanIssue
<1>4. CASE StartAgentTurn
  BY <1>4, StartIdleTurnInv DEF StartAgentTurn, CanIssue
<1>5. ASSUME NEW t \in Issued, Finalize(t) PROVE Good(duplex')
  BY <1>5, FinalizeInv DEF Finalize
<1>6. ASSUME NEW t \in Issued, SoftFinalize(t) PROVE Good(duplex')
  BY <1>6, SoftFinalizeInv DEF SoftFinalize
<1>7. ASSUME NEW t \in Issued, Reopen(t) PROVE Good(duplex')
  BY <1>7, ReopenInv DEF Reopen
<1>8. ASSUME NEW t \in Issued, StartThinking(t) PROVE Good(duplex')
  BY <1>8, StartThinkingInv DEF StartThinking
<1>9. ASSUME NEW t \in Issued, StartSpeaking(t) PROVE Good(duplex')
  BY <1>9, StartSpeakingInv DEF StartSpeaking
<1>10. ASSUME NEW t \in Issued, Mark(t) PROVE Good(duplex')
  BY <1>10, MarkInv DEF Mark, Milestones
<1>11. ASSUME NEW t \in Issued, Complete(t) PROVE Good(duplex')
  BY <1>11, CompleteInv DEF Complete
<1>12. CASE Interrupt
  BY <1>12, InterruptInv DEF Interrupt
<1>13. CASE Close
  BY <1>13, CloseInv DEF Close
<1> QED
  BY <1>1, <1>2, <1>3, <1>4, <1>5, <1>6, <1>7, <1>8, <1>9, <1>10, <1>11,
     <1>12, <1>13 DEF Next

\* The inductive invariant of the kernel holds of every session.
THEOREM KernelInvariant == Spec => []SessionInv(duplex)
<1>1. Init => SessionInv(duplex)
  BY NewSessionInv DEF Init
<1>2. SessionInv(duplex) /\ [Next]_duplex => SessionInv(duplex)'
  BY NextInv
<1> QED
  BY <1>1, <1>2, PTL DEF Spec

\* The session record keeps its type.
THEOREM TypeCorrect == Spec => []TypeOK
<1>1. SessionInv(duplex) => TypeOK
  BY Fields DEF SessionInv, TypeOK
<1> QED
  BY <1>1, KernelInvariant, PTL

\* No sequence of calls strands a turn outside the turn states.
THEOREM NoTurnIsStranded == Spec => []TurnMatchesState
<1>1. SessionInv(duplex) => TurnMatchesState
  BY DEF SessionInv, Matches, TurnMatchesState
<1> QED
  BY <1>1, KernelInvariant, PTL

\* Of all the work handles ever given out, the active turn's last revision is
\* the only one whose holder was not told to stop.
THEOREM OneHandleLives == Spec => []OnlyCurrentHandleLives
<1>1. SessionInv(duplex) => OnlyCurrentHandleLives
  BY LiveIs DEF OnlyCurrentHandleLives
<1> QED
  BY <1>1, KernelInvariant, PTL

\* A reopened turn's timing profile starts again.
THEOREM ProfileIsPresent == Spec => []ProfileFollowsState
<1>1. SessionInv(duplex) => ProfileFollowsState
  BY DEF SessionInv, Profile, ProfileFollowsState
<1> QED
  BY <1>1, KernelInvariant, PTL

\* A turn that has started to speak is never reopenable again.
THEOREM SpeakingIsFinal == Spec => []SpeakingCommits
<1>1. SessionInv(duplex) => SpeakingCommits
  BY DEF SessionInv, Commits, SpeakingCommits
<1> QED
  BY <1>1, KernelInvariant, PTL

\* As long as no observer interrupts from inside an interruption, every turn
\* reports one timing and one ending, whatever ends it.
THEOREM TurnsEndOnce ==
  ASSUME ~ObserverReenters
  PROVE  Spec => []EachTurnEndsOnce
<1> DEFINE IInv == SessionInv(duplex) /\ EndsOnce(duplex)
<1>1. Init => IInv
  BY NewSessionInv DEF Init
<1>2. IInv /\ [Next]_duplex => IInv'
  BY NextInv
<1>3. IInv => EachTurnEndsOnce
  BY DEF EndsOnce, EachTurnEndsOnce
<1> QED
  BY <1>1, <1>2, <1>3, PTL DEF Spec
-----------------------------------------------------------------------------
(* The kernel implements TurnLifecycle: step by step.                      *)

\* Every kernel method is one step of TurnLifecycle, or none.
LEMMA StepRefines ==
  ASSUME SessionInv(duplex), SessionInv(duplex)', [Next]_duplex
  PROVE  LifecycleStep(duplex, duplex')
<1>1. CASE UNCHANGED duplex
  BY <1>1 DEF LifecycleStep, SameLifecycle
<1>2. CASE Start
  <2>1. duplex'.turn = 0 /\ duplex'.issued = duplex.issued
    BY <1>2 DEF Start, start, SessionInv, Records, Matches, TurnStates
  <2> QED
    BY <2>1, EndingIsStep
<1>3. CASE StartUserSpeech
  BY <1>3, OpeningIsStep, StartUserSpeechInv DEF StartUserSpeech, CanIssue
<1>4. CASE StartUserText
  BY <1>4, OpeningIsStep, StartIdleTurnInv DEF StartUserText, CanIssue
<1>5. CASE StartAgentTurn
  BY <1>5, OpeningIsStep, StartIdleTurnInv DEF StartAgentTurn, CanIssue
<1>6. ASSUME NEW t \in Issued, Finalize(t) PROVE LifecycleStep(duplex, duplex')
  BY <1>6, MovingIsStep, FinalizeInv DEF Finalize, mayFinalize, isCurrent
<1>7. ASSUME NEW t \in Issued, SoftFinalize(t) PROVE LifecycleStep(duplex, duplex')
  BY <1>7, MovingIsStep, SoftFinalizeInv DEF SoftFinalize, mayFinalize, isCurrent
<1>8. ASSUME NEW t \in Issued, Reopen(t) PROVE LifecycleStep(duplex, duplex')
  BY <1>8, ReopeningIsStep DEF Reopen
<1>9. ASSUME NEW t \in Issued, StartThinking(t) PROVE LifecycleStep(duplex, duplex')
  BY <1>9, MovingIsStep, StartThinkingInv DEF StartThinking, mayThink, isCurrent
<1>10. ASSUME NEW t \in Issued, StartSpeaking(t) PROVE LifecycleStep(duplex, duplex')
  BY <1>10, MovingIsStep, StartSpeakingInv DEF StartSpeaking, maySpeak, isCurrent
<1>11. ASSUME NEW t \in Issued, Mark(t) PROVE LifecycleStep(duplex, duplex')
  <2>1. SameBook(duplex, duplex') /\ duplex'.state = duplex.state
    BY <1>11, MarkInv DEF Mark, Milestones
  <2>2. CASE duplex.turn # 0
    BY <2>1, <2>2, MovingIsStep
  <2>3. CASE duplex.turn = 0
    BY <2>1, <2>3, EndingIsStep DEF SameBook
  <2> QED
    BY <2>2, <2>3
<1>12. ASSUME NEW t \in Issued, Complete(t) PROVE LifecycleStep(duplex, duplex')
  BY <1>12, EndingIsStep, CompleteInv DEF Complete
<1>13. CASE Interrupt
  BY <1>13, EndingIsStep, InterruptInv DEF Interrupt
<1>14. CASE Close
  BY <1>14, EndingIsStep, CloseInv DEF Close
<1> QED
  BY <1>1, <1>2, <1>3, <1>4, <1>5, <1>6, <1>7, <1>8, <1>9, <1>10, <1>11, <1>12, <1>13,
     <1>14 DEF Next

\* A step of TurnLifecycle between the sessions is one of its actions.
LEMMA StepIsLifecycle ==
  ASSUME LifecycleStep(duplex, duplex')
  PROVE  [Lifecycle!Next]_(Lifecycle!vars)
  BY DEF LifecycleStep, SameLifecycle, EndsAt, OpensAt, SupersedesAt, AnswersAt, SpeaksAt,
         ReopensAt, OpenPhase, Lifecycle!vars, Lifecycle!Next, Lifecycle!End,
         Lifecycle!Open, Lifecycle!Supersede, Lifecycle!Answer, Lifecycle!Speak,
         Lifecycle!Reopen, Lifecycle!IsOpen, Lifecycle!OpenPhases

\* Whatever its callers do, and for any number of turns and revisions, the
\* kernel keeps the promise of TurnLifecycle.
THEOREM KernelKeepsLifecycle == Spec => ImplementsLifecycle
<1>1. Init => Lifecycle!Init
  <2> SUFFICES ASSUME Init PROVE Lifecycle!Init
    OBVIOUS
  <2>1. SessionInv(duplex) /\ duplex.turn = 0 /\ duplex.issued = 0
    BY NewSessionInv DEF Init, NewSession
  <2>2. \A t \in TurnIds : phaseOf(duplex)[t] = "new"
    BY <2>1, PhaseIs, TurnIdsNat
  <2>3. phaseOf(duplex) = [t \in TurnIds |-> "new"]
    BY <2>2 DEF phaseOf
  <2>4. LiveHandles(duplex) = {}
    BY <2>1, LiveIs
  <2> QED
    BY <2>3, <2>4 DEF Lifecycle!Init
<1>2. SessionInv(duplex) /\ SessionInv(duplex)' /\ [Next]_duplex
        => [Lifecycle!Next]_(Lifecycle!vars)
  BY StepRefines, StepIsLifecycle
<1> QED
  BY <1>1, <1>2, KernelInvariant, PTL DEF Spec, ImplementsLifecycle, Lifecycle!Spec

-----------------------------------------------------------------------------
(* The life of a session.                                                  *)

\* What stop() leaves.
CoreInv == /\ lifetime \in BOOLEAN
           /\ stopped => kernel = "closed" /\ ~lifetime

\* What a session that has stopped may still do.
Stays == stopped => /\ stopped' /\ kernel' = kernel /\ ~lifetime'
                    /\ loop = "none" => loop' = "none"

\* stop() closes the kernel and the timer for good, on any path that reaches it.
LEMMA StopsAre ==
  ASSUME CoreInv, NEW k, Stops(k), stopped => k = kernel
  PROVE  stopped' /\ kernel' = "closed" /\ ~lifetime' /\ (stopped => kernel' = kernel)
BY DEF Stops, CoreInv

\* A step keeps what stop() left, and revives no stopped session.
LEMMA CoreKeeps ==
  ASSUME CoreInv, [CoreNext]_coreVars
  PROVE  CoreInv' /\ Stays
<1> DEFINE Still == UNCHANGED <<stopped, kernel, lifetime>>
           NoLoop == loop = "none" => loop' = "none"
           Halts == stopped' /\ kernel' = "closed" /\ lifetime' = FALSE
<1>1. Still /\ NoLoop => CoreInv' /\ Stays
      BY DEF CoreInv, Stays
<1>2. Halts /\ NoLoop => CoreInv' /\ Stays
      BY DEF CoreInv, Stays
<1>3. ASSUME NEW k, Stops(k), stopped => k = kernel PROVE Halts
      BY <1>3, StopsAre DEF Stops
<1>4. Goes(kernel) => Still
      BY DEF Goes
<1>5. CASE VadReady
  <2>1. NoLoop
        BY <1>5 DEF VadReady
  <2>2. CASE stopped
        BY <1>1, <1>5, <2>1, <2>2 DEF VadReady
  <2>3. CASE ~stopped
    <3>1. (lifetime' = TRUE /\ UNCHANGED stopped) \/ Stops("open")
          BY <1>5, <2>3 DEF VadReady
    <3>2. CASE lifetime' = TRUE /\ UNCHANGED stopped
          BY <2>3, <3>2 DEF CoreInv, Stays
    <3>3. CASE Stops("open")
          BY <1>2, <1>3, <2>1, <2>3, <3>3
    <3> QED BY <3>1, <3>2, <3>3
  <2> QED BY <2>2, <2>3
<1>6. CASE ToolsReady
  <2>1. CASE stopped
        BY <1>1, <1>6, <2>1 DEF ToolsReady
  <2>2. CASE ~stopped
    <3>1. Still \/ Stops(kernel)
          BY <1>6, <2>2 DEF ToolsReady
    <3>2. CASE Still
          BY <2>2, <3>2 DEF CoreInv, Stays
    <3>3. CASE Stops(kernel)
      <4>1. Halts
            BY <1>3, <3>3
      <4> QED BY <2>2, <4>1 DEF CoreInv, Stays
    <3> QED BY <3>1, <3>2, <3>3
  <2> QED BY <2>1, <2>2
<1>7. CASE Stop
      BY <1>2, <1>3, <1>7 DEF Stop
<1>8. CASE KeytermsArrive \/ ReplyEnds
      BY <1>1, <1>2, <1>3, <1>4, <1>8 DEF KeytermsArrive, ReplyEnds
<1>9. CASE UtteranceEnds \/ Recognized \/ EndCall \/ Done \/ \E c \in Controllers : RunEnds(c) \/ Drained(c)
      BY <1>1, <1>9 DEF UtteranceEnds, Recognized, EndCall, Done, RunEnds, Drained
<1>10. CASE LoopEnds
      BY <1>2, <1>3, <1>10 DEF LoopEnds
<1>11. CASE UNCHANGED coreVars
      BY <1>1, <1>11 DEF coreVars
<1> QED BY <1>5, <1>6, <1>7, <1>8, <1>9, <1>10, <1>11 DEF CoreNext

\* A session that has stopped is closed, without its timer, and stays so.
THEOREM CoreInvariant == CoreSpec => []CoreInv
<1>1. CoreInit => CoreInv
      BY DEF CoreInit, CoreInv
<1>2. CoreInv /\ [CoreNext]_coreVars => CoreInv'
      BY CoreKeeps
<1> QED BY <1>1, <1>2, PTL DEF CoreSpec

\* Nothing that was under way when a session stopped revives it: its start's awaits, its
\* turn's, or the end of a run, for any number of runs and utterances.
THEOREM StoppedStaysStopped == CoreSpec => NotRevived
<1> DEFINE Kept == stopped => kernel' = kernel /\ ~lifetime' /\ (loop = "none" => loop' = "none")
<1>1. CoreInv /\ [CoreNext]_coreVars => [Kept]_coreVars
      BY CoreKeeps DEF Stays
<1> QED BY <1>1, CoreInvariant, PTL DEF CoreSpec, NotRevived

-----------------------------------------------------------------------------
(* The reply audio.                                                        *)

Players == [made : BOOLEAN, queue : Nat, written : Nat, sent : Nat,
            writer : {"idle", "waiting", "woken", "threw", "returned"},
            pump : {"off", "paced", "pressured", "ending"},
            told : {"none", "drained", "detached", "timeout", "cancelled"},
            closer : {"no", "pumping", "pressured", "ack", "returned", "threw"},
            aborted : BOOLEAN, failed : BOOLEAN]

\* What a player holds: no more than it may, nothing that was not written, a frame in hand
\* wherever the pump waits to send one, and nothing once it is aborted.
Whole(p) == /\ p \in Players
            /\ p.queue <= QueueLimit /\ p.sent + p.queue <= p.written
            /\ p.pump = "paced" /\ ~p.aborted => p.queue > 0
            /\ p.aborted => p.queue = 0

\* What becomes of a player in one step.
Moves(p, q) == Whole(q) /\ (p.aborted => q.aborted /\ q.sent = p.sent)

\* What is neither sent, written nor dropped stays what it is.
LEMMA SameFrames ==
  ASSUME NEW p, Whole(p), NEW q \in Players, q.queue = p.queue, q.sent = p.sent, q.written = p.written,
         q.aborted = p.aborted, q.pump = "paced" /\ ~q.aborted => p.queue > 0
  PROVE  Moves(p, q)
BY DEF Moves, Whole

\* Two moves of a player in one step make a move.
LEMMA Chained ==
  ASSUME NEW p, NEW q, NEW r, Moves(p, q), Moves(q, r)
  PROVE  Moves(p, r)
BY DEF Moves

\* The head of the pump's loop sends nothing.
LEMMA TopMoves ==
  ASSUME NEW p, Whole(p), NEW b
  PROVE  Moves(p, Top(p, b))
<1> DEFINE at == IF p.aborted \/ p.queue = 0 THEN "ending" ELSE IF b # NoSink THEN "pressured" ELSE "paced"
           q == [p EXCEPT !.told = "none", !.pump = at]
<1>1. p \in Players /\ at \in {"off", "paced", "pressured", "ending"}
      BY DEF Whole
<1>2. at = "paced" => p.queue > 0
      BY <1>1 DEF Players
<1>3. Top(p, b) = q
      BY DEF Top
<1> HIDE DEF at
<1>4. q \in Players /\ q.queue = p.queue /\ q.sent = p.sent /\ q.written = p.written /\ q.aborted = p.aborted
      /\ q.pump = at
      BY <1>1 DEF Players
<1> HIDE DEF q
<1> QED BY <1>2, <1>3, <1>4, SameFrames

\* So a pump that is started moves its player.
LEMMA EnsureMoves ==
  ASSUME NEW p, Whole(p), NEW b
  PROVE  Moves(p, ensurePump(p, b))
<1>1. Moves(p, p)
      BY DEF Moves
<1> QED BY <1>1, TopMoves DEF ensurePump

\* A writer that is woken changes neither the pump nor the queue.
LEMMA WakeMoves ==
  ASSUME NEW p, Whole(p)
  PROVE  /\ Moves(p, wakeCapacity(p))
         /\ wakeCapacity(p).pump = p.pump /\ wakeCapacity(p).queue = p.queue
         /\ wakeCapacity(p).aborted = p.aborted
<1> DEFINE q == [p EXCEPT !.writer = "woken"]
<1>1. p \in Players
      BY DEF Whole
<1>2. q \in Players /\ q.queue = p.queue /\ q.sent = p.sent /\ q.written = p.written /\ q.aborted = p.aborted
      /\ q.pump = p.pump
      BY <1>1 DEF Players
<1>3. Moves(p, p)
      BY DEF Moves
<1>4. wakeCapacity(p) \in {p, q}
      BY DEF wakeCapacity
<1> HIDE DEF q
<1>5. Moves(p, q)
      BY <1>2, SameFrames DEF Whole
<1> QED BY <1>2, <1>3, <1>4, <1>5

\* abort() empties the queue and holds the player to silence.
LEMMA AbortsMoves ==
  ASSUME NEW p, Whole(p)
  PROVE  Moves(p, aborts(p))
<1> DEFINE w == wakeCapacity(p)
           at == IF w.closer = "ack" THEN "returned" ELSE w.closer
<1>1. Moves(p, w) /\ Whole(w) /\ w \in Players
      BY WakeMoves DEF Moves, Whole
<1> HIDE DEF w
<1> DEFINE q == [w EXCEPT !.aborted = TRUE, !.queue = 0, !.closer = at]
<1>2. at \in {"no", "pumping", "pressured", "ack", "returned", "threw"}
      BY <1>1 DEF Players
<1>3. aborts(p) = q
      BY DEF aborts, w
<1> HIDE DEF at
<1>4. q \in Players /\ q.queue = 0 /\ q.sent = w.sent /\ q.written = w.written /\ q.aborted
      BY <1>1, <1>2 DEF Players
<1> HIDE DEF q
<1>5. Moves(w, q)
      BY <1>1, <1>4, MediaAssumption DEF Moves, Whole, Players
<1> QED BY <1>1, <1>3, <1>5, Chained

\* A writer that looks for room writes one frame where there is room for it.
LEMMA RoomMoves ==
  ASSUME NEW p, Whole(p), NEW b
  PROVE  Moves(p, looksForRoom(p, b))
<1>1. p \in Players
      BY DEF Whole
<1>2. \A x \in {"waiting", "threw", "returned"} :
        LET q == [p EXCEPT !.writer = x] IN Moves(p, q) /\ Whole(q)
  <2> TAKE x \in {"waiting", "threw", "returned"}
  <2> DEFINE q == [p EXCEPT !.writer = x]
  <2>1. q \in Players /\ q.queue = p.queue /\ q.sent = p.sent /\ q.written = p.written /\ q.aborted = p.aborted
        /\ q.pump = p.pump
        BY <1>1 DEF Players
  <2> HIDE DEF q
  <2> SUFFICES Moves(p, q)
      BY DEF q, Moves
  <2> QED BY <2>1, SameFrames DEF Whole
<1>3. CASE p.failed
      BY <1>2, <1>3 DEF looksForRoom
<1>4. CASE ~p.failed /\ p.aborted
      BY <1>2, <1>4 DEF looksForRoom
<1>5. CASE ~p.failed /\ ~p.aborted /\ p.queue >= QueueLimit
  <2> DEFINE q == [p EXCEPT !.writer = "waiting"]
  <2>1. looksForRoom(p, b) = ensurePump(q, b)
        BY <1>5 DEF looksForRoom
  <2>2. Moves(p, q) /\ Whole(q)
        BY <1>2
  <2> HIDE DEF q
  <2> QED BY <2>1, <2>2, EnsureMoves, Chained
<1>6. CASE ~p.failed /\ ~p.aborted /\ ~(p.queue >= QueueLimit)
  <2> DEFINE q == [p EXCEPT !.queue = @ + 1, !.written = @ + 1, !.writer = "idle"]
  <2>1. looksForRoom(p, b) = ensurePump(q, b)
        BY <1>6 DEF looksForRoom, enqueues
  <2>2. q \in Players /\ q.queue = p.queue + 1 /\ q.sent = p.sent /\ q.written = p.written + 1
        /\ q.aborted = p.aborted /\ q.pump = p.pump
    <3> DEFINE m == p.queue + 1
               n == p.written + 1
    <3>1. m \in Nat /\ n \in Nat
          BY <1>1 DEF Players
    <3>2. q = [p EXCEPT !.queue = m, !.written = n, !.writer = "idle"]
          OBVIOUS
    <3> HIDE DEF m, n
    <3>3. q \in Players /\ q.queue = m /\ q.sent = p.sent /\ q.written = n
          /\ q.aborted = p.aborted /\ q.pump = p.pump
          BY <1>1, <3>1, <3>2 DEF Players
    <3> QED BY <3>3 DEF m, n
  <2> HIDE DEF q
  <2>3. Moves(p, q) /\ Whole(q)
        BY <1>1, <1>6, <2>2, MediaAssumption DEF Moves, Whole, Players
  <2> QED BY <2>1, <2>3, EnsureMoves, Chained
<1> QED BY <1>3, <1>4, <1>5, <1>6

\* What becomes of all players in one step, and in the pieces of one.
Moved(ps) == ps \in [Renditions -> Players] /\ \A r \in Renditions : Whole(ps[r]) /\ Moves(player[r], ps[r])

RoutesOK == /\ route \in [sink : 0..MaxSinks, used : 0..MaxSinks]
            /\ HeldByOwnSocket

PlayerInv == /\ player \in [Renditions -> Players]
             /\ \A r \in Renditions : Whole(player[r])
             /\ present \in {0} \union Renditions
             /\ RoutesOK

\* Where one player moves and the others stay, all players move.
LEMMA OneMoves ==
  ASSUME NEW ps, Moved(ps), NEW r \in Renditions, NEW q, Moves(ps[r], q)
  PROVE  Moved([ps EXCEPT ![r] = q])
<1> DEFINE qs == [ps EXCEPT ![r] = q]
<1>1. q \in Players /\ Whole(q)
      BY DEF Moves, Whole
<1>2. qs \in [Renditions -> Players] /\ \A x \in Renditions : qs[x] = IF x = r THEN q ELSE ps[x]
      BY <1>1 DEF Moved
<1>3. Moves(player[r], q)
      BY Chained DEF Moved
<1> HIDE DEF qs
<1>4. \A x \in Renditions : Whole(qs[x]) /\ Moves(player[x], qs[x])
      BY <1>1, <1>2, <1>3 DEF Moved
<1> QED BY <1>2, <1>4 DEF Moved, qs

\* What a player is told of its playback sends nothing.
LEMMA ToldMoves ==
  ASSUME NEW ps, Moved(ps), NEW outcome \in {"drained", "detached", "timeout", "cancelled"}
  PROVE  Moved(Told(ps, outcome))
<1> DEFINE qs == Told(ps, outcome)
           x(r) == [ps[r] EXCEPT !.told = outcome]
<1>1. ASSUME NEW r \in Renditions PROVE Moves(ps[r], x(r)) /\ Moves(ps[r], ps[r]) /\ x(r) \in Players
  <2>1. ps[r] \in Players /\ Whole(ps[r])
        BY DEF Moved
  <2>2. x(r) \in Players /\ x(r).queue = ps[r].queue /\ x(r).sent = ps[r].sent /\ x(r).written = ps[r].written
        /\ x(r).aborted = ps[r].aborted /\ x(r).pump = ps[r].pump
        BY <2>1 DEF Players
  <2> HIDE DEF x
  <2>3. Moves(ps[r], x(r))
        BY <2>1, <2>2, SameFrames DEF Whole
  <2> QED BY <2>1, <2>2, <2>3 DEF Moves
<1>2. \A r \in Renditions : qs[r] \in {ps[r], x(r)}
      BY DEF Told
<1>3. qs \in [Renditions -> Players]
      BY <1>1, <1>2 DEF Told, Moved
<1> HIDE DEF qs, x
<1>4. \A r \in Renditions : Moves(ps[r], qs[r])
      BY <1>1, <1>2
<1>5. \A r \in Renditions : Whole(qs[r]) /\ Moves(player[r], qs[r])
      BY <1>4, Chained DEF Moves, Moved
<1> QED BY <1>3, <1>5 DEF Moved, qs

\* An interruption aborts the present player and no other.
LEMMA InterruptedMoves ==
  ASSUME NEW ps, Moved(ps), present \in {0} \union Renditions
  PROVE  Moved(Interrupted(ps))
<1>1. CASE present = 0
      BY <1>1 DEF Interrupted
<1>2. CASE present \in Renditions /\ present # 0
  <2> DEFINE a == aborts(ps[present])
  <2>1. Moves(ps[present], a)
        BY <1>2, AbortsMoves DEF Moved
  <2>2. Interrupted(ps) = [ps EXCEPT ![present] = a]
        BY <1>2 DEF Interrupted
  <2> HIDE DEF a
  <2>3. Moved([ps EXCEPT ![present] = a])
        BY <1>2, <2>1, OneMoves
  <2> QED BY <2>2, <2>3
<1> QED BY <1>1, <1>2

\* A transport that fails aborts or fails its player and sends nothing.
LEMMA FailMoves ==
  ASSUME NEW ps, Moved(ps), NEW r \in Renditions, present \in {0} \union Renditions, failTransport(ps, r)
  PROVE  Moved(player') /\ present' \in {0} \union Renditions
<1>1. CASE ps[r].failed \/ ps[r].aborted
      BY <1>1 DEF failTransport
<1>2. CASE ~(ps[r].failed \/ ps[r].aborted)
  <2> DEFINE f == [ps[r] EXCEPT !.failed = TRUE]
             w == wakeCapacity(f)
  <2>1. ps[r] \in Players /\ Whole(ps[r])
        BY DEF Moved
  <2>2. f \in Players /\ f.queue = ps[r].queue /\ f.sent = ps[r].sent /\ f.written = ps[r].written
        /\ f.aborted = ps[r].aborted /\ f.pump = ps[r].pump
        BY <2>1 DEF Players
  <2>3. player' = Interrupted([ps EXCEPT ![r] = w]) /\ present' = 0
        BY <1>2 DEF failTransport
  <2> HIDE DEF f
  <2>4. Moves(ps[r], f)
        BY <2>1, <2>2, SameFrames DEF Whole
  <2>5. Moves(ps[r], w)
        BY <2>4, WakeMoves, Chained DEF Moves
  <2> HIDE DEF w
  <2>6. Moved([ps EXCEPT ![r] = w])
        BY <2>5, OneMoves
  <2> QED BY <2>3, <2>6, InterruptedMoves
<1> QED BY <1>1, <1>2

\* The pieces of a step that touch no frame.
LEMMA SettingsMove ==
  ASSUME NEW p, Whole(p)
  PROVE  /\ Moves(p, p)
         /\ Moves(p, [p EXCEPT !.made = TRUE])
         /\ \A x \in {"ending", "off"} : Moves(p, [p EXCEPT !.pump = x])
         /\ Moves(p, [p EXCEPT !.pump = "ending", !.told = "none"])
         /\ \A x \in {"pumping", "pressured", "ack", "returned", "threw"} :
               Moves(p, [p EXCEPT !.closer = x]) /\ Moves(p, [p EXCEPT !.closer = x, !.told = "none"])
<1> DEFINE Like(q) == /\ q \in Players /\ q.queue = p.queue /\ q.sent = p.sent /\ q.written = p.written
                      /\ q.aborted = p.aborted /\ q.pump \in {p.pump, "ending", "off"}
<1>1. p \in Players
      BY DEF Whole
<1>2. ASSUME NEW q, Like(q) PROVE Moves(p, q)
      BY <1>2, SameFrames DEF Whole
<1>3. Like([p EXCEPT !.made = TRUE])
      BY <1>1 DEF Players
<1>4. \A x \in {"ending", "off"} : Like([p EXCEPT !.pump = x])
      BY <1>1 DEF Players
<1>5. Like([p EXCEPT !.pump = "ending", !.told = "none"])
      BY <1>1 DEF Players
<1>6. ASSUME NEW x \in {"pumping", "pressured", "ack", "returned", "threw"}
      PROVE  Like([p EXCEPT !.closer = x]) /\ Like([p EXCEPT !.closer = x, !.told = "none"])
      BY <1>1 DEF Players
<1>7. Moves(p, p)
      BY DEF Moves
<1> HIDE DEF Like
<1> QED BY <1>2, <1>3, <1>4, <1>5, <1>6, <1>7

\* A frame leaves the queue, and goes out or is dropped.
LEMMA FrameMoves ==
  ASSUME NEW p, Whole(p), p.pump = "paced", ~p.aborted
  PROVE  LET gone == wakeCapacity([p EXCEPT !.queue = @ - 1])
             sent == [gone EXCEPT !.sent = @ + 1]
         IN  /\ \A b : Moves(p, Top(sent, b))
             /\ Moves(p, [sent EXCEPT !.pump = "pressured"])
             /\ Moves(p, [gone EXCEPT !.pump = "ending"])
<1> DEFINE n == p.queue - 1
           less == [p EXCEPT !.queue = n]
           gone == wakeCapacity(less)
           m == gone.sent + 1
           sent == [gone EXCEPT !.sent = m]
           \* A player whose pump may have no frame in hand.
           Loose(q) == /\ q \in Players /\ q.queue <= QueueLimit /\ q.sent + q.queue <= q.written /\ ~q.aborted
<1>1. p \in Players /\ p.queue > 0 /\ p.queue \in Nat /\ p.sent \in Nat /\ p.written \in Nat
      BY DEF Whole, Players
<1>2. n \in Nat
      BY <1>1
<1>3. less \in Players /\ less.queue = n /\ less.sent = p.sent /\ less.written = p.written /\ ~less.aborted
  <2> HIDE DEF n
  <2> QED BY <1>1, <1>2 DEF Players
<1>4. gone \in Players /\ gone.queue = n /\ gone.sent = p.sent /\ gone.written = p.written /\ ~gone.aborted
  <2> HIDE DEF less, n
  <2> QED BY <1>3 DEF wakeCapacity, Players
<1>5. m \in Nat /\ m = p.sent + 1
      BY <1>1, <1>4
<1>6. sent \in Players /\ sent.queue = n /\ sent.sent = m /\ sent.written = p.written /\ ~sent.aborted
  <2> HIDE DEF gone, n, m
  <2> QED BY <1>4, <1>5 DEF Players
<1>7. p.queue <= QueueLimit /\ p.sent + p.queue <= p.written /\ n <= QueueLimit /\ m + n <= p.written /\ p.sent + n <= p.written
      BY <1>1, <1>5, MediaAssumption DEF Whole
<1>8. ASSUME NEW g, g \in Players, g.queue = n, g.sent + n <= p.written, g.written = p.written, ~g.aborted,
             NEW x \in {"ending", "pressured", "paced"}, x = "paced" => n > 0, NEW t \in {"none", g.told}
      PROVE  Moves(p, [g EXCEPT !.told = t, !.pump = x])
  <2> DEFINE q == [g EXCEPT !.told = t, !.pump = x]
  <2>1. q \in Players /\ q.queue = n /\ q.sent = g.sent /\ q.written = p.written /\ ~q.aborted /\ q.pump = x
    <3> HIDE DEF n
    <3> QED BY <1>8 DEF Players
  <2>2. q.sent \in Nat /\ q.written \in Nat
        BY <2>1 DEF Players
  <2> HIDE DEF q, n, m
  <2>3. Whole(q)
        BY <1>2, <1>7, <1>8, <2>1, <2>2 DEF Whole
  <2> QED BY <2>3 DEF Moves, q
<1> HIDE DEF less
<1>9. ASSUME NEW b PROVE Moves(p, Top(sent, b))
  <2> DEFINE x == IF sent.aborted \/ sent.queue = 0 THEN "ending" ELSE IF b # NoSink THEN "pressured" ELSE "paced"
  <2>1. Top(sent, b) = [sent EXCEPT !.told = "none", !.pump = x]
        BY DEF Top
  <2>2. x \in {"ending", "pressured", "paced"} /\ (x = "paced" => n > 0)
        BY <1>2, <1>6
  <2> HIDE DEF x, sent, n, m, gone
  <2>3. sent.sent + n <= p.written /\ "none" \in {"none", sent.told}
        BY <1>6, <1>7
  <2>4. Moves(p, [sent EXCEPT !.told = "none", !.pump = x])
        BY <1>6, <1>8, <2>2, <2>3
  <2> QED BY <2>1, <2>4
<1>10. ASSUME NEW g \in {gone, sent}, NEW x \in {"ending", "pressured"} PROVE Moves(p, [g EXCEPT !.pump = x])
  <2>1. g \in Players /\ g.queue = n /\ g.sent + n <= p.written /\ g.written = p.written /\ ~g.aborted
        BY <1>4, <1>6, <1>7, <1>10
  <2>2. [g EXCEPT !.pump = x] = [g EXCEPT !.told = g.told, !.pump = x]
        BY <2>1 DEF Players
  <2> HIDE DEF sent, n, m, gone
  <2> QED BY <1>8, <1>10, <2>1, <2>2
<1>11. /\ wakeCapacity([p EXCEPT !.queue = @ - 1]) = gone
       /\ [gone EXCEPT !.sent = @ + 1] = sent
  BY DEF less
<1> HIDE DEF gone, sent
<1> QED BY <1>9, <1>10, <1>11

\* What a step of the players has to show.
LEMMA MovedKeeps ==
  ASSUME PlayerInv, Moved(player'), present' \in {0} \union Renditions, RoutesOK'
  PROVE  /\ PlayerInv'
         /\ \A r \in Renditions : player[r].aborted => player'[r].sent = player[r].sent
BY DEF Moved, Moves, PlayerInv

\* A step keeps the players whole, and an aborted one sends nothing in it.
LEMMA PlayerKeeps ==
  ASSUME PlayerInv, [PlayerNext]_playerVars
  PROVE  /\ PlayerInv'
         /\ \A r \in Renditions : player[r].aborted => player'[r].sent = player[r].sent
<1> DEFINE Goal == Moved(player') /\ present' \in {0} \union Renditions /\ RoutesOK'
<1>1. Moved(player) /\ present \in {0} \union Renditions /\ RoutesOK
      BY DEF PlayerInv, Moved, Moves
<1>2. UNCHANGED <<route, pressure>> => RoutesOK'
      BY <1>1 DEF RoutesOK, HeldByOwnSocket
<1> SUFFICES Goal
    BY MovedKeeps
<1>3. ASSUME NEW r \in Renditions, NEW q, Moves(player[r], q), player' = [player EXCEPT ![r] = q],
             present' \in {0} \union Renditions, UNCHANGED <<route, pressure>>
      PROVE  Goal
      BY <1>1, <1>2, <1>3, OneMoves
<1>4. \A r \in Renditions : Whole(player[r])
      BY DEF PlayerInv
<1>5. ASSUME NEW r \in Renditions, CreatePlayer(r) PROVE Goal
  <2> DEFINE q == [player[r] EXCEPT !.made = TRUE]
  <2>1. player' = [player EXCEPT ![r] = q] /\ present' = r /\ UNCHANGED <<route, pressure>>
        BY <1>5 DEF CreatePlayer
  <2>2. Moves(player[r], q)
        BY <1>4, SettingsMove
  <2> HIDE DEF q
  <2> QED BY <1>3, <2>1, <2>2
<1>6. ASSUME NEW r \in Renditions, Write(r) \/ WriterWakes(r) PROVE Goal
  <2> DEFINE q == looksForRoom(player[r], pressure)
  <2>1. player' = [player EXCEPT ![r] = q] /\ UNCHANGED <<present, route, pressure>>
        BY <1>6 DEF Write, WriterWakes
  <2>2. Moves(player[r], q)
        BY <1>4, RoomMoves
  <2> HIDE DEF q
  <2> QED BY <1>1, <1>3, <2>1, <2>2
<1>7. ASSUME NEW r \in Renditions, ClosePlayer(r) PROVE Goal
  <2> DEFINE p == [player[r] EXCEPT !.closer = "pumping"]
             q == ensurePump(p, pressure)
  <2>1. player' = [player EXCEPT ![r] = q] /\ UNCHANGED <<present, route, pressure>>
        BY <1>7 DEF ClosePlayer
  <2>2. Moves(player[r], p)
        BY <1>4, SettingsMove
  <2> HIDE DEF p
  <2>3. Moves(player[r], q)
        BY <2>2, EnsureMoves, Chained DEF Moves
  <2> HIDE DEF q
  <2> QED BY <1>1, <1>3, <2>1, <2>3
<1>8. CASE InterruptPlayer
      BY <1>1, <1>2, <1>8, InterruptedMoves DEF InterruptPlayer
<1>9. CASE ReplyFails \/ TurnCompletes
      BY <1>1, <1>2, <1>9 DEF ReplyFails, TurnCompletes
<1>10. ASSUME NEW r \in Renditions, Sends(r) PROVE Goal
  <2> DEFINE p == player[r]
             gone == wakeCapacity([p EXCEPT !.queue = @ - 1])
             sent == [gone EXCEPT !.sent = @ + 1]
             e == [p EXCEPT !.pump = "ending"]
             t == Top(sent, pressure)
             h == [sent EXCEPT !.pump = "pressured"]
             d == [gone EXCEPT !.pump = "ending"]
  <2>1. Whole(p) /\ p.pump = "paced" /\ UNCHANGED route
        BY <1>4, <1>10 DEF Sends
  <2>2. \/ p.aborted /\ player' = [player EXCEPT ![r] = e] /\ UNCHANGED <<pressure, present>>
        \/ ~p.aborted /\ player' = [player EXCEPT ![r] = t] /\ UNCHANGED <<pressure, present>>
        \/ /\ ~p.aborted /\ route.sink # NoSink /\ pressure' = route.sink /\ UNCHANGED present
           /\ \E ps \in {player, Told(player, "detached")} : player' = [ps EXCEPT ![r] = h]
        \/ ~p.aborted /\ failTransport([player EXCEPT ![r] = d], r) /\ UNCHANGED pressure
    <3>1. e = [player[r] EXCEPT !.pump = "ending"]
          OBVIOUS
    <3> QED BY <1>10, <3>1 DEF Sends
  <2>3. Moves(p, e)
        BY <2>1, SettingsMove
  <2>4. ~p.aborted => Moves(p, t) /\ Moves(p, h) /\ Moves(p, d)
        BY <2>1, FrameMoves
  <2> HIDE DEF e, t, h, d, gone, sent
  <2>5. CASE p.aborted /\ player' = [player EXCEPT ![r] = e] /\ UNCHANGED <<pressure, present>>
        BY <1>1, <1>3, <2>1, <2>3, <2>5
  <2>6. CASE ~p.aborted /\ player' = [player EXCEPT ![r] = t] /\ UNCHANGED <<pressure, present>>
        BY <1>1, <1>3, <2>1, <2>4, <2>6
  <2>7. CASE /\ ~p.aborted /\ route.sink # NoSink /\ pressure' = route.sink /\ UNCHANGED present
             /\ \E ps \in {player, Told(player, "detached")} : player' = [ps EXCEPT ![r] = h]
    <3>1. PICK ps \in {player, Told(player, "detached")} : player' = [ps EXCEPT ![r] = h]
          BY <2>7
    <3>2. Moved(ps)
          BY <1>1, ToldMoves
    <3>3. ps[r].aborted = p.aborted /\ ps[r].queue = p.queue /\ ps[r].sent = p.sent
          BY <1>4 DEF Told, Whole, Players
    <3>4. Moves(ps[r], h)
          BY <2>4, <2>7, <3>3 DEF Moves
    <3>5. Moved(player')
          BY <3>1, <3>2, <3>4, OneMoves
    <3>6. RoutesOK'
          BY <1>1, <2>1, <2>7 DEF RoutesOK, HeldByOwnSocket
    <3> QED BY <1>1, <2>7, <3>5, <3>6
  <2>8. CASE ~p.aborted /\ failTransport([player EXCEPT ![r] = d], r) /\ UNCHANGED pressure
    <3>1. Moved([player EXCEPT ![r] = d])
          BY <1>1, <2>4, <2>8, OneMoves
    <3>2. Moved(player') /\ present' \in {0} \union Renditions
          BY <1>1, <2>8, <3>1, FailMoves
    <3> QED BY <1>2, <2>1, <2>8, <3>2
  <2> QED BY <2>2, <2>5, <2>6, <2>7, <2>8
<1>11. ASSUME NEW r \in Renditions, PumpWakes(r) PROVE Goal
  <2> DEFINE e == [player[r] EXCEPT !.pump = "ending", !.told = "none"]
             t == Top(player[r], pressure)
  <2>1. UNCHANGED <<route, pressure>>
        BY <1>11 DEF PumpWakes
  <2>2. Moves(player[r], e) /\ Moves(player[r], t)
        BY <1>4, SettingsMove, TopMoves
  <2>3. \/ \E q \in {e, t} : player' = [player EXCEPT ![r] = q] /\ UNCHANGED present
        \/ failTransport([player EXCEPT ![r] = e], r)
        BY <1>11 DEF PumpWakes
  <2> HIDE DEF e, t
  <2>4. CASE \E q \in {e, t} : player' = [player EXCEPT ![r] = q] /\ UNCHANGED present
        BY <1>1, <1>3, <2>1, <2>2, <2>4
  <2>5. CASE failTransport([player EXCEPT ![r] = e], r)
    <3>1. Moved([player EXCEPT ![r] = e])
          BY <1>1, <2>2, OneMoves
    <3> QED BY <1>1, <1>2, <2>1, <2>5, <3>1, FailMoves
  <2> QED BY <2>3, <2>4, <2>5
<1>12. ASSUME NEW r \in Renditions, PumpEnds(r) PROVE Goal
  <2> DEFINE o == [player[r] EXCEPT !.pump = "off"]
             w == wakeCapacity(o)
             q == ensurePump(w, pressure)
  <2>1. player' = [player EXCEPT ![r] = q] /\ UNCHANGED <<present, route, pressure>>
        BY <1>12 DEF PumpEnds
  <2>2. Moves(player[r], o)
        BY <1>4, SettingsMove
  <2> HIDE DEF o
  <2>3. Moves(player[r], w)
        BY <2>2, WakeMoves, Chained DEF Moves
  <2> HIDE DEF w
  <2>4. Moves(player[r], q)
        BY <2>3, EnsureMoves, Chained DEF Moves
  <2> HIDE DEF q
  <2> QED BY <1>1, <1>3, <2>1, <2>4
<1>13. ASSUME NEW r \in Renditions, Closes(r) PROVE Goal
  <2>1. PICK x \in {"threw", "returned", "pressured", "ack"} :
            player' = [player EXCEPT ![r].closer = x, ![r].told = "none"]
        BY <1>13 DEF Closes
  <2> DEFINE q == [player[r] EXCEPT !.closer = x, !.told = "none"]
  <2>2. player' = [player EXCEPT ![r] = q] /\ UNCHANGED <<present, route, pressure>>
        BY <1>1, <1>13, <2>1 DEF Closes, Moved
  <2>3. Moves(player[r], q)
        BY <1>4, SettingsMove
  <2> HIDE DEF q
  <2> QED BY <1>1, <1>3, <2>2, <2>3
<1>14. ASSUME NEW r \in Renditions, CloserWakes(r) \/ PlaybackComplete(r) \/ AckTimesOut(r) PROVE Goal
  <2> DEFINE q(x) == [player[r] EXCEPT !.closer = x]
  <2>1. UNCHANGED <<route, pressure>>
        BY <1>14 DEF CloserWakes, PlaybackComplete, AckTimesOut
  <2>2. \A x \in {"pumping", "pressured", "ack", "returned", "threw"} : Moves(player[r], q(x))
        BY <1>4, SettingsMove
  <2>3. \/ \E x \in {"pumping", "returned"} : player' = [player EXCEPT ![r] = q(x)] /\ UNCHANGED present
        \/ UNCHANGED <<player, present>>
        \/ failTransport([player EXCEPT ![r] = q("threw")], r)
    <3>1. CASE CloserWakes(r) \/ AckTimesOut(r)
          BY <3>1 DEF CloserWakes, AckTimesOut
    <3>2. CASE PlaybackComplete(r)
      <4>1. player' = [player EXCEPT ![r] = q(IF player[r].closer = "ack" THEN "returned" ELSE player[r].closer)]
            /\ UNCHANGED present
            BY <3>2 DEF PlaybackComplete
      <4>2. CASE player[r].closer = "ack"
            BY <4>1, <4>2
      <4>3. CASE player[r].closer # "ack"
        <5>1. q(player[r].closer) = player[r]
              BY <1>4 DEF Whole, Players
        <5>2. player' = [player EXCEPT ![r] = player[r]]
              BY <4>1, <4>3, <5>1
        <5>3. player' = player
              BY <1>1, <5>2 DEF Moved
        <5> QED BY <4>1, <5>3
      <4> QED BY <4>2, <4>3
    <3> QED BY <1>14, <3>1, <3>2
  <2> HIDE DEF q
  <2>4. CASE \E x \in {"pumping", "returned"} : player' = [player EXCEPT ![r] = q(x)] /\ UNCHANGED present
        BY <1>1, <1>3, <2>1, <2>2, <2>4
  <2>5. CASE UNCHANGED <<player, present>>
        BY <1>1, <1>2, <2>1, <2>5
  <2>6. CASE failTransport([player EXCEPT ![r] = q("threw")], r)
    <3>1. Moved([player EXCEPT ![r] = q("threw")])
          BY <1>1, <2>2, OneMoves
    <3> QED BY <1>1, <1>2, <2>1, <2>6, <3>1, FailMoves
  <2> QED BY <2>3, <2>4, <2>5, <2>6
<1>15. CASE Drains \/ PressureTimesOut
  <2>1. \E outcome \in {"drained", "timeout"} : player' = Told(player, outcome)
        BY <1>15 DEF Drains, PressureTimesOut
  <2>2. pressure' = NoSink /\ UNCHANGED <<route, present>>
        BY <1>15 DEF Drains, PressureTimesOut
  <2>3. Moved(player')
        BY <1>1, <2>1, ToldMoves
  <2> QED BY <1>1, <2>2, <2>3 DEF RoutesOK, HeldByOwnSocket
<1>16. CASE detach \/ reattach
  <2>1. /\ player' \in {player, Told(player, "detached")} /\ UNCHANGED present
        /\ pressure' = NoSink
        BY <1>1, <1>16 DEF detach, reattach, RoutesOK, HeldByOwnSocket
  <2>2. route' \in [sink : 0..MaxSinks, used : 0..MaxSinks]
    <3>1. route \in [sink : 0..MaxSinks, used : 0..MaxSinks] /\ MaxSinks \in Nat
          BY <1>1, MediaAssumption DEF RoutesOK
    <3>2. CASE detach
          BY <3>1, <3>2 DEF detach, NoSink
    <3>3. CASE reattach
          BY <3>1, <3>3 DEF reattach
    <3> QED BY <1>16, <3>2, <3>3
  <2>3. Moved(player')
        BY <1>1, <2>1, ToldMoves
  <2> QED BY <1>1, <2>1, <2>2, <2>3 DEF RoutesOK, HeldByOwnSocket
<1>17. CASE hangUp
  <2>1. /\ \E ps \in {player, Told(player, "cancelled")} : player' = Interrupted(ps)
        /\ pressure' = NoSink /\ present' = 0 /\ UNCHANGED route
        BY <1>17 DEF hangUp
  <2>2. Moved(player')
        BY <1>1, <2>1, ToldMoves, InterruptedMoves
  <2> QED BY <1>1, <2>1, <2>2 DEF RoutesOK, HeldByOwnSocket
<1>18. CASE UNCHANGED playerVars
      BY <1>1, <1>2, <1>18 DEF playerVars
<1> QED BY <1>5, <1>6, <1>7, <1>8, <1>9, <1>10, <1>11, <1>12, <1>13, <1>14, <1>15, <1>16, <1>17, <1>18
        DEF PlayerNext, PumpSteps, WaitSteps

\* Every player holds what was written and not sent, no more than its queue may; and only
\* the present route's own backpressure holds the session: for any renditions, frames,
\* limits and sockets.
THEOREM PlayerInvariant == PlayerSpec => []PlayerInv
<1>1. PlayerInit => PlayerInv
  <2> SUFFICES ASSUME PlayerInit PROVE PlayerInv
      OBVIOUS
  <2>1. NewPlayer \in Players /\ Whole(NewPlayer)
        BY MediaAssumption DEF NewPlayer, Players, Whole
  <2>2. player \in [Renditions -> Players] /\ \A r \in Renditions : Whole(player[r])
        BY <2>1 DEF PlayerInit
  <2> QED BY <2>2, MediaAssumption DEF PlayerInit, PlayerInv, RoutesOK, HeldByOwnSocket, NoSink
<1>2. PlayerInv /\ [PlayerNext]_playerVars => PlayerInv'
      BY PlayerKeeps
<1> QED BY <1>1, <1>2, PTL DEF PlayerSpec

\* Nothing of an aborted rendition is sent, whatever its pump was waiting for when the
\* abort came.
THEOREM AbortedStaysSilent == PlayerSpec => SilentAfterAbort
<1> DEFINE Silent == \A r \in Renditions : player[r].aborted => player'[r].sent = player[r].sent
<1>1. PlayerInv /\ [PlayerNext]_playerVars => [Silent]_playerVars
      BY PlayerKeeps
<1> QED BY <1>1, PlayerInvariant, PTL DEF PlayerSpec, SilentAfterAbort
=============================================================================
