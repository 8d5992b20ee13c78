------------------------- MODULE DuplexKernel_proofs -------------------------
(***************************************************************************)
(* Every kernel method preserves the session invariant below, from any     *)
(* session that satisfies it.  The lemmas are about the operators of       *)
(* DuplexKernel, one per method, so that every specification that steps    *)
(* the kernel (DuplexSession, ConversationLoop) cites the same ones.       *)
(***************************************************************************)
EXTENDS DuplexKernel, TLAPS

Records ==
    [state : SessionStates, turn : 0..MaxTurns, reopenable : BOOLEAN,
     marks : SUBSET TimingPoints, issued : 0..MaxTurns,
     revs : [TurnIds -> 0..MaxRevision],
     aborted : SUBSET Handles, finished : SUBSET Handles,
     timings : [TurnIds -> Nat], endings : [TurnIds -> Nat]]

Matches(d) == (d.turn # 0) <=> (d.state \in TurnStates)

\* Only the turn started last is ever active.
Newest(d) == d.turn \in {0, d.issued}

\* A turn that does not exist yet has no later revision.
Unrevised(d) == \A t \in TurnIds : t > d.issued => d.revs[t] = 0

\* A signal only fires on a handle that was given out.
StopsHandedOut(d) ==
    \A t \in TurnIds, r \in 0..MaxRevision :
        <<t, r>> \in d.aborted \cup d.finished =>
            t <= d.issued /\ r <= d.revs[t]

\* A handle given out is stopped unless it is the active turn's last.
StopsOthers(d) ==
    \A t \in TurnIds, r \in 0..MaxRevision :
        t <= d.issued /\ r <= d.revs[t] =>
            (<<t, r>> \notin d.aborted \cup d.finished
                <=> t = d.turn /\ r = d.revs[t])

Profile(d) ==
    /\ "vad_end" \in d.marks => d.state # "speech_started"
    /\ "thinking" \in d.marks <=> d.state \in {"thinking", "speaking"}
    /\ "speaking" \in d.marks <=> d.state = "speaking"

Commits(d) == d.state = "speaking" => ~d.reopenable

EndsOnce(d) ==
    \A t \in TurnIds :
        /\ d.timings[t] = d.endings[t]
        /\ d.timings[t] = IF t <= d.issued /\ t # d.turn THEN 1 ELSE 0

\* What all of a session's own bookkeeping rests on.
SessionInv(d) ==
    /\ d \in Records
    /\ Matches(d)
    /\ Newest(d)
    /\ Unrevised(d)
    /\ StopsHandedOut(d)
    /\ StopsOthers(d)
    /\ Profile(d)
    /\ Commits(d)

\* Two sessions whose turns, handles and counts of endings agree.
SameBook(d, f) ==
    /\ f.turn = d.turn /\ f.issued = d.issued /\ f.revs = d.revs
    /\ f.aborted = d.aborted /\ f.finished = d.finished
    /\ f.timings = d.timings /\ f.endings = d.endings

\* The active handle is told to stop, and no other.
Stopped(d, f) ==
    /\ f.aborted = IF d.turn = 0 THEN d.aborted ELSE d.aborted \cup {Current(d)}
    /\ f.finished = d.finished

\* Turn ids are the naturals from 1 on.
LEMMA TurnIdsNat ==
  \A t : t \in TurnIds <=> t \in Nat /\ t # 0 /\ t <= MaxTurns
  BY KernelAssumption DEF TurnIds

\* A handle is a turn and a revision.
LEMMA HandlePairs ==
  \A t, r : <<t, r>> \in Handles <=> t \in TurnIds /\ r \in 0..MaxRevision
  BY DEF Handles

-----------------------------------------------------------------------------
(* A new session, and its start.                                           *)

\* The session a constructor leaves satisfies the invariant.
LEMMA NewSessionInv == SessionInv(NewSession) /\ EndsOnce(NewSession)
  BY KernelAssumption, TurnIdsNat, HandlePairs
     DEF NewSession, SessionInv, Records, Matches, Newest, Unrevised,
         StopsHandedOut, StopsOthers, Profile, Commits, EndsOnce,
         SessionStates, TurnStates, TimingPoints

\* start() only opens the session.
LEMMA StartInv ==
  ASSUME NEW d, SessionInv(d), d.state = "idle"
  PROVE  SessionInv(start(d)) /\ (EndsOnce(d) => EndsOnce(start(d)))
  BY KernelAssumption, TurnIdsNat
     DEF start, SessionInv, Records, Matches, Newest, Unrevised,
         StopsHandedOut, StopsOthers, Profile, Commits, EndsOnce,
         SessionStates, TurnStates, TimingPoints
-----------------------------------------------------------------------------
(* Ending a turn.                                                          *)

\* What a session's fields are.
LEMMA Fields ==
  ASSUME NEW d, d \in Records
  PROVE  /\ d.state \in SessionStates /\ d.turn \in 0..MaxTurns
         /\ d.reopenable \in BOOLEAN /\ d.marks \in SUBSET TimingPoints
         /\ d.issued \in 0..MaxTurns /\ d.revs \in [TurnIds -> 0..MaxRevision]
         /\ d.aborted \in SUBSET Handles /\ d.finished \in SUBSET Handles
         /\ d.timings \in [TurnIds -> Nat] /\ d.endings \in [TurnIds -> Nat]
  BY DEF Records

\* The active turn is the one started last, and has a last revision.
LEMMA ActiveTurn ==
  ASSUME NEW d, SessionInv(d), d.turn # 0
  PROVE  /\ d.turn = d.issued /\ d.turn \in TurnIds
         /\ d.revs[d.turn] \in 0..MaxRevision
  BY KernelAssumption, TurnIdsNat, Fields DEF SessionInv, Newest

\* Once the active handle is in the one set or the other, and the turn gone,
\* the handles are in order.
LEMMA EndingHandles ==
  ASSUME NEW d, SessionInv(d), d.turn # 0,
         NEW f, f \in Records, f.turn = 0, f.issued = d.issued, f.revs = d.revs,
         f.aborted \cup f.finished = d.aborted \cup d.finished \cup {Current(d)}
  PROVE  StopsHandedOut(f) /\ StopsOthers(f)
<1>1. StopsHandedOut(d) /\ StopsOthers(d)
  BY DEF SessionInv
<1>2. /\ d.turn = d.issued /\ d.turn \in TurnIds
      /\ d.revs[d.turn] \in 0..MaxRevision /\ d.issued \in Nat
      /\ \A t \in TurnIds : d.revs[t] \in Nat
  BY ActiveTurn, Fields, KernelAssumption, TurnIdsNat DEF SessionInv
<1>3. Current(d) = <<d.issued, d.revs[d.issued]>>
  BY <1>2 DEF Current
<1>4. StopsHandedOut(f)
  BY <1>1, <1>2, <1>3, TurnIdsNat DEF StopsHandedOut
<1>5. StopsOthers(f)
  BY <1>1, <1>2, <1>3, KernelAssumption, TurnIdsNat DEF StopsOthers
<1> QED
  BY <1>4, <1>5

\* A counter or a revision of one turn is raised.
LEMMA Raised ==
  ASSUME NEW S, NEW x \in S, NEW n \in Nat, NEW g \in [S -> Nat],
         NEW h, h = [g EXCEPT ![x] = @ + n]
  PROVE  /\ h \in [S -> Nat]
         /\ \A t \in S : h[t] = IF t = x THEN g[t] + n ELSE g[t]
  OBVIOUS

\* turn.timing and the event that ends the active turn are counted.
LEMMA EmitEndFields ==
  ASSUME NEW e \in Records, e.turn \in TurnIds, NEW n \in Nat,
         NEW g, g = emitEnd(e, n)
  PROVE  /\ g \in Records /\ g.aborted = e.aborted /\ g.finished = e.finished
         /\ g.turn = e.turn /\ g.state = e.state /\ g.revs = e.revs
         /\ g.issued = e.issued
         /\ \A t \in TurnIds :
               /\ g.timings[t] = IF t = e.turn THEN e.timings[t] + n ELSE e.timings[t]
               /\ g.endings[t] = IF t = e.turn THEN e.endings[t] + n ELSE e.endings[t]
<1> DEFINE T == [e.timings EXCEPT ![e.turn] = @ + n]
           E == [e.endings EXCEPT ![e.turn] = @ + n]
<1>1. e.timings \in [TurnIds -> Nat] /\ e.endings \in [TurnIds -> Nat]
  BY Fields
<1>2. g = [e EXCEPT !.timings = T, !.endings = E]
  BY Zenon DEF emitEnd
<1>3. T = [e.timings EXCEPT ![e.turn] = @ + n] /\ E = [e.endings EXCEPT ![e.turn] = @ + n]
  OBVIOUS
<1> HIDE DEF T, E
<1>4. /\ T \in [TurnIds -> Nat] /\ E \in [TurnIds -> Nat]
      /\ \A t \in TurnIds :
            /\ T[t] = IF t = e.turn THEN e.timings[t] + n ELSE e.timings[t]
            /\ E[t] = IF t = e.turn THEN e.endings[t] + n ELSE e.endings[t]
  BY <1>1, <1>3, Raised
<1> QED
  BY <1>2, <1>4 DEF Records

\* The active turn is forgotten.
LEMMA DropActiveFields ==
  ASSUME NEW g \in Records, g.state # "closed", NEW f, f = dropActive(g)
  PROVE  /\ f \in Records /\ f.aborted = g.aborted /\ f.finished = g.finished
         /\ f.turn = 0 /\ f.issued = g.issued /\ f.revs = g.revs
         /\ f.state = "listening" /\ f.marks = {} /\ f.reopenable = FALSE
         /\ f.timings = g.timings /\ f.endings = g.endings
<1>1. f = [g EXCEPT !.turn = 0, !.reopenable = FALSE, !.marks = {},
                    !.state = "listening"]
  BY DEF dropActive, Records
<1>2. /\ f.aborted = g.aborted /\ f.finished = g.finished
      /\ f.turn = 0 /\ f.issued = g.issued /\ f.revs = g.revs
      /\ f.state = "listening" /\ f.marks = {} /\ f.reopenable = FALSE
      /\ f.timings = g.timings /\ f.endings = g.endings
  BY <1>1 DEF Records
<1>3. 0 \in 0..MaxTurns /\ "listening" \in SessionStates
  BY KernelAssumption DEF SessionStates
<1>4. f \in Records
  BY <1>1, <1>3 DEF Records
<1> QED
  BY <1>2, <1>4

\* The end of the active turn, however its handle was stopped.
LEMMA EndingInv ==
  ASSUME NEW d, SessionInv(d), d.turn # 0, NEW n \in Nat,
         NEW e \in Records,
         e.aborted \cup e.finished = d.aborted \cup d.finished \cup {Current(d)},
         e.turn = d.turn, e.state = d.state, e.revs = d.revs,
         e.issued = d.issued, e.timings = d.timings, e.endings = d.endings,
         NEW f, f = dropActive(emitEnd(e, n))
  PROVE  /\ SessionInv(f) /\ f.turn = 0 /\ f.issued = d.issued
         /\ f.revs = d.revs /\ f.state = "listening"
         /\ f.aborted = e.aborted /\ f.finished = e.finished
         /\ EndsOnce(d) /\ n = 1 => EndsOnce(f)
<1> DEFINE g == emitEnd(e, n)
<1>1. d.turn \in TurnIds /\ d.turn = d.issued /\ d.state # "closed" /\ d \in Records
  BY ActiveTurn DEF SessionInv, Matches, TurnStates
<1>2. /\ g \in Records /\ g.aborted = e.aborted /\ g.finished = e.finished
      /\ g.state = d.state /\ g.revs = d.revs /\ g.issued = d.issued
      /\ \A t \in TurnIds :
            /\ g.timings[t] = IF t = d.turn THEN d.timings[t] + n ELSE d.timings[t]
            /\ g.endings[t] = IF t = d.turn THEN d.endings[t] + n ELSE d.endings[t]
  BY <1>1, EmitEndFields
<1>3. f = dropActive(g)
  OBVIOUS
<1> HIDE DEF g
<1>4. /\ f \in Records
      /\ f.aborted = e.aborted /\ f.finished = e.finished
      /\ f.aborted \cup f.finished = d.aborted \cup d.finished \cup {Current(d)}
      /\ f.turn = 0 /\ f.issued = d.issued /\ f.revs = d.revs
      /\ f.state = "listening" /\ f.marks = {} /\ f.reopenable = FALSE
      /\ f.timings = g.timings /\ f.endings = g.endings
  <2>0. g \in Records /\ g.state # "closed"
    BY <1>1, <1>2
  <2>1. /\ f \in Records
        /\ f.aborted = g.aborted /\ f.finished = g.finished
        /\ f.turn = 0 /\ f.issued = g.issued /\ f.revs = g.revs
        /\ f.state = "listening" /\ f.marks = {} /\ f.reopenable = FALSE
        /\ f.timings = g.timings /\ f.endings = g.endings
    BY ONLY <1>3, <2>0, DropActiveFields
  <2> QED
    BY <1>2, <2>1
<1>5. Matches(f) /\ Newest(f) /\ Unrevised(f) /\ Profile(f) /\ Commits(f)
  BY <1>4 DEF SessionInv, Matches, Newest, Unrevised, Profile, Commits, TurnStates
<1>6. StopsHandedOut(f) /\ StopsOthers(f)
  BY <1>4, EndingHandles
<1>7. ASSUME EndsOnce(d), n = 1, NEW t \in TurnIds
      PROVE  /\ f.timings[t] = f.endings[t]
             /\ f.timings[t] = IF t <= f.issued /\ t # f.turn THEN 1 ELSE 0
  <2>1. /\ d.timings[t] = d.endings[t]
        /\ d.timings[t] = IF t <= d.issued /\ t # d.turn THEN 1 ELSE 0
    BY <1>7 DEF EndsOnce
  <2>2. t \in Nat /\ t # 0 /\ d.issued \in Nat
    BY <1>1, KernelAssumption, TurnIdsNat
  <2>3. CASE t = d.turn
    <3>1. d.timings[t] = 0 /\ d.endings[t] = 0
      BY <2>1, <2>3
    <3>2. f.timings[t] = 1 /\ f.endings[t] = 1
      BY <1>2, <1>4, <1>7, <2>3, <3>1
    <3> QED
      BY <1>1, <1>4, <2>2, <2>3, <3>2
  <2>4. CASE t # d.turn
    <3>1. f.timings[t] = d.timings[t] /\ f.endings[t] = d.endings[t]
      BY <1>2, <1>4, <2>4
    <3>2. t # f.turn /\ f.issued = d.issued
      BY <1>4, <2>2
    <3> QED
      BY <2>1, <2>4, <3>1, <3>2
  <2> QED
    BY <2>3, <2>4
<1>8. SessionInv(f)
  BY <1>4, <1>5, <1>6 DEF SessionInv
<1>9. EndsOnce(d) /\ n = 1 => EndsOnce(f)
  BY <1>7 DEF EndsOnce
<1> QED
  BY <1>4, <1>8, <1>9

\* interrupt() ends the active turn, if there is one, and nothing else.
LEMMA InterruptInv ==
  ASSUME NEW d, SessionInv(d), NEW reason
  PROVE  /\ SessionInv(interrupt(d, reason))
         /\ interrupt(d, reason).turn = 0
         /\ interrupt(d, reason).issued = d.issued
         /\ interrupt(d, reason).revs = d.revs
         /\ d.turn # 0 => interrupt(d, reason).state = "listening"
         /\ d.turn = 0 => interrupt(d, reason) = d
         /\ Stopped(d, interrupt(d, reason))
         /\ ~ObserverReenters /\ EndsOnce(d) => EndsOnce(interrupt(d, reason))
<1>1. CASE d.turn = 0
  BY <1>1 DEF interrupt, Stopped
<1>2. CASE d.turn # 0
  <2> DEFINE e == [d EXCEPT !.aborted = @ \cup {Current(d)}]
             n == announcements(d, reason)
             f == interrupt(d, reason)
  <2>1. n \in Nat /\ (~ObserverReenters => n = 1)
    BY DEF announcements
  <2>2. Current(d) \in Handles /\ d \in Records
    BY <1>2, ActiveTurn, HandlePairs DEF SessionInv, Current
  <2>3. announcements(e, reason) = n
    BY <2>2 DEF announcements, Records
  <2>4. /\ e \in Records
        /\ e.aborted = d.aborted \cup {Current(d)} /\ e.finished = d.finished
        /\ e.aborted \cup e.finished = d.aborted \cup d.finished \cup {Current(d)}
        /\ e.turn = d.turn /\ e.state = d.state /\ e.revs = d.revs
        /\ e.issued = d.issued /\ e.timings = d.timings /\ e.endings = d.endings
    BY <2>2 DEF Records
  <2>5. f = dropActive(emitEnd(e, n))
    BY <1>2, <2>3 DEF interrupt
  <2> HIDE DEF e, n, f
  <2>6. /\ SessionInv(f) /\ f.turn = 0 /\ f.issued = d.issued
        /\ f.revs = d.revs /\ f.state = "listening"
        /\ f.aborted = e.aborted /\ f.finished = e.finished
        /\ EndsOnce(d) /\ n = 1 => EndsOnce(f)
    BY <1>2, <2>1, <2>4, <2>5, EndingInv
  <2> QED
    BY <1>2, <2>1, <2>4, <2>6 DEF f, Stopped
<1> QED
  BY <1>1, <1>2

\* complete() ends the turn it names, if that turn is being answered.
LEMMA CompleteInv ==
  ASSUME NEW d, SessionInv(d), NEW t, mayComplete(d, t)
  PROVE  /\ SessionInv(complete(d, t))
         /\ complete(d, t).turn = 0
         /\ complete(d, t).issued = d.issued
         /\ complete(d, t).revs = d.revs
         /\ complete(d, t).state = "listening"
         /\ complete(d, t).aborted = d.aborted
         /\ complete(d, t).finished = d.finished \cup {Current(d)}
         /\ EndsOnce(d) => EndsOnce(complete(d, t))
<1> DEFINE e == [d EXCEPT !.finished = @ \cup {Current(d)}]
           f == complete(d, t)
<1>1. d.turn # 0
  BY DEF mayComplete, isCurrent
<1>2. Current(d) \in Handles /\ d \in Records
  BY <1>1, ActiveTurn, HandlePairs DEF SessionInv, Current
<1>3. /\ e \in Records
      /\ e.aborted = d.aborted /\ e.finished = d.finished \cup {Current(d)}
      /\ e.aborted \cup e.finished = d.aborted \cup d.finished \cup {Current(d)}
      /\ e.turn = d.turn /\ e.state = d.state /\ e.revs = d.revs
      /\ e.issued = d.issued /\ e.timings = d.timings /\ e.endings = d.endings
  BY <1>2 DEF Records
<1>4. f = dropActive(emitEnd(e, 1))
  BY DEF complete
<1> HIDE DEF e, f
<1>5. /\ SessionInv(f) /\ (EndsOnce(d) => EndsOnce(f))
      /\ f.turn = 0 /\ f.issued = d.issued
      /\ f.revs = d.revs /\ f.state = "listening"
      /\ f.aborted = e.aborted /\ f.finished = e.finished
  BY <1>1, <1>3, <1>4, EndingInv
<1> QED
  BY <1>3, <1>5 DEF f

\* close() interrupts, then closes for good.
LEMMA CloseInv ==
  ASSUME NEW d, SessionInv(d)
  PROVE  /\ SessionInv(close(d))
         /\ close(d).turn = 0
         /\ close(d).issued = d.issued
         /\ close(d).revs = d.revs
         /\ close(d).state = "closed"
         /\ Stopped(d, close(d))
         /\ ~ObserverReenters /\ EndsOnce(d) => EndsOnce(close(d))
<1> DEFINE e == interrupt(d, "shutdown")
           f == [e EXCEPT !.state = "closed"]
<1>1. CASE d.state = "closed"
  BY <1>1 DEF close, SessionInv, Matches, TurnStates, Stopped
<1>2. CASE d.state # "closed"
  <2>1. /\ SessionInv(e) /\ e.turn = 0 /\ e.issued = d.issued
        /\ e.revs = d.revs /\ Stopped(d, e)
        /\ ~ObserverReenters /\ EndsOnce(d) => EndsOnce(e)
    BY InterruptInv
  <2>2. close(d) = f
    BY <1>2 DEF close
  <2> HIDE DEF e
  <2>3. "thinking" \notin e.marks /\ "speaking" \notin e.marks
    BY <2>1 DEF SessionInv, Profile, Matches, TurnStates
  <2>4. f \in Records /\ f.state = "closed" /\ SameBook(e, f) /\ f.marks = e.marks
    BY <2>1 DEF SessionInv, Records, SessionStates, SameBook
  <2> HIDE DEF f
  <2>5. SessionInv(f)
    BY <2>1, <2>3, <2>4
       DEF SameBook, SessionInv, Matches, Newest, Unrevised, StopsHandedOut,
           StopsOthers, Profile, Commits, TurnStates
  <2>6. EndsOnce(e) => EndsOnce(f)
    BY <2>4 DEF EndsOnce, SameBook
  <2>7. /\ f.turn = 0 /\ f.issued = d.issued /\ f.revs = d.revs
        /\ f.state = "closed" /\ Stopped(d, f)
    BY <2>1, <2>4 DEF SameBook, Stopped
  <2> QED
    BY <2>1, <2>2, <2>5, <2>6, <2>7
<1> QED
  BY <1>1, <1>2

-----------------------------------------------------------------------------
(* Starting a turn.                                                        *)

\* A turn started while none is active gets the next id and a fresh handle.
LEMMA NewTurnInv ==
  ASSUME NEW d, SessionInv(d), d.turn = 0, d.issued < MaxTurns,
         NEW s \in {"speech_started", "finalizing"}
  PROVE  /\ SessionInv(newTurn(d, s))
         /\ newTurn(d, s).turn = d.issued + 1
         /\ newTurn(d, s).issued = d.issued + 1
         /\ newTurn(d, s).revs = d.revs
         /\ newTurn(d, s).state = s
         /\ newTurn(d, s).aborted = d.aborted
         /\ newTurn(d, s).finished = d.finished
         /\ EndsOnce(d) => EndsOnce(newTurn(d, s))
<1> DEFINE f == newTurn(d, s)
<1>1. d \in Records /\ d.issued \in 0..MaxTurns /\ d.issued + 1 \in 0..MaxTurns
  BY Fields, KernelAssumption, TurnIdsNat DEF SessionInv
<1>2. /\ f \in Records
      /\ f.turn = d.issued + 1 /\ f.issued = d.issued + 1 /\ f.revs = d.revs
      /\ f.state = s /\ f.marks = {} /\ f.reopenable = FALSE
      /\ f.aborted = d.aborted /\ f.finished = d.finished
      /\ f.timings = d.timings /\ f.endings = d.endings
  BY <1>1 DEF Records, newTurn, SessionStates
<1> HIDE DEF f
<1>3. Matches(f) /\ Newest(f) /\ Unrevised(f) /\ Profile(f) /\ Commits(f)
  BY <1>1, <1>2, TurnIdsNat
     DEF SessionInv, Matches, Newest, Unrevised, Profile, Commits, TurnStates
<1>4. StopsHandedOut(f)
  BY <1>1, <1>2, TurnIdsNat DEF SessionInv, StopsHandedOut
<1>5. StopsOthers(f)
  BY <1>1, <1>2, TurnIdsNat, KernelAssumption
     DEF SessionInv, Unrevised, StopsHandedOut, StopsOthers
<1>6. EndsOnce(d) => EndsOnce(f)
  BY <1>1, <1>2, TurnIdsNat DEF EndsOnce
<1> QED
  BY <1>2, <1>3, <1>4, <1>5, <1>6 DEF SessionInv, f

\* startUserSpeech() supersedes whatever turn there is.
LEMMA StartUserSpeechInv ==
  ASSUME NEW d, SessionInv(d), d.issued < MaxTurns
  PROVE  /\ SessionInv(startUserSpeech(d))
         /\ startUserSpeech(d).turn = d.issued + 1
         /\ startUserSpeech(d).issued = d.issued + 1
         /\ startUserSpeech(d).revs = d.revs
         /\ startUserSpeech(d).state = "speech_started"
         /\ Stopped(d, startUserSpeech(d))
         /\ ~ObserverReenters /\ EndsOnce(d) => EndsOnce(startUserSpeech(d))
<1> DEFINE e == interrupt(d, "barge_in")
<1>1. /\ SessionInv(e) /\ e.turn = 0 /\ e.issued = d.issued /\ e.revs = d.revs
      /\ Stopped(d, e)
      /\ ~ObserverReenters /\ EndsOnce(d) => EndsOnce(e)
  BY InterruptInv
<1>2. startUserSpeech(d) = newTurn(e, "speech_started")
  BY DEF startUserSpeech
<1> HIDE DEF e
<1> DEFINE f == newTurn(e, "speech_started")
<1>3. /\ SessionInv(f) /\ (EndsOnce(e) => EndsOnce(f))
      /\ f.turn = d.issued + 1 /\ f.issued = d.issued + 1 /\ f.revs = d.revs
      /\ f.state = "speech_started"
      /\ f.aborted = e.aborted /\ f.finished = e.finished
  BY <1>1, NewTurnInv
<1> HIDE DEF f
<1> QED
  BY <1>1, <1>2, <1>3 DEF f, Stopped

\* startUserText() and startAgentTurn() are granted between turns only.
LEMMA StartIdleTurnInv ==
  ASSUME NEW d, SessionInv(d), d.issued < MaxTurns, mayStartIdleTurn(d),
         NEW f \in {startUserText(d), startAgentTurn(d)}
  PROVE  /\ SessionInv(f)
         /\ f.turn = d.issued + 1
         /\ f.issued = d.issued + 1
         /\ f.revs = d.revs
         /\ f.state = "finalizing"
         /\ f.aborted = d.aborted
         /\ f.finished = d.finished
         /\ EndsOnce(d) => EndsOnce(f)
<1>1. f = newTurn(d, "finalizing")
  BY DEF startUserText, startAgentTurn
<1>2. d.turn = 0
  BY DEF mayStartIdleTurn
<1> DEFINE g == newTurn(d, "finalizing")
<1>3. /\ SessionInv(g) /\ (EndsOnce(d) => EndsOnce(g))
      /\ g.turn = d.issued + 1 /\ g.issued = d.issued + 1
      /\ g.revs = d.revs /\ g.state = "finalizing"
      /\ g.aborted = d.aborted /\ g.finished = d.finished
  BY <1>2, NewTurnInv
<1> HIDE DEF g
<1> QED
  BY <1>1, <1>3 DEF g

-----------------------------------------------------------------------------
(* Moving a turn along.                                                    *)

\* A change of the active turn's state, marks and commitment leaves the
\* handles and the count of endings alone.
LEMMA MoveInv ==
  ASSUME NEW d, SessionInv(d), d.turn # 0,
         NEW f, f \in Records, SameBook(d, f), f.state \in TurnStates,
         Profile(f), Commits(f)
  PROVE  SessionInv(f) /\ (EndsOnce(d) => EndsOnce(f))
  BY DEF SameBook, SessionInv, Matches, Newest, Unrevised, StopsHandedOut,
         StopsOthers, EndsOnce

\* The milestones a caller may stamp; the state changes stamp the others.
Milestones == {"asr_done", "llm_first", "tts_first_audio", "playback_first"}

\* mark() only adds to the active turn's profile.
LEMMA MarkInv ==
  ASSUME NEW d, SessionInv(d), NEW t, NEW point \in Milestones
  PROVE  /\ SessionInv(mark(d, t, point))
         /\ SameBook(d, mark(d, t, point))
         /\ mark(d, t, point).state = d.state
         /\ EndsOnce(d) => EndsOnce(mark(d, t, point))
<1> DEFINE f == mark(d, t, point)
<1>1. CASE ~isCurrent(d, t)
  BY <1>1 DEF mark, SameBook
<1>2. CASE isCurrent(d, t)
  <2>1. /\ f \in Records /\ SameBook(d, f) /\ f.state = d.state
        /\ f.marks = d.marks \cup {point} /\ f.reopenable = d.reopenable
    BY <1>2 DEF mark, SessionInv, Records, SameBook, Milestones, TimingPoints
  <2>2. d.turn # 0 /\ f.state \in TurnStates
    BY <1>2, <2>1 DEF isCurrent, SessionInv, Matches
  <2> HIDE DEF f
  <2>3. Profile(f) /\ Commits(f)
    BY <2>1 DEF SessionInv, Profile, Commits, Milestones
  <2>4. SessionInv(f) /\ (EndsOnce(d) => EndsOnce(f))
    BY <2>1, <2>2, <2>3, MoveInv
  <2> QED
    BY <2>1, <2>4 DEF f
<1> QED
  BY <1>1, <1>2

\* The hard end of an utterance.
LEMMA FinalizeInv ==
  ASSUME NEW d, SessionInv(d), NEW t, mayFinalize(d, t)
  PROVE  /\ SessionInv(finalizeUserSpeech(d, t))
         /\ SameBook(d, finalizeUserSpeech(d, t))
         /\ finalizeUserSpeech(d, t).state = "finalizing"
         /\ EndsOnce(d) => EndsOnce(finalizeUserSpeech(d, t))
<1> DEFINE f == finalizeUserSpeech(d, t)
<1>1. d \in Records /\ d.turn # 0 /\ d.state = "speech_started"
  BY DEF SessionInv, mayFinalize, isCurrent
<1>2. /\ f \in Records /\ SameBook(d, f) /\ f.state = "finalizing"
      /\ f.marks = d.marks \cup {"vad_end"} /\ f.reopenable = FALSE
  BY <1>1 DEF finalizeUserSpeech, mayFinalize, mark, Records, SameBook,
              SessionStates, TimingPoints
<1> HIDE DEF f
<1>3. Profile(f) /\ Commits(f) /\ f.state \in TurnStates
  BY <1>1, <1>2 DEF SessionInv, Profile, Commits, TurnStates
<1>4. SessionInv(f) /\ (EndsOnce(d) => EndsOnce(f))
  BY <1>1, <1>2, <1>3, MoveInv
<1> QED
  BY <1>2, <1>4 DEF f

\* The soft end of an utterance, after which the turn may be reopened.
LEMMA SoftFinalizeInv ==
  ASSUME NEW d, SessionInv(d), NEW t, mayFinalize(d, t)
  PROVE  /\ SessionInv(softFinalizeUserSpeech(d, t))
         /\ SameBook(d, softFinalizeUserSpeech(d, t))
         /\ softFinalizeUserSpeech(d, t).state = "finalizing"
         /\ EndsOnce(d) => EndsOnce(softFinalizeUserSpeech(d, t))
<1> DEFINE f == softFinalizeUserSpeech(d, t)
<1>1. d \in Records /\ d.turn # 0 /\ d.state = "speech_started"
  BY DEF SessionInv, mayFinalize, isCurrent
<1>2. /\ f \in Records /\ SameBook(d, f) /\ f.state = "finalizing"
      /\ f.marks = d.marks \cup {"vad_end"} /\ f.reopenable = TRUE
  BY <1>1 DEF softFinalizeUserSpeech, mayFinalize, mark, Records, SameBook,
              SessionStates, TimingPoints
<1> HIDE DEF f
<1>3. Profile(f) /\ Commits(f) /\ f.state \in TurnStates
  BY <1>1, <1>2 DEF SessionInv, Profile, Commits, TurnStates
<1>4. SessionInv(f) /\ (EndsOnce(d) => EndsOnce(f))
  BY <1>1, <1>2, <1>3, MoveInv
<1> QED
  BY <1>2, <1>4 DEF f

\* reopen() fires the superseded revision's signal and gives out the next.
LEMMA ReopenInv ==
  ASSUME NEW d, SessionInv(d), NEW t, mayReopen(d, t), d.revs[t] < MaxRevision
  PROVE  /\ SessionInv(reopen(d, t))
         /\ reopen(d, t).turn = t
         /\ reopen(d, t).issued = d.issued
         /\ reopen(d, t).revs[t] = d.revs[t] + 1
         /\ reopen(d, t).state = "speech_started"
         /\ \A u \in TurnIds : u # t => reopen(d, t).revs[u] = d.revs[u]
         /\ Stopped(d, reopen(d, t))
         /\ EndsOnce(d) => EndsOnce(reopen(d, t))
<1> DEFINE f == reopen(d, t)
<1>1. /\ d \in Records /\ t = d.turn /\ t = d.issued /\ t \in TurnIds /\ t # 0
      /\ d.revs \in [TurnIds -> 0..MaxRevision] /\ d.revs[t] + 1 \in 0..MaxRevision
  BY KernelAssumption, TurnIdsNat, ActiveTurn, Fields DEF SessionInv, mayReopen, isCurrent
<1> DEFINE R == [d.revs EXCEPT ![t] = @ + 1]
           a == d.aborted \cup {<<t, d.revs[t]>>}
<1>2. f = [d EXCEPT !.aborted = a, !.revs = R, !.marks = {},
                    !.state = "speech_started"]
  BY <1>1 DEF reopen, Current
<1>3. R \in [TurnIds -> 0..MaxRevision] /\ a \in SUBSET Handles
  BY <1>1, Fields, HandlePairs
<1> HIDE DEF f, R, a
<1>4. /\ f \in Records
      /\ f.turn = d.turn /\ f.issued = d.issued /\ f.state = "speech_started"
      /\ f.revs = R /\ f.marks = {}
      /\ f.aborted = a /\ f.finished = d.finished
      /\ f.timings = d.timings /\ f.endings = d.endings
  BY <1>1, <1>2, <1>3 DEF Records, SessionStates
<1>5. f.aborted = d.aborted \cup {<<t, d.revs[t]>>}
  BY <1>4 DEF a
<1>6. \A u \in TurnIds : f.revs[u] = IF u = t THEN d.revs[t] + 1 ELSE d.revs[u]
  BY <1>1, <1>4 DEF R
<1>7. Matches(f) /\ Newest(f) /\ Profile(f) /\ Commits(f)
  BY <1>1, <1>4 DEF SessionInv, Matches, Newest, Profile, Commits, TurnStates
<1>8. Unrevised(f)
  BY <1>1, <1>4, <1>6, TurnIdsNat DEF SessionInv, Unrevised
<1>9. \A u \in TurnIds : d.revs[u] \in Nat
  BY <1>1, KernelAssumption, TurnIdsNat
<1>10. StopsHandedOut(f)
  BY <1>1, <1>4, <1>6, <1>9, <1>5, KernelAssumption, TurnIdsNat DEF SessionInv, StopsHandedOut
<1>11. StopsOthers(f)
  <2>1. StopsHandedOut(d) /\ StopsOthers(d)
    BY DEF SessionInv
  <2>2. ASSUME NEW u \in TurnIds, NEW r \in 0..MaxRevision,
               u <= f.issued, r <= f.revs[u]
        PROVE  <<u, r>> \notin f.aborted \cup f.finished
                  <=> u = f.turn /\ r = f.revs[u]
    <3>1. CASE u = t /\ r = d.revs[t] + 1
      <4>1. d.revs[t] \in Nat /\ ~(r <= d.revs[t])
        BY <1>1, <1>9, <3>1
      <4>2. <<t, r>> \notin d.aborted \cup d.finished
        BY <1>1, <2>1, <4>1 DEF StopsHandedOut
      <4>3. <<t, r>> # <<t, d.revs[t]>>
        BY <4>1
      <4>4. u = f.turn /\ r = f.revs[u]
        BY <1>1, <1>4, <1>6, <3>1
      <4> QED
        BY <1>4, <1>5, <3>1, <4>2, <4>3, <4>4
    <3>2. CASE u = t /\ r # d.revs[t] + 1
      <4>1. r \in Nat /\ r <= d.revs[t] /\ t <= d.issued /\ r # f.revs[u]
        BY <1>1, <1>6, <1>9, <2>2, <3>2, TurnIdsNat, KernelAssumption
      <4>2. <<t, r>> \in f.aborted \cup f.finished
        BY <1>1, <1>4, <1>5, <2>1, <2>2, <4>1 DEF StopsOthers
      <4> QED
        BY <3>2, <4>1, <4>2
    <3>3. CASE u # t
      BY <1>1, <1>4, <1>6, <1>9, <1>5, <2>1, <2>2, <3>3, KernelAssumption, TurnIdsNat
         DEF StopsOthers
    <3> QED
      BY <3>1, <3>3, <3>2
  <2> QED
    BY <2>2 DEF StopsOthers
<1>12. EndsOnce(d) => EndsOnce(f)
  BY <1>4 DEF EndsOnce
<1>13. Stopped(d, f)
  BY <1>1, <1>4, <1>5 DEF Stopped, Current
<1> QED
  BY <1>1, <1>4, <1>6, <1>7, <1>8, <1>10, <1>11, <1>12, <1>13 DEF SessionInv, f

\* A finalized turn starts to be answered.
LEMMA StartThinkingInv ==
  ASSUME NEW d, SessionInv(d), NEW t, mayThink(d, t)
  PROVE  /\ SessionInv(startThinking(d, t))
         /\ SameBook(d, startThinking(d, t))
         /\ startThinking(d, t).state = "thinking"
         /\ EndsOnce(d) => EndsOnce(startThinking(d, t))
<1> DEFINE f == startThinking(d, t)
<1>1. d \in Records /\ d.turn # 0 /\ d.state = "finalizing"
  BY DEF SessionInv, mayThink, isCurrent
<1>2. /\ f \in Records /\ SameBook(d, f) /\ f.state = "thinking"
      /\ f.marks = d.marks \cup {"thinking"} /\ f.reopenable = d.reopenable
  BY <1>1 DEF startThinking, mayThink, mark, Records, SameBook,
              SessionStates, TimingPoints
<1> HIDE DEF f
<1>3. Profile(f) /\ Commits(f) /\ f.state \in TurnStates
  BY <1>1, <1>2 DEF SessionInv, Profile, Commits, TurnStates
<1>4. SessionInv(f) /\ (EndsOnce(d) => EndsOnce(f))
  BY <1>1, <1>2, <1>3, MoveInv
<1> QED
  BY <1>2, <1>4 DEF f

\* The reply's first sound is the commitment point.
LEMMA StartSpeakingInv ==
  ASSUME NEW d, SessionInv(d), NEW t, maySpeak(d, t)
  PROVE  /\ SessionInv(startSpeaking(d, t))
         /\ SameBook(d, startSpeaking(d, t))
         /\ startSpeaking(d, t).state = "speaking"
         /\ EndsOnce(d) => EndsOnce(startSpeaking(d, t))
<1> DEFINE f == startSpeaking(d, t)
<1>1. d \in Records /\ d.turn # 0 /\ d.state = "thinking"
  BY DEF SessionInv, maySpeak, isCurrent
<1>2. /\ f \in Records /\ SameBook(d, f) /\ f.state = "speaking"
      /\ f.marks = d.marks \cup {"speaking"} /\ f.reopenable = FALSE
  BY <1>1 DEF startSpeaking, maySpeak, mark, Records, SameBook,
              SessionStates, TimingPoints
<1> HIDE DEF f
<1>3. Profile(f) /\ Commits(f) /\ f.state \in TurnStates
  BY <1>1, <1>2 DEF SessionInv, Profile, Commits, TurnStates
<1>4. SessionInv(f) /\ (EndsOnce(d) => EndsOnce(f))
  BY <1>1, <1>2, <1>3, MoveInv
<1> QED
  BY <1>2, <1>4 DEF f
-----------------------------------------------------------------------------
(* What a session looks like to TurnLifecycle.                             *)

\* The handles not yet told to stop are the active turn's last, if any.
LEMMA LiveIs ==
  ASSUME NEW d, SessionInv(d)
  PROVE  LiveHandles(d) = IF d.turn = 0 THEN {} ELSE {Current(d)}
<1>1. ASSUME NEW h \in Handles
      PROVE  h \in LiveHandles(d) <=> d.turn # 0 /\ h = Current(d)
  <2>1. PICK t \in TurnIds, r \in 0..MaxRevision : h = <<t, r>>
    BY <1>1 DEF Handles
  <2>2. /\ t # 0 /\ t \in Nat /\ r \in Nat
        /\ d.turn # 0 => /\ d.turn = d.issued /\ d.turn \in Nat
                         /\ d.revs[d.turn] \in Nat
    BY TurnIdsNat, KernelAssumption, ActiveTurn
  <2>3. h \in LiveHandles(d) <=>
           /\ t <= d.issued /\ r <= d.revs[t]
           /\ <<t, r>> \notin d.aborted \cup d.finished
    BY <1>1, <2>1 DEF LiveHandles, HandedOut
  <2>4. StopsOthers(d)
    BY DEF SessionInv
  <2> QED
    BY <2>1, <2>2, <2>3, <2>4 DEF StopsOthers, Current
<1>2. LiveHandles(d) \subseteq Handles
  BY DEF LiveHandles, HandedOut
<1>3. d.turn # 0 => Current(d) \in Handles
  BY ActiveTurn, HandlePairs DEF Current
<1> QED
  BY <1>1, <1>2, <1>3

\* What each turn does, turn by turn.
LEMMA PhaseIs ==
  ASSUME NEW d, SessionInv(d), NEW t \in TurnIds
  PROVE  /\ t > d.issued => phaseOf(d)[t] = "new"
         /\ t <= d.issued /\ t # d.turn => phaseOf(d)[t] = "over"
         /\ t = d.turn =>
              phaseOf(d)[t] = CASE d.state = "speech_started" -> "capturing"
                                [] d.state = "speaking" -> "speaking"
                                [] OTHER -> "answering"
<1>1. t \in Nat /\ d.issued \in Nat /\ (t = d.turn => t = d.issued)
  BY TurnIdsNat, KernelAssumption, Fields DEF SessionInv, Newest
<1>2. phaseOf(d)[t] =
        CASE t > d.issued -> "new"
          [] t <= d.issued /\ t # d.turn -> "over"
          [] t = d.turn /\ d.state = "speech_started" -> "capturing"
          [] t = d.turn /\ d.state = "speaking" -> "speaking"
          [] OTHER -> "answering"
  BY DEF phaseOf
<1> QED
  BY <1>1, <1>2

\* Two sessions that differ, to TurnLifecycle, in one turn.
LEMMA PhaseExcept ==
  ASSUME NEW d, NEW f, NEW t \in TurnIds, NEW p, phaseOf(f)[t] = p,
         \A u \in TurnIds : u # t => phaseOf(f)[u] = phaseOf(d)[u]
  PROVE  phaseOf(f) = [phaseOf(d) EXCEPT ![t] = p]
<1> DEFINE P == phaseOf(d)
           Q == phaseOf(f)
<1>1. P = [u \in TurnIds |-> P[u]] /\ Q = [u \in TurnIds |-> Q[u]]
  BY DEF phaseOf
<1>2. Q[t] = p /\ \A u \in TurnIds : u # t => Q[u] = P[u]
  OBVIOUS
<1> HIDE DEF P, Q
<1>3. Q = [P EXCEPT ![t] = p]
  BY <1>1, <1>2
<1> QED
  BY <1>3 DEF P, Q

\* The same, in two turns.
LEMMA PhaseExceptTwo ==
  ASSUME NEW d, NEW f, NEW o \in TurnIds, NEW t \in TurnIds, o # t,
         NEW p, NEW q, phaseOf(f)[o] = q, phaseOf(f)[t] = p,
         \A u \in TurnIds : u # t /\ u # o => phaseOf(f)[u] = phaseOf(d)[u]
  PROVE  phaseOf(f) = [phaseOf(d) EXCEPT ![o] = q, ![t] = p]
<1> DEFINE P == phaseOf(d)
           Q == phaseOf(f)
<1>1. P = [u \in TurnIds |-> P[u]] /\ Q = [u \in TurnIds |-> Q[u]]
  BY DEF phaseOf
<1>2. /\ Q[o] = q /\ Q[t] = p
      /\ \A u \in TurnIds : u # t /\ u # o => Q[u] = P[u]
  OBVIOUS
<1> HIDE DEF P, Q
<1>3. Q = [P EXCEPT ![o] = q, ![t] = p]
  BY <1>1, <1>2
<1> QED
  BY <1>3 DEF P, Q
-----------------------------------------------------------------------------
(* The steps of TurnLifecycle, taken from session d to session f, and which  *)
(* changes of a session amount to which.                                    *)

OpenPhase == {"capturing", "answering", "speaking"}

SameLifecycle(d, f) ==
    phaseOf(f) = phaseOf(d) /\ LiveHandles(f) = LiveHandles(d)

EndsAt(d, f, t) ==
    /\ phaseOf(d)[t] \in OpenPhase
    /\ phaseOf(f) = [phaseOf(d) EXCEPT ![t] = "over"]
    /\ LiveHandles(f) = {}

OpensAt(d, f, t) ==
    /\ \A u \in TurnIds : phaseOf(d)[u] \notin OpenPhase
    /\ phaseOf(d)[t] = "new"
    /\ \E p \in {"capturing", "answering"} : phaseOf(f) = [phaseOf(d) EXCEPT ![t] = p]
    /\ LiveHandles(f) = {<<t, 0>>}

SupersedesAt(d, f, old, t) ==
    /\ phaseOf(d)[old] \in OpenPhase
    /\ phaseOf(d)[t] = "new"
    /\ \E p \in {"capturing", "answering"} :
          phaseOf(f) = [phaseOf(d) EXCEPT ![old] = "over", ![t] = p]
    /\ LiveHandles(f) = {<<t, 0>>}

AnswersAt(d, f, t) ==
    /\ phaseOf(d)[t] = "capturing"
    /\ phaseOf(f) = [phaseOf(d) EXCEPT ![t] = "answering"]
    /\ LiveHandles(f) = LiveHandles(d)

SpeaksAt(d, f, t) ==
    /\ phaseOf(d)[t] = "answering"
    /\ phaseOf(f) = [phaseOf(d) EXCEPT ![t] = "speaking"]
    /\ LiveHandles(f) = LiveHandles(d)

ReopensAt(d, f, t, r) ==
    /\ phaseOf(d)[t] = "answering"
    /\ LiveHandles(d) = {<<t, r>>}
    /\ r + 1 \in 0..MaxRevision
    /\ phaseOf(f) = [phaseOf(d) EXCEPT ![t] = "capturing"]
    /\ LiveHandles(f) = {<<t, r + 1>>}

\* One step of TurnLifecycle, or none.
LifecycleStep(d, f) ==
    \/ SameLifecycle(d, f)
    \/ \E t \in TurnIds :
          \/ EndsAt(d, f, t) \/ OpensAt(d, f, t)
          \/ AnswersAt(d, f, t) \/ SpeaksAt(d, f, t)
          \/ \E old \in TurnIds : SupersedesAt(d, f, old, t)
          \/ \E r \in 0..MaxRevision : ReopensAt(d, f, t, r)

\* A turn that is over is over for good, and nobody works for it.
LEMMA EndsTurn ==
  ASSUME NEW d, NEW f, SessionInv(d), SessionInv(f), d.turn # 0,
         f.turn = 0, f.issued = d.issued
  PROVE  EndsAt(d, f, d.turn)
<1> DEFINE t == d.turn
<1>1. t \in TurnIds /\ t = d.issued /\ t # f.turn /\ t <= t
  BY ActiveTurn, TurnIdsNat
<1>2. phaseOf(d)[t] \in {"capturing", "answering", "speaking"}
  BY <1>1, PhaseIs
<1>3. phaseOf(f)[t] = "over"
  BY <1>1, PhaseIs
<1>4. \A u \in TurnIds : u # t => phaseOf(f)[u] = phaseOf(d)[u]
  BY <1>1, PhaseIs, TurnIdsNat
<1>5. phaseOf(f) = [phaseOf(d) EXCEPT ![t] = "over"]
  BY <1>1, <1>3, <1>4, PhaseExcept
<1>6. LiveHandles(f) = {}
  BY LiveIs
<1> QED
  BY <1>2, <1>5, <1>6 DEF EndsAt, OpenPhase

\* A new turn has one handle, and every other turn is new or over.
LEMMA OpensTurn ==
  ASSUME NEW d, NEW f, SessionInv(d), SessionInv(f),
         f.turn = d.issued + 1, f.issued = d.issued + 1,
         f.revs = d.revs, f.state \in {"speech_started", "finalizing", "thinking"}
  PROVE  IF d.turn = 0 THEN OpensAt(d, f, f.turn)
         ELSE SupersedesAt(d, f, d.turn, f.turn)
<1> DEFINE t == f.turn
           o == d.turn
           p == phaseOf(f)[t]
<1>1. /\ t \in TurnIds /\ t > d.issued /\ t = f.issued
      /\ d.issued \in Nat /\ t # o
      /\ o # 0 => o \in TurnIds /\ o = d.issued
  BY ActiveTurn, TurnIdsNat, KernelAssumption, Fields DEF SessionInv, Newest
<1>2. phaseOf(d)[t] = "new"
  BY <1>1, PhaseIs
<1>3. p \in {"capturing", "answering"}
  BY <1>1, PhaseIs
<1>4. phaseOf(f)[t] = p
  OBVIOUS
<1> HIDE DEF p
<1>5. LiveHandles(f) = {<<t, 0>>}
  <2>1. LiveHandles(f) = {Current(f)}
    BY <1>1, LiveIs, TurnIdsNat
  <2>2. f.revs[t] = 0
    BY <1>1 DEF SessionInv, Unrevised
  <2> QED
    BY <2>1, <2>2 DEF Current
<1>6. CASE o = 0
  <2>1. \A u \in TurnIds : phaseOf(d)[u] \in {"new", "over"}
    BY <1>1, <1>6, PhaseIs, TurnIdsNat
  <2>2. \A u \in TurnIds : u # t => phaseOf(f)[u] = phaseOf(d)[u]
    BY <1>1, <1>6, PhaseIs, TurnIdsNat
  <2>3. phaseOf(f) = [phaseOf(d) EXCEPT ![t] = p]
    <3>1. t \in TurnIds
      BY <1>1
    <3> HIDE DEF t
    <3> QED
      BY ONLY <1>4, <2>2, <3>1, PhaseExcept
  <2> QED
    BY <1>2, <1>3, <1>5, <1>6, <2>1, <2>3 DEF OpensAt, OpenPhase
<1>7. CASE o # 0
  <2>1. phaseOf(d)[o] \in {"capturing", "answering", "speaking"}
    BY <1>1, <1>7, PhaseIs
  <2>2. phaseOf(f)[o] = "over"
    BY <1>1, <1>7, PhaseIs
  <2>3. \A u \in TurnIds : u # t /\ u # o => phaseOf(f)[u] = phaseOf(d)[u]
    BY <1>1, <1>7, PhaseIs, TurnIdsNat
  <2>4. phaseOf(f) = [phaseOf(d) EXCEPT ![o] = "over", ![t] = p]
    <3> DEFINE q == phaseOf(f)[o]
    <3>1. t \in TurnIds /\ o \in TurnIds /\ o # t /\ phaseOf(f)[o] = q
      BY <1>1, <1>7
    <3> HIDE DEF t, o, q
    <3>2. phaseOf(f) = [phaseOf(d) EXCEPT ![o] = q, ![t] = p]
      BY ONLY <1>4, <2>3, <3>1, PhaseExceptTwo, SMTT(30)
    <3> QED
      BY <2>2, <3>1, <3>2
  <2> QED
    BY <1>2, <1>3, <1>5, <1>7, <2>1, <2>4 DEF SupersedesAt, OpenPhase
<1> QED
  BY <1>6, <1>7

\* The active turn moves along and keeps its handle.
LEMMA MovesTurn ==
  ASSUME NEW d, NEW f, SessionInv(d), SessionInv(f), d.turn # 0,
         SameBook(d, f),
         \/ /\ d.state = "speech_started"
            /\ f.state \in {"finalizing", "thinking"}
         \/ /\ d.state = "finalizing"
            /\ f.state = "thinking"
         \/ /\ d.state = "thinking"
            /\ f.state = "speaking"
         \/ f.state = d.state
  PROVE  \/ AnswersAt(d, f, d.turn)
         \/ SpeaksAt(d, f, d.turn)
         \/ SameLifecycle(d, f)
<1> DEFINE t == d.turn
           p == phaseOf(d)[t]
           q == phaseOf(f)[t]
<1>1. /\ t \in TurnIds /\ t = f.turn /\ f.issued = d.issued
      /\ f.revs = d.revs
  BY ActiveTurn DEF SameBook
<1>2. \/ p = "capturing" /\ q = "answering"
      \/ p = "answering" /\ q = "speaking"
      \/ p = q
  BY <1>1, PhaseIs
<1>3. \A u \in TurnIds : u # t => phaseOf(f)[u] = phaseOf(d)[u]
  BY <1>1, PhaseIs, TurnIdsNat, KernelAssumption, Fields DEF SessionInv
<1>4. phaseOf(f) = [phaseOf(d) EXCEPT ![t] = q]
  <2>1. t \in TurnIds /\ phaseOf(f)[t] = q
    BY <1>1
  <2> HIDE DEF t, q
  <2> QED
    BY ONLY <1>3, <2>1, PhaseExcept
<1>5. LiveHandles(f) = LiveHandles(d)
  BY <1>1, LiveIs DEF Current
<1>6. CASE p = q
  <2>1. phaseOf(f) = phaseOf(d)
    BY <1>4, <1>6 DEF phaseOf
  <2> QED
    BY <1>5, <2>1 DEF SameLifecycle
<1>7. CASE p = "capturing" /\ q = "answering"
  BY <1>4, <1>5, <1>7 DEF AnswersAt
<1>8. CASE p = "answering" /\ q = "speaking"
  BY <1>4, <1>5, <1>8 DEF SpeaksAt
<1> QED
  BY <1>2, <1>6, <1>7, <1>8

\* A turn that has not sounded goes back to capture under its next handle.
LEMMA ReopensTurn ==
  ASSUME NEW d, NEW f, SessionInv(d), SessionInv(f), NEW t, mayReopen(d, t),
         f.turn = t, f.issued = d.issued,
         f.revs[t] = d.revs[t] + 1, f.state = "speech_started"
  PROVE  ReopensAt(d, f, t, d.revs[t])
<1>1. /\ t = d.turn /\ t \in TurnIds /\ t # 0
      /\ d.state \in {"finalizing", "thinking"}
  BY ActiveTurn DEF mayReopen, isCurrent
<1>2. phaseOf(d)[t] = "answering" /\ phaseOf(f)[t] = "capturing"
  BY <1>1, PhaseIs
<1>3. \A u \in TurnIds : u # t => phaseOf(f)[u] = phaseOf(d)[u]
  BY <1>1, PhaseIs, TurnIdsNat, KernelAssumption, Fields DEF SessionInv
<1>4. phaseOf(f) = [phaseOf(d) EXCEPT ![t] = "capturing"]
  <2> DEFINE q == phaseOf(f)[t]
  <2>1. t \in TurnIds /\ phaseOf(f)[t] = q
    BY <1>1
  <2> HIDE DEF q
  <2>2. phaseOf(f) = [phaseOf(d) EXCEPT ![t] = q]
    BY ONLY <1>3, <2>1, PhaseExcept
  <2> QED
    BY <1>2, <2>1, <2>2
<1>5. /\ LiveHandles(d) = {<<t, d.revs[t]>>}
      /\ LiveHandles(f) = {<<t, d.revs[t] + 1>>}
  BY <1>1, LiveIs DEF Current
<1>6. d.revs[t] + 1 \in 0..MaxRevision
  BY <1>1, ActiveTurn
<1> QED
  BY <1>2, <1>4, <1>5, <1>6 DEF ReopensAt

\* Between turns nothing changes for TurnLifecycle.
LEMMA IdleStutters ==
  ASSUME NEW d, NEW f, SessionInv(d), SessionInv(f), d.turn = 0,
         f.turn = 0, f.issued = d.issued
  PROVE  SameLifecycle(d, f)
<1>1. \A u \in TurnIds : phaseOf(f)[u] = phaseOf(d)[u]
  BY PhaseIs, TurnIdsNat, KernelAssumption, Fields DEF SessionInv
<1>2. phaseOf(f) = phaseOf(d)
  BY <1>1 DEF phaseOf
<1>3. LiveHandles(f) = LiveHandles(d)
  BY LiveIs
<1> QED
  BY <1>2, <1>3 DEF SameLifecycle

\* A step that ends the active turn, or happens between two turns.
LEMMA EndingIsStep ==
  ASSUME NEW d, NEW f, SessionInv(d), SessionInv(f), f.turn = 0, f.issued = d.issued
  PROVE  LifecycleStep(d, f)
  BY EndsTurn, IdleStutters, ActiveTurn DEF LifecycleStep

\* A step that opens the next turn.
LEMMA OpeningIsStep ==
  ASSUME NEW d, NEW f, SessionInv(d), SessionInv(f),
         f.turn = d.issued + 1, f.issued = d.issued + 1, f.revs = d.revs,
         f.state \in {"speech_started", "finalizing", "thinking"}
  PROVE  LifecycleStep(d, f)
<1>1. f.turn \in TurnIds /\ (d.turn # 0 => d.turn \in TurnIds)
  BY ActiveTurn, Fields, KernelAssumption DEF SessionInv
<1> QED
  BY <1>1, OpensTurn DEF LifecycleStep

\* A step that moves the active turn along.
LEMMA MovingIsStep ==
  ASSUME NEW d, NEW f, SessionInv(d), SessionInv(f), d.turn # 0, SameBook(d, f),
         \/ /\ d.state = "speech_started"
            /\ f.state \in {"finalizing", "thinking"}
         \/ /\ d.state = "finalizing"
            /\ f.state = "thinking"
         \/ /\ d.state = "thinking"
            /\ f.state = "speaking"
         \/ f.state = d.state
  PROVE  LifecycleStep(d, f)
  BY MovesTurn, ActiveTurn DEF LifecycleStep

\* A step that takes the active turn back to capture.
LEMMA ReopeningIsStep ==
  ASSUME NEW d, SessionInv(d), NEW t, mayReopen(d, t), d.revs[t] < MaxRevision
  PROVE  LifecycleStep(d, reopen(d, t))
<1>1. ReopensAt(d, reopen(d, t), t, d.revs[t])
  BY ReopensTurn, ReopenInv
<1>2. t \in TurnIds /\ d.revs[t] \in 0..MaxRevision
  BY ActiveTurn DEF mayReopen, isCurrent
<1> QED
  BY <1>1, <1>2 DEF LifecycleStep
=============================================================================
