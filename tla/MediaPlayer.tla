---------------------------- MODULE MediaPlayer ----------------------------
(***************************************************************************)
(* The reply audio of one gateway session                                  *)
(* (apps/realtime-gateway/src/session.ts): each rendition of a reply has a *)
(* player with a bounded queue, a writer that waits for room, a pump that  *)
(* sends one frame at a time, and a close that waits for the endpoint to   *)
(* have played it.  They share the session's socket, one episode of        *)
(* backpressure and the kernel's present turn.                             *)
(*                                                                         *)
(* Every await is a place where the rest may move; a promise that was      *)
(* resolved is heard when its waiter next runs.                            *)
(***************************************************************************)
EXTENDS Naturals, FiniteSets

CONSTANTS
    MaxRenditions,  \* bound: renditions, each the reply of a turn of its own
    MaxFrames,      \* bound: frames synthesized for one rendition
    QueueLimit,     \* maxQueuedOutputMs, in frames
    MaxSinks        \* bound: sockets the session is ever attached to

ASSUME MediaAssumption ==
    MaxRenditions \in Nat /\ MaxFrames \in Nat /\ QueueLimit \in Nat \ {0} /\ MaxSinks \in Nat \ {0}

Renditions == 1..MaxRenditions
NoSink == 0

VARIABLES
    route,      \* the session's sink, and how many there have been
    pressure,   \* the sink whose backpressure holds the session, or NoSink
    present,    \* the rendition of the kernel's present turn, or 0
    player,     \* the players, "none" until created
    acked,      \* lastAckedTurnId
    hungUp      \* stop() was called

playerVars == <<route, pressure, present, player, acked, hungUp>>

\* pump: off; top is evaluated at once, so it rests paced, pressured or ending.
\* told: how the backpressure a pump or close waits for was resolved.
NewPlayer == [made |-> FALSE, queue |-> 0, written |-> 0, sent |-> 0,
              writer |-> "idle", pump |-> "off", told |-> "none", closer |-> "no",
              aborted |-> FALSE, failed |-> FALSE]

PlayerInit == /\ route = [sink |-> 1, used |-> 1]
              /\ pressure = NoSink
              /\ present = 0
              /\ player = [r \in Renditions |-> NewPlayer]
              /\ acked = 0
              /\ hungUp = FALSE

-----------------------------------------------------------------------------
(* Operators on one player                                                 *)

\* The head of pump's loop: what it waits for next while backpressure is b.
Top(p, b) == [p EXCEPT !.told = "none",
                       !.pump = IF p.aborted \/ p.queue = 0 THEN "ending"
                                ELSE IF b # NoSink THEN "pressured" ELSE "paced"]

ensurePump(p, b) ==
    IF p.pump # "off" \/ p.aborted \/ p.failed \/ p.queue = 0 THEN p ELSE Top(p, b)

wakeCapacity(p) == IF p.writer = "waiting" THEN [p EXCEPT !.writer = "woken"] ELSE p

\* abort(): the queue is dropped and every wait of this player is cancelled.
aborts(p) == [wakeCapacity(p) EXCEPT
                 !.aborted = TRUE, !.queue = 0,
                 !.closer = IF @ = "ack" THEN "returned" ELSE @]

\* One frame of a piece of audio, when there is room for it.
enqueues(p, b) ==
    ensurePump([p EXCEPT !.queue = @ + 1, !.written = @ + 1, !.writer = "idle"], b)

\* waitForCapacity: the writer looks again, and asks for a pump while it waits.
looksForRoom(p, b) ==
    IF p.failed THEN [p EXCEPT !.writer = "threw"]
    ELSE IF p.aborted THEN [p EXCEPT !.writer = "returned"]
    ELSE IF p.queue >= QueueLimit THEN ensurePump([p EXCEPT !.writer = "waiting"], b)
    ELSE enqueues(p, b)

\* pressure.resolve(outcome): all who wait for this episode are told.
Told(ps, outcome) ==
    [r \in Renditions |->
        IF (ps[r].pump = "pressured" \/ ps[r].closer = "pressured") /\ ps[r].told = "none"
        THEN [ps[r] EXCEPT !.told = outcome] ELSE ps[r]]

\* duplex.interrupt: the present turn ends and its player is aborted.
Interrupted(ps) == IF present = 0 THEN ps ELSE [ps EXCEPT ![present] = aborts(@)]

\* A failure of the transport interrupts the present turn, unless this player
\* has failed or was aborted before.
failTransport(ps, r) ==
    IF ps[r].failed \/ ps[r].aborted
    THEN player' = ps /\ UNCHANGED present
    ELSE /\ player' = Interrupted([ps EXCEPT ![r] = wakeCapacity([@ EXCEPT !.failed = TRUE])])
         /\ present' = 0

-----------------------------------------------------------------------------
(* The conversation loop                                                   *)

\* A dispatch creates its player; the kernel's turn before has ended.
CreatePlayer(r) ==
    /\ ~hungUp /\ present = 0
    /\ ~player[r].made /\ \A q \in 1..(r - 1) : player[q].made
    /\ player' = [player EXCEPT ![r].made = TRUE]
    /\ present' = r
    /\ UNCHANGED <<route, pressure, acked, hungUp>>

Write(r) ==
    /\ player[r].made /\ player[r].writer = "idle" /\ player[r].closer = "no"
    /\ present = r
    /\ player[r].written < MaxFrames
    /\ player' = [player EXCEPT ![r] = looksForRoom(@, pressure)]
    /\ UNCHANGED <<route, pressure, present, acked, hungUp>>

WriterWakes(r) ==
    /\ player[r].writer = "woken" \/ (player[r].writer = "waiting" /\ player[r].aborted)
    /\ player' = [player EXCEPT ![r] = looksForRoom(@, pressure)]
    /\ UNCHANGED <<route, pressure, present, acked, hungUp>>

ClosePlayer(r) ==
    /\ present = r /\ player[r].made
    /\ player[r].writer = "idle" /\ player[r].closer = "no"
    /\ player' = [player EXCEPT ![r] = ensurePump([@ EXCEPT !.closer = "pumping"], pressure)]
    /\ UNCHANGED <<route, pressure, present, acked, hungUp>>

\* A barge-in, an interrupt command, or a reply that supersedes this one.
InterruptPlayer ==
    /\ present # 0
    /\ player' = Interrupted(player)
    /\ present' = 0
    /\ UNCHANGED <<route, pressure, acked, hungUp>>

\* Synthesis fails in the middle of a reply: the dispatch has taken its abort
\* listener off before it interrupts the turn, so the player is not aborted.
ReplyFails ==
    /\ present # 0 /\ player[present].writer = "idle" /\ player[present].closer = "no"
    /\ present' = 0
    /\ UNCHANGED <<route, pressure, player, acked, hungUp>>

TurnCompletes ==
    /\ present # 0 /\ player[present].closer = "returned"
    /\ present' = 0
    /\ UNCHANGED <<route, pressure, player, acked, hungUp>>

-----------------------------------------------------------------------------
(* The pump                                                                *)

\* Mistake: the frame it holds goes out whatever happened while it waited.
SendsUnchecked(r) ==
    /\ player[r].pump = "paced" /\ route.sink # NoSink
    /\ player' = [player EXCEPT ![r].sent = @ + 1, ![r].queue = IF @ = 0 THEN 0 ELSE @ - 1,
                                ![r].pump = "ending"]
    /\ UNCHANGED <<route, pressure, present, acked, hungUp>>

\* The pace allows the next frame: it is sent, fills the socket, or is dropped.
Sends(r) ==
    /\ player[r].pump = "paced"
    /\ LET p == player[r]
           gone == wakeCapacity([p EXCEPT !.queue = @ - 1])
           sent == [gone EXCEPT !.sent = @ + 1]
       IN  \/ /\ p.aborted
              /\ player' = [player EXCEPT ![r].pump = "ending"]
              /\ UNCHANGED <<pressure, present>>
           \/ /\ ~p.aborted /\ route.sink # NoSink
              /\ player' = [player EXCEPT ![r] = Top(sent, pressure)]
              /\ UNCHANGED <<pressure, present>>
           \/ /\ ~p.aborted /\ route.sink # NoSink
              /\ pressure' = route.sink
              /\ LET ps == IF pressure = route.sink THEN player ELSE Told(player, "detached")
                 IN  player' = [ps EXCEPT ![r] = [sent EXCEPT !.pump = "pressured"]]
              /\ UNCHANGED present
           \/ /\ ~p.aborted
              /\ failTransport([player EXCEPT ![r] = [gone EXCEPT !.pump = "ending"]], r)
              /\ UNCHANGED pressure
    /\ UNCHANGED <<route, acked, hungUp>>

\* Whoever waits for the socket hears of its drain, or of its own abort.
PumpWakes(r) ==
    /\ player[r].pump = "pressured"
    /\ \/ /\ player[r].aborted \/ player[r].told = "cancelled"
          /\ player' = [player EXCEPT ![r] = [@ EXCEPT !.pump = "ending", !.told = "none"]]
          /\ UNCHANGED present
       \/ /\ player[r].told = "drained"
          /\ player' = [player EXCEPT ![r] = Top(@, pressure)]
          /\ UNCHANGED present
       \/ /\ player[r].told \in {"detached", "timeout"}
          /\ failTransport([player EXCEPT ![r] = [@ EXCEPT !.pump = "ending", !.told = "none"]], r)
    /\ UNCHANGED <<route, pressure, acked, hungUp>>

\* finally: a frame written after the last look starts the pump again.
PumpEnds(r) ==
    /\ player[r].pump = "ending"
    /\ player' = [player EXCEPT ![r] = ensurePump(wakeCapacity([@ EXCEPT !.pump = "off"]), pressure)]
    /\ UNCHANGED <<route, pressure, present, acked, hungUp>>

-----------------------------------------------------------------------------
(* Closing a rendition                                                     *)

\* The queue has been pumped: the endpoint is told, and is waited for unless it
\* has answered already or there is nothing to hear.
Closes(r) ==
    LET p == player[r]
    IN  /\ p.closer = "pumping" /\ p.pump = "off"
        /\ \E after \in
              IF p.failed THEN {"threw"}
              ELSE IF p.aborted THEN {"returned"}
              ELSE IF pressure # NoSink THEN {"pressured"}
              ELSE IF p.written = 0 \/ hungUp \/ acked = r THEN {"returned"}
              ELSE {"ack"} :
              player' = [player EXCEPT ![r].closer = after, ![r].told = "none"]
        /\ UNCHANGED <<route, pressure, present, acked, hungUp>>

CloserWakes(r) ==
    /\ player[r].closer = "pressured"
    /\ \/ /\ player[r].told = "drained"
          /\ player' = [player EXCEPT ![r].closer = "pumping"]
          /\ UNCHANGED present
       \/ /\ player[r].aborted \/ player[r].told = "cancelled"
          /\ player' = [player EXCEPT ![r].closer = "returned"]
          /\ UNCHANGED present
       \/ /\ player[r].told \in {"detached", "timeout"}
          /\ failTransport([player EXCEPT ![r].closer = "threw"], r)
    /\ UNCHANGED <<route, pressure, acked, hungUp>>

\* playback.complete: it may come before close waits for it.
PlaybackComplete(r) ==
    /\ player[r].sent > 0 /\ player[r].closer \notin {"no", "threw"} /\ acked < r
    /\ acked' = r
    /\ player' = [player EXCEPT ![r].closer = IF @ = "ack" THEN "returned" ELSE @]
    /\ UNCHANGED <<route, pressure, present, hungUp>>

\* Mistake: a silent client is waited for until it speaks.
AckTimesOutNever(r) == /\ player[r].closer = "ack" /\ acked = r
                       /\ player' = [player EXCEPT ![r].closer = "returned"]
                       /\ UNCHANGED <<route, pressure, present, acked, hungUp>>

\* A silent client is waited for as long as the audio lasts, and a little longer.
AckTimesOut(r) == /\ player[r].closer = "ack"
                  /\ player' = [player EXCEPT ![r].closer = "returned"]
                  /\ UNCHANGED <<route, pressure, present, acked, hungUp>>

-----------------------------------------------------------------------------
(* The session's socket                                                    *)

Drains == /\ pressure # NoSink /\ pressure = route.sink
          /\ pressure' = NoSink
          /\ player' = Told(player, "drained")
          /\ UNCHANGED <<route, present, acked, hungUp>>

\* The congestion deadline: the socket is terminated under what it still holds.
PressureTimesOut ==
    /\ pressure # NoSink
    /\ \E r \in Renditions : (player[r].pump = "pressured" \/ player[r].closer = "pressured")
                             /\ player[r].told = "none"
    /\ pressure' = NoSink
    /\ player' = Told(player, "timeout")
    /\ UNCHANGED <<route, present, acked, hungUp>>

detach == /\ ~hungUp /\ route.sink # NoSink
          /\ route' = [route EXCEPT !.sink = NoSink]
          /\ pressure' = IF pressure = route.sink THEN NoSink ELSE pressure
          /\ player' = IF pressure = route.sink THEN Told(player, "detached") ELSE player
          /\ UNCHANGED <<present, acked, hungUp>>

\* attach(): a second socket supersedes the first with what it still holds.
reattach == /\ ~hungUp /\ route.used < MaxSinks
            /\ route' = [sink |-> route.used + 1, used |-> route.used + 1]
            /\ IF pressure # NoSink /\ pressure = route.sink
               THEN pressure' = NoSink /\ player' = Told(player, "detached")
               ELSE UNCHANGED <<pressure, player>>
            /\ UNCHANGED <<present, acked, hungUp>>

hangUp == /\ ~hungUp
          /\ hungUp' = TRUE
          /\ pressure' = NoSink
          /\ player' = Interrupted(IF pressure # NoSink THEN Told(player, "cancelled") ELSE player)
          /\ present' = 0
          /\ UNCHANGED <<route, acked>>

-----------------------------------------------------------------------------
PumpSteps(r) == Sends(r) \/ PumpWakes(r) \/ PumpEnds(r)
WaitSteps(r) == WriterWakes(r) \/ Closes(r) \/ CloserWakes(r) \/ AckTimesOut(r)

PlayerNext ==
    \/ \E r \in Renditions : \/ CreatePlayer(r) \/ Write(r) \/ ClosePlayer(r)
                             \/ PumpSteps(r) \/ WaitSteps(r) \/ PlaybackComplete(r)
    \/ InterruptPlayer \/ ReplyFails \/ TurnCompletes
    \/ Drains \/ PressureTimesOut \/ detach \/ reattach \/ hangUp

\* Promises that are resolved are heard and timers fire; the endpoint is not
\* asked to drain, to answer, or to stay.
PlayerFairness == /\ \A r \in Renditions : WF_playerVars(PumpSteps(r)) /\ WF_playerVars(WaitSteps(r))
                  /\ WF_playerVars(PressureTimesOut)

PlayerSpec == PlayerInit /\ [][PlayerNext]_playerVars /\ PlayerFairness

-----------------------------------------------------------------------------
(* Properties                                                              *)

\* Only the present route's own backpressure ever holds the session up: a drain
\* of another socket would never release it.
HeldByOwnSocket == pressure # NoSink => pressure = route.sink

\* Nothing of an aborted rendition is sent, whatever its pump was waiting for.
SilentAfterAbort ==
    [][\A r \in Renditions : player[r].aborted => player'[r].sent = player[r].sent]_playerVars

\* Every write and every close settles: a full queue, a blocked socket, a lost
\* one or a silent endpoint holds the conversation loop for a bounded time.
CallsSettle ==
    \A r \in Renditions :
        /\ player[r].writer \in {"waiting", "woken"} ~> player[r].writer \notin {"waiting", "woken"}
        /\ player[r].closer # "no" ~> player[r].closer \in {"returned", "threw"}

\* docs/realtime-media-transport.md:735: "no audible stale audio after a stream
\* is interrupted or superseded".
EndedTurnIsSilent ==
    [][\A r \in Renditions : r # present => player'[r].sent = player[r].sent]_playerVars
=============================================================================
