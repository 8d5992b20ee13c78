--------------------------- MODULE GatewayServer ---------------------------
(***************************************************************************)
(* The gateway process around its sessions                                 *)
(* (apps/realtime-gateway/src/server.ts): the door at which a socket's     *)
(* session.start is resolved, admitted and claimed as a conversation of    *)
(* the trace store, the bounded queue through which a session's events     *)
(* and its ending reach that store, stop(), and what a restart makes of    *)
(* the rows a crash left behind.                                           *)
(*                                                                         *)
(* A socket starts at most one session here.  Of an event only its kind    *)
(* matters: "media" (sampled), "event" (ordinary) or "failure" (an error   *)
(* that is not recoverable).                                               *)
(***************************************************************************)
EXTENDS Naturals, Sequences, FiniteSets, SequencesExt, FiniteSetsExt

CONSTANTS
    Sockets,     \* the gateway's sockets
    MaxLive,     \* maxSessions
    MaxQueue,    \* maxTraceQueue
    MaxEmitted,  \* bound: ordinary and media events a session emits
    MaxTrouble   \* bound: writes of the store that fail, crashes

\* The ceiling has room for the markers of every ending.
ASSUME ServerAssumption ==
    /\ IsFiniteSet(Sockets) /\ MaxLive \in Nat \ {0} /\ MaxEmitted \in Nat /\ MaxTrouble \in Nat
    /\ MaxQueue \in Nat /\ MaxQueue >= 2 * Cardinality(Sockets)

VARIABLES
    phase,    \* the process: "up", "draining" (inside stop()), "closed" (its stores are) or "down"
    door,     \* what the socket's session.start is doing: "idle", "resolving", "starting", "in"
    hungUp,   \* sockets that have closed
    life,     \* its session: "none", "running", "stopping" (its loop still ends), "over"
    why,      \* how the session came to stop: "stopped", "failed" (marked so) or "crashed"
    traced,   \* traceReady: sessions whose conversation was claimed
    emitted,  \* events they emitted
    rows,     \* conversations: outcome and error_code
    queue,    \* traceQueue
    armed,    \* traceFlushTimer is set
    lost,     \* conversations of which the failing store lost a marker
    trouble   \* how much of it there was

sockets == <<door, hungUp>>
sessions == <<life, why, traced, emitted>>
store == <<rows, lost, trouble>>
serverVars == <<phase, sockets, sessions, store, queue, armed>>

ServerInit ==
    /\ phase = "up" /\ queue = <<>> /\ armed = FALSE /\ lost = {} /\ trouble = 0
    /\ door = [s \in Sockets |-> "idle"] /\ hungUp = {}
    /\ life = [s \in Sockets |-> "none"] /\ why = [s \in Sockets |-> "none"] /\ traced = {}
    /\ emitted = [s \in Sockets |-> 0]
    /\ rows = [s \in Sockets |-> [outcome |-> "none", error |-> FALSE]]

Serving == phase # "down"
StoreIsClosed == phase \in {"closed", "down"}
Running == {s \in Sockets : life[s] = "running"}

-----------------------------------------------------------------------------
(* The observer queue                                                      *)

Observed(type, s) == [type |-> type, of |-> s]
IsEvent(o) == o.type \in {"media", "event", "failure"}
Indices(q, Test(_)) == {i \in DOMAIN q : Test(q[i])}

\* Mistake: at the ceiling the oldest entry goes, whatever it is.
enqueueOldest(q, o) ==
    IF Len(q) < MaxQueue THEN Append(q, o)
    ELSE IF o.type = "media" THEN q ELSE Append(Tail(q), o)

\* enqueueTrace at an open store: at the ceiling media are not taken, and everything
\* else takes the place of a media event, or else of the oldest ordinary one.
enqueue(q, o) ==
    LET media == Indices(q, LAMBDA e : e.type = "media")
        events == Indices(q, IsEvent)
        victims == IF media # {} THEN media ELSE events
    IN  IF Len(q) < MaxQueue THEN Append(q, o)
        ELSE IF o.type = "media" \/ victims = {} THEN q
        ELSE Append(RemoveAt(q, Min(victims)), o)

\* The sessions' callbacks: nothing without a claimed conversation, or once the store is closed.
IsObserved(o) == o.of \in traced /\ ~StoreIsClosed
observe(q, o) == IF IsObserved(o) THEN enqueue(q, o) ELSE q

Enqueues(ops) ==
    /\ queue' = FoldLeft(observe, queue, ops)
    /\ armed' = (armed \/ \E i \in DOMAIN ops : IsObserved(ops[i]))

\* append, markError and finish on the rows.
write(r, o) ==
    CASE o.type \in {"failure", "error"} -> [r EXCEPT ![o.of].error = TRUE]
      [] o.type = "finish" /\ r[o.of].outcome = "active" ->
            [r EXCEPT ![o.of].outcome = IF r[o.of].error THEN "error" ELSE "completed"]
      [] OTHER -> r

Marker(o) == o.type \in {"failure", "error", "finish"}
MarkedIn(q) == {q[i].of : i \in Indices(q, Marker)}

\* flushTraces(): one transaction, in which an operation may fail alone; or the
\* transaction fails, and with it everything that was taken out of the queue.
Flushes ==
    /\ queue' = <<>> /\ armed' = FALSE
    /\ \/ rows' = FoldLeft(write, rows, queue) /\ UNCHANGED <<lost, trouble>>
       \/ /\ trouble < MaxTrouble /\ trouble' = trouble + 1
          /\ \/ \E i \in DOMAIN queue :
                   /\ rows' = FoldLeft(write, rows, RemoveAt(queue, i))
                   /\ lost' = lost \union MarkedIn(<<queue[i]>>)
             \/ UNCHANGED rows /\ lost' = lost \union MarkedIn(queue)

\* The timer of the queue, or a request that reads the conversations.
FlushTraces ==
    /\ phase \in {"up", "draining"} /\ queue # <<>>
    /\ Flushes
    /\ UNCHANGED <<phase, sockets, sessions>>

-----------------------------------------------------------------------------
(* A socket and its session                                                *)

\* session.start on a socket that has no session: pendingStart is set.
FirstCommand(s) ==
    /\ Serving /\ door[s] = "idle" /\ s \notin hungUp /\ life[s] = "none"
    /\ door' = [door EXCEPT ![s] = "resolving"]
    /\ UNCHANGED <<phase, hungUp, sessions, store, queue, armed>>

\* resolveDeploymentStart, createSession: an unknown agent, a full gateway, a spent
\* allowance.  The socket may try again.
Refused(s) ==
    /\ Serving /\ door[s] = "resolving"
    /\ door' = [door EXCEPT ![s] = "idle"]
    /\ UNCHANGED <<phase, hungUp, sessions, store, queue, armed>>

\* createSession: the conversation of an agent is claimed before there is a session,
\* and goes unobserved when that fails.
Creates(s, agent) ==
    /\ Serving /\ door[s] = "resolving" /\ s \notin hungUp
    /\ Cardinality(Running) < MaxLive
    /\ door' = [door EXCEPT ![s] = "starting"]
    /\ life' = [life EXCEPT ![s] = "running"]
    /\ \/ /\ agent /\ ~StoreIsClosed /\ traced' = traced \union {s}
          /\ rows' = [rows EXCEPT ![s].outcome = "active"] /\ UNCHANGED trouble
       \/ /\ agent /\ ~StoreIsClosed /\ trouble < MaxTrouble /\ trouble' = trouble + 1
          /\ UNCHANGED <<traced, rows>>
       \/ (agent => StoreIsClosed) /\ UNCHANGED <<traced, rows, trouble>>
    /\ UNCHANGED <<phase, hungUp, why, emitted, lost, queue, armed>>

\* What onClosed enqueues: the failure of a session before its ending.
Ending(s, reason) ==
    (IF reason = "failed" THEN <<Observed("error", s)>> ELSE <<>>) \o <<Observed("finish", s)>>

\* GatewaySession.stop(): the session leaves the map at once, its loop ends later.
\* before: the events of the same step.
Stops(s, reason, before, next) ==
    IF life[s] = "running"
    THEN /\ life' = [life EXCEPT ![s] = next] /\ why' = [why EXCEPT ![s] = reason]
         /\ Enqueues(before \o Ending(s, reason))
    ELSE Enqueues(before) /\ UNCHANGED <<life, why>>

\* session.start returned: the socket is told, or has gone and nobody is there to attend
\* the session.
Started(s) ==
    /\ Serving /\ door[s] = "starting"
    /\ door' = [door EXCEPT ![s] = "in"]
    /\ IF s \in hungUp THEN Stops(s, "stopped", <<>>, "stopping")
       ELSE Enqueues(<<Observed("event", s)>>) /\ UNCHANGED <<life, why>>
    /\ UNCHANGED <<phase, hungUp, traced, emitted, store>>

\* It threw: the rejection is an event of the session, which is marked and stopped.
StartFails(s) ==
    /\ Serving /\ door[s] = "starting"
    /\ door' = [door EXCEPT ![s] = "in"]
    /\ Stops(s, "failed", <<Observed("event", s)>>, "over")
    /\ UNCHANGED <<phase, hungUp, traced, emitted, store>>

\* GatewaySession.emit, heard by its observer.
Emits(s, type) ==
    /\ Serving /\ life[s] = "running" /\ emitted[s] < MaxEmitted
    /\ emitted' = [emitted EXCEPT ![s] = @ + 1]
    /\ Enqueues(<<Observed(type, s)>>)
    /\ UNCHANGED <<phase, sockets, life, why, traced, store>>

\* session.stop, the grace or the lifetime of the session, end_call: also while it starts.
Ends(s) ==
    /\ Serving /\ life[s] = "running"
    /\ Stops(s, "stopped", <<>>, "stopping")
    /\ UNCHANGED <<phase, sockets, traced, emitted, store>>

\* The loop rejects: an event says so, and the session stops if it has not.
LoopFails(s) ==
    /\ Serving /\ door[s] = "in" /\ life[s] \in {"running", "stopping"}
    /\ IF life[s] = "running" THEN Stops(s, "crashed", <<Observed("failure", s)>>, "over")
       ELSE /\ Enqueues(<<Observed("failure", s)>>)
            /\ life' = [life EXCEPT ![s] = "over"] /\ UNCHANGED why
    /\ UNCHANGED <<phase, sockets, traced, emitted, store>>

LoopEnds(s) ==
    /\ Serving /\ life[s] = "stopping"
    /\ life' = [life EXCEPT ![s] = "over"]
    /\ UNCHANGED <<phase, sockets, why, traced, emitted, store, queue, armed>>

\* close(ws): a start that is being resolved comes to nothing.  The session it has is
\* detached, and ends when its grace does.
SocketCloses(s) ==
    /\ Serving /\ s \notin hungUp
    /\ hungUp' = hungUp \union {s}
    /\ door' = [door EXCEPT ![s] = IF @ = "resolving" THEN "idle" ELSE @]
    /\ UNCHANGED <<phase, sessions, store, queue, armed>>

-----------------------------------------------------------------------------
(* The process                                                             *)

\* stop(): the sessions leave the map before anybody could wait for them.  The listener
\* serves on while LiveKit, the tool servers and the library are awaited.
Shutdown ==
    /\ phase = "up"
    /\ phase' = "draining"
    /\ life' = [s \in Sockets |-> IF s \in Running THEN "stopping" ELSE life[s]]
    /\ why' = [s \in Sockets |-> IF s \in Running THEN "stopped" ELSE why[s]]
    /\ Enqueues(FoldSet(LAMBDA s, ops : ops \o Ending(s, "stopped"), <<>>, Running))
    /\ UNCHANGED <<sockets, traced, emitted, store>>

\* ... then the queue is flushed and the trace store closed,
Drained ==
    /\ phase = "draining" /\ phase' = "closed"
    /\ Flushes
    /\ UNCHANGED <<sockets, sessions>>

\* ... and the process exits, with whatever was started meanwhile.  A crash is the same
\* without the rest of stop().
Dies ==
    /\ phase' = "down"
    /\ life' = [s \in Sockets |-> IF life[s] = "none" THEN "none" ELSE "over"]
    /\ why' = [s \in Sockets |-> IF why[s] = "none" /\ life[s] # "none" THEN "crashed" ELSE why[s]]
    /\ hungUp' = Sockets /\ door' = [s \in Sockets |-> "in"]
    /\ queue' = <<>> /\ armed' = FALSE
    /\ UNCHANGED <<traced, emitted, rows, lost>>

Exit == phase = "closed" /\ Dies /\ UNCHANGED trouble
Crash == phase # "down" /\ trouble < MaxTrouble /\ trouble' = trouble + 1 /\ Dies

\* reconcile(): no row of an earlier process goes on pretending to be live.
Restart ==
    /\ phase = "down" /\ phase' = "up"
    /\ rows' = [s \in Sockets |-> IF rows[s].outcome = "active" THEN [rows[s] EXCEPT !.outcome = "abandoned"] ELSE rows[s]]
    /\ UNCHANGED <<sockets, sessions, queue, armed, lost, trouble>>

ServerNext ==
    \/ FlushTraces \/ Shutdown \/ Drained \/ Exit \/ Crash \/ Restart
    \/ \E s \in Sockets :
          \/ FirstCommand(s) \/ Refused(s) \/ Started(s) \/ StartFails(s) \/ Ends(s)
          \/ LoopFails(s) \/ LoopEnds(s) \/ SocketCloses(s)
          \/ \E agent \in BOOLEAN : Creates(s, agent)
          \/ \E type \in {"media", "event"} : Emits(s, type)

-----------------------------------------------------------------------------
ServerTypeOK ==
    /\ phase \in {"up", "draining", "closed", "down"} /\ armed \in BOOLEAN
    /\ door \in [Sockets -> {"idle", "resolving", "starting", "in"}] /\ hungUp \subseteq Sockets
    /\ life \in [Sockets -> {"none", "running", "stopping", "over"}]
    /\ why \in [Sockets -> {"none", "stopped", "failed", "crashed"}]
    /\ traced \subseteq Sockets /\ lost \subseteq Sockets /\ trouble \in 0..MaxTrouble
    /\ emitted \in [Sockets -> 0..MaxEmitted] /\ Len(queue) <= MaxQueue
    /\ rows \in [Sockets -> [outcome : {"none", "active", "completed", "error", "abandoned"}, error : BOOLEAN]]

\* A conversation's ending is recorded, whatever the queue had to drop: one that is over
\* has its ending in the queue as long as its row says it is active, in the process that
\* claimed it and in any later one; a row that says it ended is of a session that did;
\* and one whose session was marked as failed is not recorded as completed.  Only a
\* store that fails, or one already closed, may lose a marker.
EndingsAreRecorded == \A s \in Sockets \ lost :
    /\ rows[s].outcome = "active" /\ life[s] \in {"stopping", "over"} /\ ~StoreIsClosed =>
          Observed("finish", s) \in ToSet(queue)
    /\ rows[s].outcome # "none" /\ rows[s].outcome # "active" => life[s] \in {"stopping", "over"}
    /\ rows[s].outcome = "completed" => why[s] # "failed"
    /\ queue # <<>> => armed

\* A conversation is recorded as completed only when it was, and then without an error.
\* The code does not keep this: the failure of a loop is an ordinary event of the queue,
\* which may be dropped while the ending is kept, or comes after an ending already written.
CompletedMeansWell == \A s \in Sockets \ lost :
    rows[s].outcome = "completed" => why[s] = "stopped" /\ ~rows[s].error
=============================================================================
