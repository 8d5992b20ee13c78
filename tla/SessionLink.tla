---------------------------- MODULE SessionLink ----------------------------
(***************************************************************************)
(* One browser client (apps/web/src/lib/client.ts) and the gateway         *)
(* sessions it opens (apps/realtime-gateway/src/server.ts, session.ts),    *)
(* over sockets that may break at any moment.                              *)
(*                                                                         *)
(* A socket has two ends that learn of its end separately: what was in     *)
(* flight when it broke may be lost from any point on, and each end reads  *)
(* what did arrive before it sees the close.  A session outlives its       *)
(* socket by the reconnect grace; the client keeps the session's id and    *)
(* resumes it from a snapshot.                                             *)
(***************************************************************************)
EXTENDS Naturals, Sequences, FiniteSets

CONSTANTS
    MaxSockets,   \* bound: sockets the client opens
    MaxSessions,  \* bound: sessions the gateway ever creates
    MaxOpened,    \* bound: sockets, sessions and commands together
    MaxTurns,     \* bound: turns of one session
    MaxCommands   \* bound: commands the user gives

ASSUME LinkAssumption == MaxSockets \in Nat /\ MaxSessions \in Nat

Sockets == 1..MaxSockets
Sessions == 1..MaxSessions

VARIABLES
    client,   \* its present socket and session (0 for none), what it shows
    wire,     \* of each socket: what travels up and down, and whether it is alive
    link,     \* the gateway's data of each socket
    sess      \* the sessions, "new" until they are created

linkVars == <<client, wire, link, sess>>

\* What a client shows of a session, and what a snapshot or an event tells it.
Shown(s) == [turn |-> sess[s].turn, dead |-> sess[s].phase = "stopped"]

NoWire == [up |-> <<>>, down |-> <<>>, alive |-> FALSE]
NoLink == [session |-> 0, start |-> "none", mine |-> 0, closed |-> FALSE]
NoSession == [phase |-> "new", started |-> FALSE, sink |-> 0, grace |-> FALSE,
              turn |-> 0, turns |-> 0]

LinkInit ==
    /\ client = [socket |-> 0, used |-> 0, session |-> 0, closed |-> FALSE,
                 sent |-> 0, view |-> [turn |-> 0, dead |-> FALSE]]
    /\ wire = [k \in Sockets |-> NoWire]
    /\ link = [k \in Sockets |-> NoLink]
    /\ sess = [s \in Sessions |-> NoSession]

Lives(s) == sess[s].phase = "live"
MayOpenAnother ==
    client.used + client.sent + Cardinality({s \in Sessions : sess[s].phase # "new"}) < MaxOpened

-----------------------------------------------------------------------------
(* Messages                                                                *)

Command(type, arg) == [type |-> type, arg |-> arg]
Event(type, of) == [type |-> type, of |-> of, shows |-> {}]
\* An event after which session s looks as given: kernel events and snapshots.
Showing(s, turn, dead) ==
    [type |-> "state", of |-> s, shows |-> {[turn |-> turn, dead |-> dead]}]

Up(w, k, c) == IF w[k].alive THEN [w EXCEPT ![k].up = Append(@, c)] ELSE w
\* The sink of a detached session is nobody's; a broken socket swallows.
emit(w, k, es) == IF k # 0 /\ w[k].alive THEN [w EXCEPT ![k].down = @ \o es] ELSE w

-----------------------------------------------------------------------------
(* The client                                                              *)

Hello == IF client.session = 0 THEN Command("start", 0) ELSE Command("attach", client.session)

connect ==
    /\ ~client.closed /\ client.socket = 0
    /\ client.used < MaxSockets /\ MayOpenAnother
    /\ LET k == client.used + 1
       IN  /\ client' = [client EXCEPT !.socket = k, !.used = k]
           /\ wire' = [wire EXCEPT ![k] = [up |-> <<Hello>>, down |-> <<>>, alive |-> TRUE]]
    /\ UNCHANGED <<link, sess>>

\* Every message names its session, a refusal the one it was asked about; a
\* client that is told its session is unknown asks for a new one.
onMessage ==
    LET k == client.socket
    IN  /\ k # 0 /\ wire[k].down # <<>>
        /\ LET e == Head(wire[k].down)
               read == [wire EXCEPT ![k].down = Tail(@)]
               forgotten == e.type = "unknown_session"
               known == IF client.session = 0 THEN e.of ELSE client.session
           IN  /\ client' = [client EXCEPT
                                !.session = IF forgotten THEN 0 ELSE known,
                                !.view = IF e.shows = {} THEN @ ELSE CHOOSE v \in e.shows : TRUE]
               /\ wire' = IF forgotten THEN Up(read, k, Command("start", 0)) ELSE read
        /\ UNCHANGED <<link, sess>>

onClose ==
    /\ client.socket # 0
    /\ ~wire[client.socket].alive /\ wire[client.socket].down = <<>>
    /\ client' = [client EXCEPT !.socket = 0]
    /\ UNCHANGED <<wire, link, sess>>

\* sendText, interruptTurn: a socket that is not open drops the command.
UserCommands ==
    /\ client.socket # 0 /\ client.sent < MaxCommands /\ MayOpenAnother
    /\ \E c \in {Command("text", 0), Command("interrupt", client.view.turn)} :
          wire' = Up(wire, client.socket, c)
    /\ client' = [client EXCEPT !.sent = @ + 1]
    /\ UNCHANGED <<link, sess>>

\* close(), and stopSession(), which sends session.stop first.
UserLeaves ==
    /\ ~client.closed
    /\ client' = [client EXCEPT !.closed = TRUE, !.socket = 0]
    /\ IF client.socket = 0
       THEN UNCHANGED wire
       ELSE \E stops \in BOOLEAN :
               LET k == client.socket
                   w == IF stops THEN Up(wire, k, Command("stop", 0)) ELSE wire
               IN  wire' = [w EXCEPT ![k].alive = FALSE, ![k].down = <<>>]
    /\ UNCHANGED <<link, sess>>

\* The network: a socket breaks, and a suffix of what is in flight is lost.
Breaks(k) ==
    /\ wire[k].alive
    /\ \E u \in 0..Len(wire[k].up), d \in 0..Len(wire[k].down) :
          wire' = [wire EXCEPT ![k] = [up |-> SubSeq(@.up, 1, u),
                                       down |-> SubSeq(@.down, 1, d),
                                       alive |-> FALSE]]
    /\ UNCHANGED <<client, link, sess>>

-----------------------------------------------------------------------------
(* A session, as an operator on its record and one on the wires            *)

Stopped(r) == [r EXCEPT !.phase = "stopped", !.grace = FALSE, !.turn = 0]
LastWords(w, s) ==
    IF Lives(s) THEN emit(w, sess[s].sink, <<Showing(s, 0, TRUE)>>) ELSE w
stop(s) == /\ sess' = IF Lives(s) THEN [sess EXCEPT ![s] = Stopped(@)] ELSE sess
           /\ wire' = LastWords(wire, s)

Attached(r, k) == [r EXCEPT !.sink = k, !.grace = FALSE]

\* Mistake: the socket is forgotten and no grace is armed.
DetachedForGood(r, k) ==
    IF r.phase = "stopped" \/ r.sink # k THEN r ELSE [r EXCEPT !.sink = 0]
Detached(r, k) ==
    IF r.phase = "stopped" \/ r.sink # k THEN r
    ELSE [r EXCEPT !.sink = 0, !.grace = TRUE]

\* A turn begins by voice, by the agent, or typed; it ends of itself or interrupted.
InTurn(r, t) == [r EXCEPT !.turn = t, !.turns = IF t = 0 THEN @ ELSE @ + 1]
MayOpen(r) == r.phase = "live" /\ r.started /\ r.turns < MaxTurns

handleCommand(w, s, c) ==
    LET r == sess[s]
        says(es) == emit(w, r.sink, es)
        accepts(t) == /\ sess' = [sess EXCEPT ![s] = InTurn(@, t)]
                      /\ wire' = says(<<Event("accepted", s), Showing(s, t, FALSE)>>)
        refuses == /\ wire' = says(<<Event("rejected", s)>>)
                   /\ UNCHANGED sess
    IN  CASE c.type = "text" -> IF MayOpen(r) THEN accepts(r.turns + 1) ELSE refuses
          [] c.type = "interrupt" ->
                IF r.turn # 0 /\ r.turn = c.arg THEN accepts(0) ELSE refuses
          [] c.type = "stop" ->
                /\ sess' = IF Lives(s) THEN [sess EXCEPT ![s] = Stopped(@)] ELSE sess
                /\ wire' = LastWords(says(<<Event("accepted", s)>>), s)
          [] OTHER -> refuses

TurnStarts(s) ==
    /\ MayOpen(sess[s]) /\ sess[s].turn = 0
    /\ LET t == sess[s].turns + 1
       IN  /\ sess' = [sess EXCEPT ![s] = InTurn(@, t)]
           /\ wire' = emit(wire, sess[s].sink, <<Showing(s, t, FALSE)>>)
    /\ UNCHANGED <<client, link>>

TurnEnds(s) ==
    /\ sess[s].turn # 0
    /\ sess' = [sess EXCEPT ![s] = InTurn(@, 0)]
    /\ wire' = emit(wire, sess[s].sink, <<Showing(s, 0, FALSE)>>)
    /\ UNCHANGED <<client, link>>

\* end_call, a spent allowance, the session's ceiling, or the loop's end.
EndsItself(s) ==
    /\ Lives(s) /\ sess[s].started
    /\ stop(s)
    /\ UNCHANGED <<client, link>>

GraceFires(s) ==
    /\ sess[s].grace
    /\ stop(s)
    /\ UNCHANGED <<client, link>>

-----------------------------------------------------------------------------
(* The gateway's sockets                                                   *)

\* Mistake: the snapshot is emitted before the sink is replaced.
attachLate(w, s, k) ==
    /\ sess' = [sess EXCEPT ![s] = Attached(@, k)]
    /\ wire' = emit(w, sess[s].sink,
                    <<Event("accepted", s), Showing(s, Shown(s).turn, Shown(s).dead)>>)

\* The acceptance still goes to the route the session had.
attach(w, s, k) ==
    /\ sess' = [sess EXCEPT ![s] = Attached(@, k)]
    /\ wire' = emit(emit(w, sess[s].sink, <<Event("accepted", s)>>), k,
                    <<Showing(s, Shown(s).turn, Shown(s).dead)>>)

handleFirstCommand(w, k, c) ==
    CASE c.type = "start" ->
            /\ link' = [link EXCEPT ![k].start = "resolving"]
            /\ wire' = w /\ UNCHANGED sess
      [] c.type = "attach" /\ Lives(c.arg) ->
            /\ link' = [link EXCEPT ![k].session = c.arg]
            /\ attach(w, c.arg, k)
      [] c.type = "attach" /\ ~Lives(c.arg) ->
            /\ wire' = emit(w, k, <<Event("unknown_session", c.arg)>>)
            /\ UNCHANGED <<link, sess>>
      [] OTHER -> /\ wire' = emit(w, k, <<Event("rejected", 0)>>)
                  /\ UNCHANGED <<link, sess>>

message(k) ==
    /\ ~link[k].closed /\ wire[k].up # <<>>
    /\ LET c == Head(wire[k].up)
           w == [wire EXCEPT ![k].up = Tail(@)]
       IN  IF link[k].start # "none"
           THEN /\ wire' = emit(w, k, <<Event("rejected", 0)>>)
                /\ UNCHANGED <<link, sess>>
           ELSE IF link[k].session # 0
           THEN handleCommand(w, link[k].session, c) /\ UNCHANGED link
           ELSE handleFirstCommand(w, k, c)
    /\ UNCHANGED client

\* The close of a socket is seen after what arrived on it.
close(k) ==
    /\ k <= client.used /\ ~link[k].closed
    /\ ~wire[k].alive /\ wire[k].up = <<>>
    /\ link' = [link EXCEPT ![k].closed = TRUE, ![k].session = 0]
    /\ sess' = IF link[k].session = 0 THEN sess
               ELSE [sess EXCEPT ![link[k].session] = Detached(@, k)]
    /\ UNCHANGED <<client, wire>>

\* The agent is resolved: the start is given up, refused, or makes a session;
\* one that negotiates media tells the client its id at once.
Resolved(k) ==
    /\ link[k].start = "resolving"
    /\ UNCHANGED client
    /\ \/ /\ ~link[k].closed /\ MayOpenAnother
          /\ \E s \in Sessions :
                /\ sess[s].phase = "new" /\ \A r \in 1..(s - 1) : sess[r].phase # "new"
                /\ link' = [link EXCEPT ![k].start = "starting", ![k].session = s, ![k].mine = s]
                /\ sess' = [sess EXCEPT ![s].phase = "live", ![s].sink = k]
                /\ \E media \in BOOLEAN :
                      wire' = emit(wire, k, IF media THEN <<Event("media.config", s)>> ELSE <<>>)
       \/ /\ link' = [link EXCEPT ![k].start = "none", ![k].mine = 0]
          /\ wire' = IF link[k].closed THEN wire ELSE emit(wire, k, <<Event("rejected", 0)>>)
          /\ UNCHANGED sess

\* session.start() returned: a socket that closed meanwhile takes the session
\* with it, whoever has attached to it since.
Started(k) ==
    /\ link[k].start = "starting"
    /\ LET s == link[k].mine
       IN  IF link[k].closed
           THEN /\ stop(s)
                /\ link' = [link EXCEPT ![k].start = "none", ![k].session = 0, ![k].mine = 0]
           ELSE /\ sess' = [sess EXCEPT ![s].started = Lives(s)]
                /\ wire' = emit(wire, sess[s].sink, <<Event("accepted", s),
                                Showing(s, Shown(s).turn, Shown(s).dead)>>)
                /\ link' = [link EXCEPT ![k].start = "none", ![k].mine = 0]
    /\ UNCHANGED client

StartFails(k) ==
    /\ link[k].start = "starting"
    /\ LET s == link[k].mine
       IN  /\ sess' = IF Lives(s) THEN [sess EXCEPT ![s] = Stopped(@)] ELSE sess
           /\ wire' = LastWords(emit(wire, sess[s].sink, <<Event("rejected", s)>>), s)
    /\ link' = [link EXCEPT ![k].start = "none", ![k].session = 0, ![k].mine = 0]
    /\ UNCHANGED client

-----------------------------------------------------------------------------
LinkNext ==
    \/ connect \/ onMessage \/ onClose \/ UserCommands \/ UserLeaves
    \/ \E k \in Sockets : Breaks(k) \/ message(k) \/ close(k)
                          \/ Resolved(k) \/ Started(k) \/ StartFails(k)
    \/ \E s \in Sessions : TurnStarts(s) \/ TurnEnds(s) \/ EndsItself(s) \/ GraceFires(s)

\* Events are handled and timers fire; neither the network, nor the user, nor a
\* start that waits for an engine is asked to do anything.
LinkFairness ==
    /\ \A k \in Sockets : WF_linkVars(message(k)) /\ WF_linkVars(close(k))
    /\ \A s \in Sessions : WF_linkVars(GraceFires(s))

LinkSpec == LinkInit /\ [][LinkNext]_linkVars /\ LinkFairness

-----------------------------------------------------------------------------
(* Properties                                                              *)

\* A live session has a listener or a running grace timer, never both: nothing
\* attached is ended by an old timer, nothing abandoned is kept.
GraceIffDetached == \A s \in Sessions : Lives(s) => (sess[s].sink = 0 <=> sess[s].grace)

\* A client on the session's route shows the session as it is once nothing is in
\* flight, however many sockets it went through.  (An attach of an older socket
\* that arrives after the newer one's takes the route back; see the README.)
CaughtUp ==
    \A k \in Sockets, s \in Sessions :
        /\ client.socket = k /\ link[k].session = s /\ sess[s].sink = k
        /\ wire[k].alive /\ wire[k].down = <<>> /\ link[k].start = "none"
        => client.session = s /\ client.view = Shown(s)

\* A session its client has left or forgotten ends, even if its own start never
\* returns: whoever goes away leaves no session behind.
ForgottenSessionEnds ==
    \A s \in Sessions :
        (Lives(s) /\ (client.closed \/ client.session \notin {0, s})) ~> ~Lives(s)

\* session.ts:277-281: a session outlives its socket, and a dropped connection
\* resumes with a snapshot "instead of a dead conversation".
AttachedSessionLives ==
    [][\A k \in Sockets :
          Started(k) /\ link[k].closed => sess[link[k].mine].sink = 0]_linkVars
=============================================================================
