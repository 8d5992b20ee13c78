-------------------------- MODULE RealtimeEndpoint --------------------------
(***************************************************************************)
(* One connection of the OpenAI realtime dialect                           *)
(* (apps/realtime-gateway/src/openai-realtime.ts): a translator between    *)
(* the client's socket and a gateway session that it starts on the first   *)
(* audio and that ends with the socket.                                    *)
(*                                                                         *)
(* A function the client declared is a tool of the conversation: its       *)
(* handler waits for the client's answer in the one slot pendingCall,      *)
(* beside a timer and the abort signal of the dispatch that called it.     *)
(* The session is modelled by what it does to the connection: its turns    *)
(* are those of ConversationLoop, and its output is of the turn it has.    *)
(***************************************************************************)
EXTENDS Naturals

CONSTANTS
    MaxCalls,     \* bound: function calls of one connection
    MaxReplies    \* bound: turns of its session

ASSUME RealtimeAssumption == MaxCalls \in Nat /\ MaxReplies \in Nat

Calls == 1..MaxCalls
NoCall == 0
NoReply == 0

VARIABLES
    wsocket,     \* "open", "closing" (ws.close was called) or "closed"
    starting,    \* the lazy start: "no", "pending", or "settled"
    watched,     \* the end of the session closes the socket
    hosted,      \* the session: "none", "live", "stopped" or "done"
    reply,       \* its turns: the newest one's number and whether it is open
    envelope,    \* the turn the open response is of
    pendingCall, \* the call that waits for its output
    fcall,       \* each call: whether it waits, how it was settled, its timer
    expectResponseCreate

realtimeVars == <<wsocket, starting, watched, hosted, reply, envelope, pendingCall, fcall,
                  expectResponseCreate>>

\* by: the call the settling answer named, or whose timer it was.
NewCall == [at |-> "unused", how |-> "none", by |-> NoCall, timer |-> "off"]

RealtimeInit ==
    /\ wsocket = "open" /\ starting = "no" /\ watched = FALSE
    /\ hosted = "none"
    /\ reply = [id |-> NoReply, open |-> FALSE]
    /\ envelope = NoReply /\ pendingCall = NoCall
    /\ fcall = [c \in Calls |-> NewCall]
    /\ expectResponseCreate = FALSE

-----------------------------------------------------------------------------
(* The slot                                                                *)

\* Mistake: the timer of a call that was answered goes on.
settlePendingCallTimed(how, by) ==
    /\ pendingCall' = NoCall
    /\ fcall' = IF pendingCall = NoCall THEN fcall
                ELSE [fcall EXCEPT ![pendingCall] = [@ EXCEPT !.at = "settled", !.how = how, !.by = by]]

\* Whatever waits in the slot gets this result; its timer is cleared.
settlePendingCall(how, by) ==
    /\ pendingCall' = NoCall
    /\ fcall' = IF pendingCall = NoCall THEN fcall
                ELSE [fcall EXCEPT ![pendingCall] =
                         [at |-> "settled", how |-> how, by |-> by, timer |-> "off"]]

Keeps == UNCHANGED <<pendingCall, fcall>>

\* closeResponse: the envelope of a turn that is over or superseded.
closeResponse == envelope' = NoReply

\* stop(): the kernel closes, the turn is aborted and interrupted.
StopsHosted ==
    /\ hosted' = IF hosted = "live" THEN "stopped" ELSE hosted
    /\ reply' = [reply EXCEPT !.open = FALSE]
    /\ closeResponse

ClosesSocket == wsocket' = IF wsocket = "open" THEN "closing" ELSE wsocket

-----------------------------------------------------------------------------
(* Client events                                                           *)

\* The first audio starts the session; one that is refused ends the socket.
ensureStarted ==
    /\ wsocket # "closed" /\ starting = "no"
    /\ \/ starting' = "pending" /\ hosted' = "live" /\ UNCHANGED wsocket
       \/ starting' = "settled" /\ ClosesSocket /\ UNCHANGED hosted
    /\ UNCHANGED <<watched, reply, envelope, expectResponseCreate>> /\ Keeps

\* An output for a call the client was told of: only the one that waits is heard.
handleItemCreate(c) ==
    /\ wsocket # "closed" /\ starting # "pending" /\ fcall[c].at # "unused"
    /\ IF pendingCall = c
       THEN settlePendingCall("answer", c) /\ expectResponseCreate' = TRUE
       ELSE Keeps /\ UNCHANGED expectResponseCreate
    /\ UNCHANGED <<wsocket, starting, watched, hosted, reply, envelope>>

\* response.create: the continuation after an output, or refused.
ResponseCreate ==
    /\ wsocket # "closed" /\ expectResponseCreate
    /\ expectResponseCreate' = FALSE
    /\ UNCHANGED <<wsocket, starting, watched, hosted, reply, envelope>> /\ Keeps

\* The turn's signal fires first, and then its end is announced.
Interrupts(stays) ==
    /\ settlePendingCall("abort", NoCall)
    /\ reply' = [reply EXCEPT !.open = stays]
    /\ closeResponse

\* response.cancel is a turn.interrupt of the tracked turn.
ResponseCancel ==
    /\ wsocket # "closed" /\ hosted = "live" /\ reply.open
    /\ Interrupts(FALSE)
    /\ UNCHANGED <<wsocket, starting, watched, hosted, expectResponseCreate>>

\* Mistake: the socket's end is not the session's.
handleCloseDetached ==
    /\ wsocket # "closed"
    /\ wsocket' = "closed"
    /\ settlePendingCall("close", NoCall)
    /\ UNCHANGED <<starting, watched, hosted, reply, envelope, expectResponseCreate>>

handleClose ==
    /\ wsocket # "closed"
    /\ wsocket' = "closed"
    /\ settlePendingCall("close", NoCall)
    /\ StopsHosted
    /\ UNCHANGED <<starting, watched, expectResponseCreate>>

-----------------------------------------------------------------------------
(* The session                                                             *)

\* start() settles: from now on the session's end is watched, or it has failed.
StartSettles ==
    /\ starting = "pending"
    /\ starting' = "settled"
    /\ \/ watched' = TRUE /\ UNCHANGED <<wsocket, hosted, reply, envelope>>
       \/ StopsHosted /\ ClosesSocket /\ UNCHANGED watched
    /\ UNCHANGED expectResponseCreate /\ Keeps

TurnStarts ==
    /\ hosted = "live" /\ starting = "settled" /\ ~reply.open /\ reply.id < MaxReplies
    /\ reply' = [id |-> reply.id + 1, open |-> TRUE]
    /\ UNCHANGED <<wsocket, starting, watched, hosted, envelope, expectResponseCreate>> /\ Keeps

\* A delta or a piece of audio opens a response where none is.
ensureResponse ==
    /\ reply.open /\ envelope = NoReply
    /\ envelope' = reply.id
    /\ UNCHANGED <<wsocket, starting, watched, hosted, reply, expectResponseCreate>> /\ Keeps

\* Mistake: a call waits for its client alone.
dispatchFunctionCallPatient(c) ==
    /\ reply.open /\ \A d \in Calls : fcall[d].at # "waiting"
    /\ fcall[c].at = "unused" /\ \A d \in 1..(c - 1) : fcall[d].at # "unused"
    /\ pendingCall' = c
    /\ fcall' = [fcall EXCEPT ![c] = [NewCall EXCEPT !.at = "waiting"]]
    /\ closeResponse
    /\ UNCHANGED <<wsocket, starting, watched, hosted, reply, expectResponseCreate>>

\* The dispatch of the turn calls one function at a time; the call is the
\* response, which ends with it.
dispatchFunctionCall(c) ==
    /\ reply.open /\ \A d \in Calls : fcall[d].at # "waiting"
    /\ fcall[c].at = "unused" /\ \A d \in 1..(c - 1) : fcall[d].at # "unused"
    /\ pendingCall' = c
    /\ fcall' = [fcall EXCEPT ![c] = [NewCall EXCEPT !.at = "waiting", !.timer = "armed"]]
    /\ closeResponse
    /\ UNCHANGED <<wsocket, starting, watched, hosted, reply, expectResponseCreate>>

\* functionCallTimeoutMs: whatever waits in the slot is settled.
CallTimesOut(c) ==
    /\ fcall[c].timer = "armed"
    /\ settlePendingCall("timeout", c)
    /\ UNCHANGED <<wsocket, starting, watched, hosted, reply, envelope, expectResponseCreate>>

TurnCompletes ==
    /\ reply.open /\ \A c \in Calls : fcall[c].at # "waiting"
    /\ reply' = [reply EXCEPT !.open = FALSE] /\ closeResponse
    /\ UNCHANGED <<wsocket, starting, watched, hosted, expectResponseCreate>> /\ Keeps

\* turn.interrupted and turn.reopened: the next revision speaks anew.
TurnAborted ==
    /\ reply.open
    /\ \E reopened \in BOOLEAN : Interrupts(reopened)
    /\ UNCHANGED <<wsocket, starting, watched, hosted, expectResponseCreate>>

\* end_call, the ceiling, a spent allowance, a failed loop, the gateway's end.
SessionStops ==
    /\ hosted = "live"
    /\ settlePendingCall("abort", NoCall)
    /\ StopsHosted
    /\ UNCHANGED <<wsocket, starting, watched, expectResponseCreate>>

\* The conversation's work has settled.
SessionDone ==
    /\ hosted = "stopped" /\ \A c \in Calls : fcall[c].at # "waiting"
    /\ hosted' = "done"
    /\ UNCHANGED <<wsocket, starting, watched, reply, envelope, expectResponseCreate>> /\ Keeps

\* done.finally
EndsSocket ==
    /\ watched /\ hosted = "done" /\ wsocket = "open"
    /\ ClosesSocket
    /\ UNCHANGED <<starting, watched, hosted, reply, envelope, expectResponseCreate>> /\ Keeps

-----------------------------------------------------------------------------
RealtimeNext ==
    \/ ensureStarted \/ ResponseCreate \/ ResponseCancel \/ handleClose
    \/ StartSettles \/ TurnStarts \/ ensureResponse \/ TurnCompletes \/ TurnAborted
    \/ SessionStops \/ SessionDone \/ EndsSocket
    \/ \E c \in Calls : handleItemCreate(c) \/ dispatchFunctionCall(c) \/ CallTimesOut(c)

\* Timers fire, work settles, a socket that was closed closes; neither the
\* client nor a start has to do anything.
RealtimeFairness ==
    /\ \A c \in Calls : WF_realtimeVars(CallTimesOut(c))
    /\ WF_realtimeVars(SessionDone) /\ WF_realtimeVars(EndsSocket)
    /\ WF_realtimeVars(wsocket = "closing" /\ handleClose)

-----------------------------------------------------------------------------
(* Properties                                                              *)

RealtimeTypeOK ==
    /\ wsocket \in {"open", "closing", "closed"} /\ starting \in {"no", "pending", "settled"}
    /\ watched \in BOOLEAN /\ expectResponseCreate \in BOOLEAN
    /\ hosted \in {"none", "live", "stopped", "done"}
    /\ reply \in [id : 0..MaxReplies, open : BOOLEAN]
    /\ envelope \in 0..MaxReplies /\ pendingCall \in Calls \union {NoCall}
    /\ fcall \in [Calls -> [at : {"unused", "waiting", "settled"},
                            how : {"none", "answer", "timeout", "abort", "close"},
                            by : Calls \union {NoCall}, timer : {"off", "armed"}]]

\* A waiting function call is the one in the slot, so it can be answered; what
\* settled a call was its own answer or its own deadline, never another call's.
AnswersAreOwn ==
    \A c \in Calls :
        /\ fcall[c].at = "waiting" <=> pendingCall = c
        /\ fcall[c].how \in {"answer", "timeout"} => fcall[c].by = c

\* docs/openai-realtime-adapter.md, decision 5: a client that never answers does
\* not hang the turn; every call returns to the model.
CallsReturn == \A c \in Calls : fcall[c].at = "waiting" ~> fcall[c].at = "settled"

\* Neither end survives the other: the end of the socket stops the session, and a
\* session that was started ends the socket, however either comes about.
EndpointEnds ==
    /\ wsocket = "closed" ~> hosted \in {"none", "done"}
    /\ hosted = "done" /\ starting = "settled" ~> wsocket = "closed"

\* Whatever is under way over a connection comes to its end.
ConnectionSettles == CallsReturn /\ EndpointEnds
=============================================================================
