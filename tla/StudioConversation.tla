------------------------- MODULE StudioConversation -------------------------
(***************************************************************************)
(* The browser's conversations (apps/web/src/conversation.ts) over the     *)
(* LiveKit client (apps/web/src/lib/livekit-client.ts) or, where LiveKit   *)
(* is missing or cannot be reached, over the socket client.                *)
(*                                                                         *)
(* start() and stop() of one controller are two runs of awaits that        *)
(* interleave with each other and with those of the next controller; the   *)
(* module variable `current` says whose the studio's one conversation is,  *)
(* and the store's `active` what the panels show.                          *)
(***************************************************************************)
EXTENDS Naturals, FiniteSets

CONSTANT MaxConversations   \* bound: controllers made

ASSUME ConversationsAssumption == MaxConversations \in Nat \ {0}

Controllers == 1..MaxConversations
Nobody == 0

VARIABLES
    convs,      \* the controllers: how far start() is, and what they hold
    stopping,   \* the runs of stop() of each: the user's and the failed start's
    current,    \* whose the studio's conversation is
    made,       \* controllers made
    shown       \* store.active: the panels show a conversation and its End button

studioVars == <<convs, stopping, current, made, shown>>

\* Where start() waits: in connect(), the LiveKit client's, or for the devices.
Connecting == {"bootstrap", "room", "capture", "publish"}
Starting == Connecting \union {"mic", "speaker"}

NewConversation ==
    [at |-> "new", stopped |-> FALSE, client |-> "none",
     closed |-> FALSE,   \* the LiveKit client's flag
     joined |-> FALSE,   \* its room may tell of its end
     told |-> FALSE,     \* ... did, and onDisconnected is due
     track |-> FALSE, mic |-> FALSE, speaker |-> FALSE, socket |-> FALSE]
NoStop == [user |-> "none", start |-> "none"]

StudioInit ==
    /\ convs = [c \in Controllers |-> NewConversation]
    /\ stopping = [c \in Controllers |-> NoStop]
    /\ current = Nobody /\ made = 0 /\ shown = FALSE

-----------------------------------------------------------------------------
(* stop(): what it does before its first await, and its awaits             *)

\* Both clients end their capture at once: LiveKit stops its track, the socket
\* client is closed.
Halted(r) ==
    [r EXCEPT !.stopped = TRUE, !.client = "none", !.socket = FALSE,
              !.track = IF r.client = "livekit" THEN FALSE ELSE @]

\* One run of stop() of controller c begins, after start() came to cs.
StopBegins(cs, c, by) ==
    /\ convs' = [cs EXCEPT ![c] = Halted(@)]
    /\ stopping' = [stopping EXCEPT ![c][by] = "client"]

\* stopConversation(): whoever is current.
stopConversation(cs) ==
    /\ current' = Nobody
    /\ IF current = Nobody THEN convs' = cs /\ UNCHANGED stopping
       ELSE StopBegins(cs, current, "user")

\* stopSession() has told the gateway, or waited 250 ms, and closes the client (a
\* failed start has none left to close); the microphone's tracks go with the call
\* of its stop().
ClientStopped(c, by) ==
    /\ stopping[c][by] = "client"
    /\ stopping' = [stopping EXCEPT ![c][by] = "mic"]
    /\ convs' = [convs EXCEPT ![c].closed = @ \/ by = "user",
                              ![c].track = @ /\ by # "user", ![c].mic = FALSE]
    /\ UNCHANGED <<current, made, shown>>

MicStopped(c, by) ==
    /\ stopping[c][by] = "mic"
    /\ stopping' = [stopping EXCEPT ![c][by] = "speaker"]
    /\ convs' = [convs EXCEPT ![c].speaker = FALSE]
    /\ UNCHANGED <<current, made, shown>>

\* resetSession(): the store is everyone's.
SpeakerClosed(c, by) ==
    /\ stopping[c][by] = "speaker"
    /\ stopping' = [stopping EXCEPT ![c][by] = "done"]
    /\ shown' = FALSE
    /\ UNCHANGED <<convs, current, made>>

-----------------------------------------------------------------------------
(* start()                                                                 *)

\* startConversation(): refused while another is current; the panels offer it
\* while none is shown.  LiveKit is tried where it is prepared.
startConversation(client) ==
    /\ ~shown /\ current = Nobody /\ made < MaxConversations
    /\ made' = made + 1 /\ current' = made'
    /\ convs' = [convs EXCEPT ![made'].at = IF client = "livekit" THEN "bootstrap" ELSE "mic",
                              ![made'].client = client]
    /\ UNCHANGED <<stopping, shown>>

\* Mistake: a start that failed late gives up the place of the conversation that
\* came after it.
FailsForAll(cs, c) ==
    /\ current' = Nobody
    /\ StopBegins([cs EXCEPT ![c].at = "over"], c, "start")
    /\ UNCHANGED <<made, shown>>

\* start() throws: the controller gives up its own place, if it still has it, and
\* stops once more.
Fails(cs, c) ==
    /\ current' = IF current = c THEN Nobody ELSE current
    /\ StopBegins([cs EXCEPT ![c].at = "over"], c, "start")
    /\ UNCHANGED <<made, shown>>

After(at) ==
    CASE at = "bootstrap" -> "room" [] at = "room" -> "capture"
      [] at = "capture" -> "publish" [] at = "publish" -> "connected"

\* An await of connect() comes back: a client that was closed meanwhile gives up,
\* and lets go of a track it was just given.
ConnectGoesOn(c) ==
    /\ convs[c].at \in Connecting
    /\ IF convs[c].closed THEN Fails([convs EXCEPT ![c].client = "none"], c)
       ELSE /\ convs' = [convs EXCEPT ![c].at = After(@),
                                      ![c].joined = @ \/ convs[c].at = "bootstrap",
                                      ![c].track = @ \/ convs[c].at = "capture"]
            /\ UNCHANGED <<stopping, current, made, shown>>

\* It is rejected: connect() closes the client and throws.
ConnectRejects(c, fallback) ==
    /\ convs[c].at \in Connecting
    /\ fallback => convs[c].at \in {"bootstrap", "room"}
    /\ convs' = [convs EXCEPT ![c].closed = TRUE, ![c].track = FALSE,
                              ![c].at = IF fallback THEN "giveWay" ELSE "refused"]
    /\ UNCHANGED <<stopping, current, made, shown>>

\* The close is awaited too.  A failure of the service or of the room makes way
\* for the socket, unless the conversation was stopped.
GivesUpLiveKit(c) ==
    /\ convs[c].at \in {"giveWay", "refused"}
    /\ LET left == [convs EXCEPT ![c].client = "none"]
       IN IF convs[c].at = "refused" \/ convs[c].stopped THEN Fails(left, c)
          ELSE /\ convs' = [left EXCEPT ![c].at = "mic", ![c].client = "socket"]
               /\ UNCHANGED <<stopping, current, made, shown>>

\* connect() has returned.
ConnectReturns(c) ==
    /\ convs[c].at = "connected"
    /\ IF convs[c].stopped THEN Fails([convs EXCEPT ![c].client = "none"], c)
       ELSE /\ convs' = [convs EXCEPT ![c].at = "live"]
            /\ shown' = TRUE
            /\ UNCHANGED <<stopping, current, made>>

\* Mistake: a microphone that comes after the stop is taken into use.
MicReadyAnyway(c) ==
    /\ convs[c].at = "mic"
    /\ convs' = [convs EXCEPT ![c].at = "speaker", ![c].mic = TRUE, ![c].speaker = TRUE]
    /\ UNCHANGED <<stopping, current, made, shown>>

\* The microphone is opened first, then the speaker; a stop meanwhile lets go of
\* what was just opened.
MicReady(c) ==
    /\ convs[c].at = "mic"
    /\ IF convs[c].stopped THEN Fails(convs, c)
       ELSE /\ convs' = [convs EXCEPT ![c].at = "speaker", ![c].mic = TRUE, ![c].speaker = TRUE]
            /\ UNCHANGED <<stopping, current, made, shown>>

SpeakerReady(c) ==
    /\ convs[c].at = "speaker"
    /\ IF convs[c].stopped THEN Fails([convs EXCEPT ![c].speaker = FALSE], c)
       ELSE /\ convs' = [convs EXCEPT ![c].at = "live", ![c].socket = TRUE]
            /\ shown' = TRUE
            /\ UNCHANGED <<stopping, current, made>>

DeviceFails(c) == convs[c].at \in {"mic", "speaker"} /\ Fails(convs, c)

-----------------------------------------------------------------------------
(* The user, the room and the gateway                                      *)

\* The End button of a shown conversation, or a panel that closes while its
\* preview starts.
UserStops ==
    /\ shown \/ current # Nobody
    /\ stopConversation(convs)
    /\ UNCHANGED <<made, shown>>

\* The room ends or its agent leaves, before connect() is done or after: the
\* client closes itself and then tells the conversation.
RoomEnds(c) ==
    /\ convs[c].joined /\ ~convs[c].closed
    /\ convs' = [convs EXCEPT ![c].closed = TRUE, ![c].track = FALSE, ![c].told = TRUE]
    /\ UNCHANGED <<stopping, current, made, shown>>

\* onDisconnected.
Disconnected(c) ==
    /\ convs[c].told
    /\ LET heard == [convs EXCEPT ![c].told = FALSE]
       IN IF convs[c].stopped THEN convs' = heard /\ UNCHANGED <<stopping, current>>
          ELSE stopConversation(heard)
    /\ UNCHANGED <<made, shown>>

\* The gateway ends the session: end_call, or a limit.
HungUp(c) ==
    /\ convs[c].at \in {"publish", "connected", "live"}
    /\ convs[c].socket \/ (convs[c].joined /\ ~convs[c].closed)
    /\ stopConversation(convs)
    /\ UNCHANGED <<made, shown>>

-----------------------------------------------------------------------------
StartSteps(c) ==
    \/ ConnectGoesOn(c) \/ ConnectRejects(c, TRUE) \/ ConnectRejects(c, FALSE)
    \/ GivesUpLiveKit(c) \/ ConnectReturns(c) \/ MicReady(c) \/ SpeakerReady(c) \/ DeviceFails(c)
StopSteps(c, by) == ClientStopped(c, by) \/ MicStopped(c, by) \/ SpeakerClosed(c, by)

StudioNext ==
    \/ \E client \in {"livekit", "socket"} : startConversation(client)
    \/ UserStops
    \/ \E c \in Controllers :
         \/ StartSteps(c)
         \/ \E by \in {"user", "start"} : StopSteps(c, by)
         \/ RoomEnds(c) \/ Disconnected(c) \/ HungUp(c)

\* A stop() runs to its end: no step of it waits for anything but the browser.  A
\* start may wait for ever for the user's permission.
StudioFairness ==
    \A c \in Controllers : \A by \in {"user", "start"} : WF_studioVars(StopSteps(c, by))

StudioSpec == StudioInit /\ [][StudioNext]_studioVars /\ StudioFairness

-----------------------------------------------------------------------------
(* Properties                                                              *)

Phases == {"none", "client", "mic", "speaker", "done"}
StudioTypeOK ==
    /\ current \in Controllers \union {Nobody} /\ made \in 0..MaxConversations
    /\ shown \in BOOLEAN
    /\ \A c \in Controllers :
         /\ convs[c].at \in Starting \union {"new", "giveWay", "refused", "connected", "live", "over"}
         /\ convs[c].client \in {"none", "livekit", "socket"}
         /\ stopping[c] \in [user : Phases, start : Phases]

Holds(c) == convs[c].track \/ convs[c].mic \/ convs[c].speaker \/ convs[c].socket

\* Whoever listens can be told to stop: a conversation that was not stopped and
\* goes on, starting or live, is the studio's current one, whatever starts and
\* stops of others end after it began.
NoneIsForgotten ==
    \A c \in Controllers :
        convs[c].at \notin {"new", "over"} /\ ~convs[c].stopped => current = c

\* A stopped conversation lets go of microphone, speaker and socket for good,
\* wherever its start was and whatever its start is given later.
StopReleases == \A c \in Controllers : convs[c].stopped ~> []~Holds(c)

\* conversation.ts:443-445: a cancelled start that ends late leaves the newer
\* conversation alone.  Refuted: its stop() resets the store, and the panels offer
\* no End button for a conversation that listens.
LiveIsShown ==
    \A c \in Controllers : convs[c].at = "live" /\ ~convs[c].stopped => shown
=============================================================================
