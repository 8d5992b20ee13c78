---------------------------- MODULE MCEndpoints ----------------------------
(***************************************************************************)
(* The ways in from outside the gateway's own protocol for TLC: one        *)
(* connection of the OpenAI realtime dialect, the rooms of the LiveKit     *)
(* transport, and the reply audio of one room.  A behaviour is of one      *)
(* side, the others stay where they began; no step of one reads another.   *)
(***************************************************************************)
EXTENDS RealtimeEndpoint, LiveKitRoom, LiveKitAudio

VARIABLE side

\* Two requests of one owner and one of another.
MCRooms == 1..3
MCOwnerOf == [r \in MCRooms |-> IF r = 3 THEN "b" ELSE "a"]

Init == side \in {"realtime", "room", "audio"} /\ RealtimeInit /\ RoomInit /\ AudioInit

Next == /\ UNCHANGED side
        /\ \/ side = "realtime" /\ RealtimeNext /\ UNCHANGED <<roomVars, audioVars>>
           \/ side = "room" /\ RoomNext /\ UNCHANGED <<realtimeVars, audioVars>>
           \/ side = "audio" /\ AudioNext /\ UNCHANGED <<realtimeVars, roomVars>>

\* A side that stays where it began has no fair step enabled.
Spec == /\ Init /\ [][Next]_<<side, realtimeVars, roomVars, audioVars>>
        /\ RealtimeFairness /\ RoomFairness /\ AudioFairness

\* Nobody outside keeps anything waiting: a connection's calls and its end settle, a room
\* whose browser never comes closes, and whoever waits for a reply's playout hears of it.
EndpointsSettle == ConnectionSettles /\ AbandonedRoomCloses /\ PlayoutAnswers
=============================================================================
