---------------------------- MODULE LiveKitRoom ----------------------------
(***************************************************************************)
(* The rooms of the LiveKit transport, from the token a browser asks for   *)
(* (apps/realtime-gateway/src/server.ts, livekit-bootstrap.ts) to the      *)
(* session behind its microphone and the end of both                       *)
(* (livekit-agent-adapter.ts).                                             *)
(*                                                                         *)
(* A request holds two reservations before it has a room: one of the       *)
(* gateway, given back when its browser arrives or is not expected any     *)
(* more, and one of the adapter, which the room replaces.  A browser knows *)
(* its room only once the request is granted.                              *)
(***************************************************************************)
EXTENDS Naturals, FiniteSets

CONSTANTS
    Rooms,               \* one for each request
    OwnerOf,             \* whose request it is
    MaxPending,          \* maxPendingLiveKit
    MaxPendingPerOwner,
    MaxRooms,            \* the adapter's limits
    MaxRoomsPerOwner

ASSUME RoomAssumption ==
    /\ IsFiniteSet(Rooms)
    /\ \A limit \in {MaxPending, MaxPendingPerOwner, MaxRooms, MaxRoomsPerOwner} : limit \in Nat \ {0}

VARIABLES
    grant,     \* each request: "none", "issuing", "accepting", "granted" or "refused"
    pending,   \* requests that hold the gateway's reservation
    ttl,       \* those whose release timer is armed
    room,      \* "none", "reserved", "signing", "connecting", "joined" or "closed"
    expiry,    \* rooms whose expiry timer is armed
    guest,     \* the session of a room: "none", "starting", "refusing", "live" or "stopped"
    adapter    \* "open" or "closing"

roomVars == <<grant, pending, ttl, room, expiry, guest, adapter>>

RoomInit ==
    /\ grant = [r \in Rooms |-> "none"] /\ room = [r \in Rooms |-> "none"]
    /\ guest = [r \in Rooms |-> "none"]
    /\ pending = {} /\ ttl = {} /\ expiry = {}
    /\ adapter = "open"

-----------------------------------------------------------------------------
OwnedBy(S, r) == {q \in S : OwnerOf[q] = OwnerOf[r]}

\* Rooms and reservations count together.
Registered == {r \in Rooms : room[r] \in {"reserved", "connecting", "joined"}}

Grants(r, g) == grant' = [grant EXCEPT ![r] = g]

\* release(): the timer and the gateway's reservation, once.
Releases(R) == pending' = pending \ R /\ ttl' = ttl \ R

KeepsReservations == UNCHANGED <<pending, ttl>>

\* Mistake: onClosed is forgotten.
closeContextHolding(R) ==
    /\ room' = [r \in Rooms |-> IF r \in R THEN "closed" ELSE room[r]]
    /\ guest' = [r \in Rooms |-> IF r \in R /\ guest[r] = "live" THEN "stopped" ELSE guest[r]]
    /\ expiry' = expiry \ R
    /\ KeepsReservations

\* A room closes once: its reservation goes back, its timer is cleared, and the
\* session it has got is stopped.  One that still starts is not known here.
closeContext(R) ==
    /\ room' = [r \in Rooms |-> IF r \in R THEN "closed" ELSE room[r]]
    /\ guest' = [r \in Rooms |-> IF r \in R /\ guest[r] = "live" THEN "stopped" ELSE guest[r]]
    /\ expiry' = expiry \ R
    /\ Releases(R)

-----------------------------------------------------------------------------
(* The token request                                                       *)

reserveLiveKit(r) ==
    /\ grant[r] = "none"
    /\ \/ /\ Cardinality(pending) < MaxPending
          /\ Cardinality(OwnedBy(pending, r)) < MaxPendingPerOwner
          /\ pending' = pending \union {r}
          /\ Grants(r, "issuing")
       \/ Grants(r, "refused") /\ UNCHANGED pending     \* the limits, or maxSessions
    /\ UNCHANGED <<ttl, room, expiry, guest, adapter>>

AdapterIsFull(r) == \/ Cardinality(Registered) >= MaxRooms
                    \/ Cardinality(OwnedBy(Registered, r)) >= MaxRoomsPerOwner

\* The browser's token is issued; accept() checks and reserves without an await.
Issued(r) ==
    /\ grant[r] = "issuing"
    /\ IF adapter = "closing" \/ AdapterIsFull(r)
       THEN Grants(r, "refused") /\ Releases({r}) /\ UNCHANGED room
       ELSE /\ Grants(r, "accepting")
            /\ ttl' = ttl \union {r}
            /\ room' = [room EXCEPT ![r] = "reserved"]
            /\ UNCHANGED pending
    /\ UNCHANGED <<expiry, guest, adapter>>

IssueFails(r) ==
    /\ grant[r] = "issuing"
    /\ Grants(r, "refused") /\ Releases({r})
    /\ UNCHANGED <<room, expiry, guest, adapter>>

\* The agent's token is signed, or could not be: the room takes the place of
\* its reservation.
Signed(r) ==
    /\ room[r] \in {"reserved", "signing"}
    /\ \/ /\ adapter = "open" /\ room' = [room EXCEPT ![r] = "connecting"]
          /\ KeepsReservations /\ UNCHANGED grant
       \/ /\ room' = [room EXCEPT ![r] = "closed"]
          /\ Releases({r}) /\ Grants(r, "refused")
    /\ UNCHANGED <<expiry, guest, adapter>>

\* Mistake: a room waits for its browser for ever.
ConnectedUnbounded(r) ==
    /\ room[r] = "connecting"
    /\ room' = [room EXCEPT ![r] = "joined"] /\ Grants(r, "granted")
    /\ UNCHANGED <<pending, ttl, expiry, guest, adapter>>

\* connect() resolves, and the browser has until the token expires.
Connected(r) ==
    /\ room[r] = "connecting"
    /\ room' = [room EXCEPT ![r] = "joined"] /\ Grants(r, "granted")
    /\ expiry' = expiry \union {r}
    /\ UNCHANGED <<pending, ttl, guest, adapter>>

\* It rejects, its deadline passes, or the room is closed under it; one closed
\* during the last await is granted all the same.
ConnectFails(r) ==
    /\ grant[r] = "accepting" /\ room[r] \in {"connecting", "closed"}
    /\ \/ Grants(r, "refused") /\ closeContext({r})
       \/ /\ room[r] = "closed" /\ Grants(r, "granted") /\ expiry' = expiry \union {r}
          /\ KeepsReservations /\ UNCHANGED <<room, guest>>
    /\ UNCHANGED adapter

\* The token's lifetime has passed: the reservation goes back on its own.
GrantExpires(r) == /\ r \in ttl /\ Releases({r})
                   /\ UNCHANGED <<grant, room, expiry, guest, adapter>>

-----------------------------------------------------------------------------
(* The room                                                                *)

\* participantReady, or its first audio: the session is opened once.  The
\* reservation becomes a session or is given back with a refusal.
sessionFor(r) ==
    /\ room[r] = "joined" /\ guest[r] = "none"
    /\ Releases({r})
    /\ guest' \in {[guest EXCEPT ![r] = "starting"], [guest EXCEPT ![r] = "refusing"]}
    /\ UNCHANGED <<grant, room, expiry, adapter>>

\* The refusal has been published, or could not be.
RefusalPublished(r) ==
    /\ guest[r] = "refusing"
    /\ closeContext({r})
    /\ UNCHANGED <<grant, adapter>>

\* Mistake: whoever started is the room's, whatever has become of it.
GuestStartsAnyway(r) ==
    /\ guest[r] = "starting"
    /\ \/ /\ guest' = [guest EXCEPT ![r] = "live"] /\ expiry' = expiry \ {r}
          /\ KeepsReservations /\ UNCHANGED room
       \/ closeContext({r})
    /\ UNCHANGED <<grant, adapter>>

\* start() resolves into an open room, into one closed meanwhile, or rejects.
GuestStarts(r) ==
    /\ guest[r] = "starting"
    /\ \/ /\ room[r] = "joined"
          /\ guest' = [guest EXCEPT ![r] = "live"] /\ expiry' = expiry \ {r}
          /\ KeepsReservations /\ UNCHANGED room
       \/ /\ guest' = [guest EXCEPT ![r] = "stopped"]
          /\ room' = [room EXCEPT ![r] = "closed"] /\ expiry' = expiry \ {r}
          /\ Releases({r})
    /\ UNCHANGED <<grant, adapter>>

\* The conversation is done: the room closes behind it.
GuestLeaves(r) ==
    /\ guest[r] = "live"
    /\ closeContext({r})
    /\ UNCHANGED <<grant, adapter>>

\* The browser disconnects, the native room or the media path fails.
RoomFails(r) ==
    /\ room[r] \in {"connecting", "joined"}
    /\ closeContext({r})
    /\ UNCHANGED <<grant, adapter>>

\* The expiry timer does not look at a session that is still starting.
RoomExpires(r) ==
    /\ r \in expiry
    /\ IF guest[r] \in {"none", "starting", "refusing"} /\ room[r] # "closed"
       THEN closeContext({r})
       ELSE expiry' = expiry \ {r} /\ UNCHANGED <<room, guest>> /\ KeepsReservations
    /\ UNCHANGED <<grant, adapter>>

\* The gateway stops: armed releases first, then every room; a reservation
\* whose token is being signed is dropped.
CloseAdapter ==
    /\ adapter = "open"
    /\ adapter' = "closing"
    /\ LET open == {r \in Rooms : room[r] \in {"connecting", "joined"}}
       IN  /\ room' = [r \in Rooms |-> IF r \in open THEN "closed"
                                       ELSE IF room[r] = "reserved" THEN "signing" ELSE room[r]]
           /\ guest' = [r \in Rooms |-> IF guest[r] = "live" THEN "stopped" ELSE guest[r]]
           /\ expiry' = expiry \ open
    /\ Releases(ttl)
    /\ UNCHANGED grant

-----------------------------------------------------------------------------
RoomNext ==
    \/ \E r \in Rooms :
          \/ reserveLiveKit(r) \/ Issued(r) \/ IssueFails(r) \/ Signed(r)
          \/ Connected(r) \/ ConnectFails(r) \/ GrantExpires(r)
          \/ sessionFor(r) \/ RefusalPublished(r) \/ GuestStarts(r)
          \/ GuestLeaves(r) \/ RoomFails(r) \/ RoomExpires(r)
    \/ CloseAdapter

\* Timers fire.
RoomFairness == \A r \in Rooms : WF_roomVars(RoomExpires(r)) /\ WF_roomVars(GrantExpires(r))

-----------------------------------------------------------------------------
(* Properties                                                              *)

RoomTypeOK ==
    /\ grant \in [Rooms -> {"none", "issuing", "accepting", "granted", "refused"}]
    /\ room \in [Rooms -> {"none", "reserved", "signing", "connecting", "joined", "closed"}]
    /\ guest \in [Rooms -> {"none", "starting", "refusing", "live", "stopped"}]
    /\ pending \subseteq Rooms /\ ttl \subseteq pending /\ expiry \subseteq Rooms
    /\ adapter \in {"open", "closing"}

\* A session lives in an open room only: one whose room closed while it started
\* is stopped as soon as it has.
SessionHasRoom == \A r \in Rooms : guest[r] = "live" => room[r] = "joined"

\* However many requests race, the adapter never has more rooms than it may, in
\* all or for one owner; and the gateway's reservations are held by requests
\* whose browser can still come, never by a closed room or beside a session.
RoomsAccounted ==
    /\ Cardinality(Registered) <= MaxRooms
    /\ \A r \in Rooms : Cardinality(OwnedBy(Registered, r)) <= MaxRoomsPerOwner
    /\ \A r \in pending : /\ grant[r] \in {"issuing", "accepting", "granted"}
                          /\ room[r] # "closed" /\ guest[r] = "none"
    /\ SessionHasRoom

\* A browser that never comes does not keep its room.
AbandonedRoomCloses ==
    \A r \in Rooms : room[r] = "joined" /\ guest[r] = "none" ~>
                        room[r] = "closed" \/ guest[r] # "none"
=============================================================================
