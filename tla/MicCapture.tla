----------------------------- MODULE MicCapture -----------------------------
(***************************************************************************)
(* The browser's microphone (apps/web/src/lib/audio.ts, MicCapture): one   *)
(* capture route at a time, rebuilt when its device changes, stays muted,  *)
(* ends, or produces no frames, until it is stopped.                       *)
(*                                                                         *)
(* A recovery is one asynchronous loop: it waits for the browser's         *)
(* microphone and then replaces the route without an await.  Devices and   *)
(* permissions are the environment's.                                      *)
(***************************************************************************)
EXTENDS Naturals, FiniteSets

CONSTANTS
    MaxRoutes,     \* bound: streams the browser gives
    MaxIncidents   \* bound: things that happen to a device

ASSUME MicAssumption == MaxRoutes \in Nat \ {0} /\ MaxIncidents \in Nat

VARIABLES
    capture,     \* the object: its route and its flags
    streams,     \* streams whose tracks are not stopped
    device,      \* the current track: "sound", "muted" or "ended"
    mend,        \* the recovery: "no", or "acquiring" a microphone; asked for again
    timers,      \* the recovery timer with its reason, and whose watchdog is armed
    routes,      \* streams the browser has given
    wanted,      \* which device the system now prefers
    incidents,
    history      \* of the properties: recovery failures told, device changes lost

micVars == <<capture, streams, device, mend, timers, routes, wanted, incidents, history>>

NoTimer == "off"
NoRoute == 0

MicInit ==
    /\ capture = [route |-> 1, of |-> 0, stopped |-> FALSE, muted |-> FALSE,
                  closed |-> FALSE, failures |-> 0]
    /\ streams = {1} /\ device = "sound"
    /\ mend = [at |-> "no", of |-> 0, again |-> FALSE]
    /\ timers = [recovery |-> NoTimer, watchdog |-> 1]
    /\ routes = 1 /\ wanted = 0 /\ incidents = 0
    /\ history = [reported |-> FALSE, calledOff |-> FALSE]

-----------------------------------------------------------------------------
queueRecovery(reason) ==
    timers' = IF capture.stopped THEN timers ELSE [timers EXCEPT !.recovery = reason]

\* armRouteWatchdog: not while muted.
Armed(t, route) == IF capture.muted THEN t ELSE [t EXCEPT !.watchdog = route]

reports == history' = [history EXCEPT !.reported = TRUE]
Incident == incidents < MaxIncidents /\ incidents' = incidents + 1
KeepsRoute == UNCHANGED <<streams, mend, routes, wanted>>

handleDeviceChange ==
    /\ Incident /\ ~capture.stopped
    /\ wanted' = wanted + 1
    /\ queueRecovery("device")
    /\ UNCHANGED <<capture, streams, device, mend, routes, history>>

TrackMutes ==
    /\ Incident /\ device = "sound"
    /\ device' = "muted"
    /\ queueRecovery("muted")
    /\ UNCHANGED <<capture, history>> /\ KeepsRoute

\* A mute that passes calls off the recovery it asked for, which may have taken
\* the place of one that was due for another reason.
TrackUnmutes ==
    /\ device = "muted"
    /\ device' = "sound"
    /\ LET calls == ~capture.stopped /\ timers.recovery = "muted"
       IN /\ timers' = IF calls THEN [timers EXCEPT !.recovery = NoTimer] ELSE timers
          /\ history' = IF calls /\ capture.of # wanted
                        THEN [history EXCEPT !.calledOff = TRUE] ELSE history
    /\ UNCHANGED <<capture, incidents>> /\ KeepsRoute

TrackEnds ==
    /\ Incident /\ device # "ended"
    /\ device' = "ended"
    /\ queueRecovery("ended")
    /\ UNCHANGED <<capture, history>> /\ KeepsRoute

\* Frames flow: the watchdog is content.
FramesFlow ==
    /\ device = "sound" /\ ~capture.stopped
    /\ capture.failures > 0 \/ timers.watchdog # NoRoute
    /\ timers' = [timers EXCEPT !.watchdog = NoRoute]
    /\ capture' = [capture EXCEPT !.failures = 0]
    /\ UNCHANGED <<device, incidents, history>> /\ KeepsRoute

\* Two seconds without a frame: three recoveries, then a report.
WatchdogFires ==
    /\ timers.watchdog # NoRoute
    /\ IF capture.stopped \/ capture.route # timers.watchdog
       THEN timers' = [timers EXCEPT !.watchdog = NoRoute] /\ UNCHANGED <<capture, history>>
       ELSE /\ capture' = [capture EXCEPT !.failures = IF @ > 3 THEN @ ELSE @ + 1]
            /\ IF capture.failures < 3
               THEN timers' = [recovery |-> "silent", watchdog |-> NoRoute] /\ UNCHANGED history
               ELSE timers' = [timers EXCEPT !.watchdog = NoRoute] /\ reports
    /\ UNCHANGED <<device, incidents>> /\ KeepsRoute

setMuted ==
    /\ Incident /\ ~capture.stopped
    /\ capture' = [capture EXCEPT !.muted = ~@]
    /\ timers' = [timers EXCEPT !.watchdog = IF capture.muted THEN capture.route ELSE NoRoute]
    /\ UNCHANGED <<device, history>> /\ KeepsRoute

\* stop(): the route goes at once, the context when a recovery is over.
StopMic ==
    /\ ~capture.stopped
    /\ capture' = [capture EXCEPT !.stopped = TRUE]
    /\ timers' = [recovery |-> NoTimer, watchdog |-> NoRoute]
    /\ streams' = streams \ {capture.route}
    /\ UNCHANGED <<device, mend, routes, wanted, incidents, history>>

ContextCloses ==
    /\ capture.stopped /\ ~capture.closed /\ mend.at = "no"
    /\ capture' = [capture EXCEPT !.closed = TRUE]
    /\ UNCHANGED <<device, timers, incidents, history>> /\ KeepsRoute

-----------------------------------------------------------------------------
(* recover()                                                               *)

\* Mistake: a recovery under way answers for the later request too.
RecoveryTimerMerges ==
    /\ timers.recovery # NoTimer
    /\ timers' = [timers EXCEPT !.recovery = NoTimer]
    /\ mend' = IF mend.at = "no" THEN [at |-> "acquiring", of |-> wanted, again |-> FALSE]
               ELSE mend
    /\ UNCHANGED <<capture, streams, device, routes, wanted, incidents, history>>

\* The browser is asked for the microphone of that moment; a recovery that is
\* under way is told to go round once more.
RecoveryTimerFires ==
    /\ timers.recovery # NoTimer
    /\ timers' = [timers EXCEPT !.recovery = NoTimer]
    /\ mend' = IF mend.at = "no" THEN [at |-> "acquiring", of |-> wanted, again |-> FALSE]
               ELSE [mend EXCEPT !.again = TRUE]
    /\ UNCHANGED <<capture, streams, device, routes, wanted, incidents, history>>

\* Mistake: a stream that comes after the stop is kept.
AcquiredLate ==
    /\ mend.at = "acquiring" /\ routes < MaxRoutes
    /\ routes' = routes + 1
    /\ IF capture.stopped
       THEN /\ mend' = [mend EXCEPT !.at = "no"]
            /\ streams' = streams \union {routes'}
            /\ UNCHANGED <<capture, device, timers>>
       ELSE /\ streams' = (streams \ {capture.route}) \union {routes'}
            /\ capture' = [capture EXCEPT !.route = routes', !.of = mend.of]
            /\ device' = "sound"
            /\ timers' = Armed(timers, routes')
            /\ mend' = [at |-> IF mend.again THEN "acquiring" ELSE "no",
                        of |-> wanted, again |-> FALSE]
    /\ UNCHANGED <<wanted, incidents, history>>

\* getUserMedia resolves: the new route takes the old one's place, and the loop
\* goes round if it was told to; after a stop the stream is let go at once.
Acquired ==
    /\ mend.at = "acquiring" /\ routes < MaxRoutes
    /\ routes' = routes + 1
    /\ IF capture.stopped
       THEN /\ mend' = [mend EXCEPT !.at = "no"]
            /\ UNCHANGED <<capture, streams, device, timers>>
       ELSE /\ streams' = (streams \ {capture.route}) \union {routes'}
            /\ capture' = [capture EXCEPT !.route = routes', !.of = mend.of]
            /\ device' = "sound"
            /\ timers' = Armed(timers, routes')
            /\ mend' = [at |-> IF mend.again THEN "acquiring" ELSE "no",
                        of |-> wanted, again |-> FALSE]
    /\ UNCHANGED <<wanted, incidents, history>>

\* It rejects, or the graph cannot be built: the loop ends with a report.
AcquireFails ==
    /\ mend.at = "acquiring"
    /\ mend' = [mend EXCEPT !.at = "no"]
    /\ reports
    /\ UNCHANGED <<capture, streams, device, timers, routes, wanted, incidents>>

-----------------------------------------------------------------------------
MicNext ==
    \/ handleDeviceChange \/ TrackMutes \/ TrackUnmutes \/ TrackEnds \/ FramesFlow
    \/ WatchdogFires \/ setMuted \/ StopMic \/ ContextCloses
    \/ RecoveryTimerFires \/ Acquired \/ AcquireFails

\* Timers fire, and the browser answers a request for the microphone.
MicFairness ==
    /\ WF_micVars(RecoveryTimerFires) /\ WF_micVars(ContextCloses)
    /\ WF_micVars(Acquired \/ AcquireFails)

-----------------------------------------------------------------------------
(* Properties                                                              *)

MicTypeOK ==
    /\ capture.route \in 1..MaxRoutes /\ capture.failures \in 0..4
    /\ streams \subseteq 1..MaxRoutes
    /\ wanted \in 0..MaxIncidents /\ capture.of \in 0..wanted /\ mend.of \in 0..wanted
    /\ device \in {"sound", "muted", "ended"}
    /\ mend.at \in {"no", "acquiring"}
    /\ timers.recovery \in {NoTimer, "device", "muted", "ended", "silent"}
    /\ timers.watchdog \in 0..MaxRoutes

\* The microphone is open exactly once while it captures and not at all from the
\* moment it is stopped, whatever recovery was waiting for the browser then.
MicIsHeldOnce == streams = IF capture.stopped THEN {} ELSE {capture.route}

\* The capture follows the system to its device, or the user hears that it could
\* not: a recovery that asked for the microphone before the change goes round
\* again.  calledOff is the one exception, a mute that passes in the 350 ms in
\* which the change is not yet acted on.
RouteFollowsDevice ==
    capture.of # wanted ~>
        capture.of = wanted \/ history.reported \/ history.calledOff \/ capture.stopped
=============================================================================
