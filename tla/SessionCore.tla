---------------------------- MODULE SessionCore ----------------------------
(***************************************************************************)
(* The life of one gateway session from start() to done                    *)
(* (apps/realtime-gateway/src/session.ts): its start in three pieces       *)
(* between awaits, the loop and the agent runs behind it, and a stop that  *)
(* may come at any of those awaits, of its own timer or of its own turn.   *)
(***************************************************************************)
EXTENDS Naturals, FiniteSets

CONSTANTS
    MaxControllers,  \* bound: agent runs of one session
    MaxInputs        \* bound: utterances finalized in one session

Controllers == 1..MaxControllers

VARIABLES
    starting,   \* where start() is: awaiting "vad" or "tools", "returned" or "threw"
    stopped,
    kernel,     \* the duplex kernel: "idle", "open" or "closed"
    lifetime,   \* the session's ceiling is armed
    loop,       \* the conversation: "none", "running", "ended" or "crashed"
    work,       \* the turn's dispatch: "none", or what it awaits
    inputs,     \* finalized utterances so far
    agentMode,  \* turns become executor input instead of replies
    runs,       \* the agent controllers: "none", "live" or "over"
    drains,     \* those whose endSession stop() waits for
    endAfterTurn,
    done        \* donePromise is settled

coreVars == <<starting, stopped, kernel, lifetime, loop, work, inputs, agentMode,
              runs, drains, endAfterTurn, done>>

CoreInit ==
    /\ starting = "vad" /\ stopped = FALSE
    /\ kernel = "idle" /\ lifetime = FALSE
    /\ loop = "none" /\ work = "none" /\ inputs = 0
    /\ agentMode \in BOOLEAN
    /\ runs = [c \in Controllers |-> "none"]
    /\ drains = {}
    /\ endAfterTurn = FALSE /\ done = FALSE

-----------------------------------------------------------------------------
\* stop(), with what it leaves of the kernel, the timer and the runs; once.
Stops(k) ==
    /\ stopped' = TRUE
    /\ kernel' = IF stopped THEN k ELSE "closed"
    /\ lifetime' = FALSE
    /\ drains' = IF stopped THEN drains ELSE {c \in Controllers : runs[c] # "none"}

Goes(k) == kernel' = k /\ UNCHANGED <<stopped, lifetime, drains>>

\* Mistake: the start goes on whatever happened while it waited.
VadReadyAnyway ==
    /\ starting = "vad"
    /\ starting' = "tools" /\ kernel' = "open" /\ lifetime' = TRUE
    /\ UNCHANGED <<stopped, drains, loop, work, inputs, agentMode, runs, endAfterTurn, done>>

\* The detector has loaded: the ceiling is armed and the kernel started, unless
\* the session was stopped meanwhile; an engine that is not there ends it.
VadReady ==
    /\ starting = "vad"
    /\ IF stopped
       THEN /\ starting' = "returned"
            /\ UNCHANGED <<stopped, kernel, lifetime, drains>>
       ELSE \/ /\ starting' = "tools" /\ kernel' = "open" /\ lifetime' = TRUE
               /\ UNCHANGED <<stopped, drains>>
            \/ starting' = "threw" /\ Stops("open")
    /\ UNCHANGED <<loop, work, inputs, agentMode, runs, endAfterTurn, done>>

ToolsReady ==
    /\ starting = "tools"
    /\ IF stopped
       THEN /\ starting' = "returned"
            /\ UNCHANGED <<loop, stopped, kernel, lifetime, drains>>
       ELSE \/ /\ starting' = "returned" /\ loop' = "running"
               /\ UNCHANGED <<stopped, kernel, lifetime, drains>>
            \/ starting' = "threw" /\ Stops(kernel) /\ UNCHANGED loop
    /\ UNCHANGED <<work, inputs, agentMode, runs, endAfterTurn, done>>

\* session.stop, a grace that ran out, the gateway's shutdown, or the ceiling.
Stop ==
    /\ ~stopped /\ Stops(kernel)
    /\ UNCHANGED <<starting, loop, work, inputs, agentMode, runs, endAfterTurn, done>>

-----------------------------------------------------------------------------
(* The conversation behind the session                                     *)

UtteranceEnds ==
    /\ loop = "running" /\ kernel = "open" /\ work = "none" /\ inputs < MaxInputs
    /\ work' = "asr" /\ inputs' = inputs + 1
    /\ UNCHANGED <<starting, stopped, kernel, lifetime, loop, agentMode, runs, drains,
                   endAfterTurn, done>>

\* An aborted turn goes no further; a recognized one looks its key terms up.
Recognized ==
    /\ work = "asr"
    /\ work' \in IF kernel = "closed" THEN {"none"} ELSE {"keyterms", "none"}
    /\ UNCHANGED <<starting, stopped, kernel, lifetime, loop, inputs, agentMode, runs, drains,
                   endAfterTurn, done>>

\* onAgentInput: an input steers the live run or starts one of its own.
TakesInput ==
    LET live == {c \in Controllers : runs[c] = "live"}
        fresh == {c \in Controllers : runs[c] = "none"}
    IN  IF live # {} \/ fresh = {}
        THEN UNCHANGED runs
        ELSE runs' = [runs EXCEPT ![CHOOSE c \in fresh : \A d \in fresh : c <= d] = "live"]

\* No abort check follows this await: the turn is metered, a spent allowance
\* stops the session, and the input is delivered whatever has happened.
KeytermsArrive ==
    /\ work = "keyterms"
    /\ \/ Stops(kernel)
       \/ Goes(kernel)
    /\ IF agentMode
       THEN TakesInput /\ work' = "none"
       ELSE UNCHANGED runs /\ work' = IF stopped' THEN "none" ELSE "reply"
    /\ UNCHANGED <<starting, loop, inputs, agentMode, endAfterTurn, done>>

\* The end_call tool: hang up once a turn has finished audibly.
EndCall ==
    /\ work = "reply" /\ ~endAfterTurn
    /\ endAfterTurn' = TRUE
    /\ UNCHANGED <<starting, stopped, kernel, lifetime, loop, work, inputs, agentMode, runs,
                   drains, done>>

\* A reply ends heard or interrupted; only a heard one hangs up.
ReplyEnds ==
    /\ work = "reply" /\ work' = "none"
    /\ IF endAfterTurn /\ kernel = "open" THEN Stops(kernel) \/ Goes(kernel) ELSE Goes(kernel)
    /\ UNCHANGED <<starting, loop, inputs, agentMode, runs, endAfterTurn, done>>

RunEnds(c) ==
    /\ runs[c] = "live"
    /\ runs' = [runs EXCEPT ![c] = "over"]
    /\ UNCHANGED <<starting, stopped, kernel, lifetime, loop, work, inputs, agentMode, drains,
                   endAfterTurn, done>>

\* endSession is bounded: the run is over when its drain deadline is.
Drained(c) ==
    /\ c \in drains
    /\ drains' = drains \ {c}
    /\ runs' = [runs EXCEPT ![c] = "over"]
    /\ UNCHANGED <<starting, stopped, kernel, lifetime, loop, work, inputs, agentMode,
                   endAfterTurn, done>>

\* Mistake: a loop that fails leaves its session without one.
LoopEndsQuietly ==
    /\ loop = "running" /\ work = "none"
    /\ loop' \in IF stopped THEN {"ended", "crashed"} ELSE {"crashed"}
    /\ UNCHANGED <<stopped, kernel, lifetime, drains, starting, work, inputs, agentMode, runs,
                   endAfterTurn, done>>

\* The loop returns when its frames end, or throws; either way it waits for the
\* work it has started, and its end stops the session.
LoopEnds ==
    /\ loop = "running" /\ work = "none"
    /\ loop' \in IF stopped THEN {"ended", "crashed"} ELSE {"crashed"}
    /\ Stops(kernel)
    /\ UNCHANGED <<starting, work, inputs, agentMode, runs, endAfterTurn, done>>

\* Promise.all of the loop and the drains; a loop that threw settles it at once.
Done ==
    /\ stopped /\ ~done
    /\ loop = "crashed" \/ (loop \in {"none", "ended"} /\ drains = {})
    /\ done' = TRUE
    /\ UNCHANGED <<starting, stopped, kernel, lifetime, loop, work, inputs, agentMode, runs,
                   drains, endAfterTurn>>

-----------------------------------------------------------------------------
CoreNext ==
    \/ VadReady \/ ToolsReady \/ Stop
    \/ UtteranceEnds \/ Recognized \/ KeytermsArrive \/ EndCall \/ ReplyEnds
    \/ \E c \in Controllers : RunEnds(c) \/ Drained(c)
    \/ LoopEnds \/ Done

\* Work that was begun settles, deadlines pass, promises are heard; detectors
\* and tool servers may keep start() waiting for ever.
CoreFairness ==
    /\ WF_coreVars(Recognized) /\ WF_coreVars(KeytermsArrive) /\ WF_coreVars(ReplyEnds)
    /\ \A c \in Controllers : WF_coreVars(Drained(c))
    /\ WF_coreVars(stopped /\ LoopEnds) /\ WF_coreVars(Done)

CoreSpec == CoreInit /\ [][CoreNext]_coreVars /\ CoreFairness

-----------------------------------------------------------------------------
(* Properties                                                              *)

\* A stopped session is never revived by what was under way when it stopped:
\* its kernel stays as stop() left it, its timer off, and no loop starts.
NotRevived ==
    [][stopped => kernel' = kernel /\ ~lifetime' /\ (loop = "none" => loop' = "none")]_coreVars

\* Whoever waits for a session hears of its end: a session whose loop is gone is
\* stopped, and a stopped one is done, even while its start still waits.
SessionIsReleased == (stopped \/ loop = "crashed") ~> (stopped /\ done)
=============================================================================
