------------------------------ MODULE AgentRun ------------------------------
(***************************************************************************)
(* Agent mode of a gateway session: the run controller                     *)
(* (apps/realtime-gateway/src/agent-run-controller.ts) between one         *)
(* executor run (packages/agent-executor/src/index.ts), the session that   *)
(* owns it (session.ts) and the channel its narration is spoken through.   *)
(*                                                                         *)
(* The controller's own state is one record, and each of its methods an    *)
(* operator on that record; the event stream, the executor's promises and  *)
(* the two deadlines settle in steps of their own, in any order.           *)
(***************************************************************************)
EXTENDS Naturals, Sequences

CONSTANTS
    MaxRuns,    \* bound: runs a session starts one after the other
    MaxEvents   \* bound: events an executor publishes in one run

ASSUME AgentAssumption == MaxRuns \in Nat \ {0} /\ MaxEvents \in Nat \ {0}

VARIABLES
    ctl,        \* the controller of the newest run
    mouth,      \* the loop's agent speech: what is queued, what is being spoken
    run,        \* how many runs the session has started; the newest one's number
    stream,     \* the executor's events not consumed yet
    executor,   \* what kind of executor runs, and whether its run still goes on
    calls,      \* the executor's promises: steer, cancel and close
    consuming,  \* the controller still reads the stream (drained is not resolved)
    ending,     \* endSession: not called, draining, or returned
    cancelled   \* the user's cancellation was granted

agentVars == <<ctl, mouth, run, stream, executor, calls, consuming, ending, cancelled>>

Terminal == {"completed", "failed", "cancelled"}
Executions == {"idle", "running", "steering", "cancelling"} \union Terminal
Controller == [execution : Executions, speaking : BOOLEAN, staged : BOOLEAN,
               recent : BOOLEAN, reported : {"no"} \union Terminal]

\* Events by what the controller does with them: progress has a milestone text,
\* a tool's end and an artifact have none.
Working == {"answer", "progress", "artifact"}
Events == {"started"} \union Working \union Terminal

\* "own" keeps the contract of FakeAgentRun; "foreign" may break any of it.
Kinds == {"own", "foreign"}

NewController == [execution |-> "idle", speaking |-> FALSE, staged |-> FALSE,
                  recent |-> FALSE, reported |-> "no"]
NoCalls == [steer |-> "none", cancel |-> "none", close |-> "none"]
Silence == [queued |-> <<>>, turn |-> 0, sounds |-> FALSE]

AgentInit == /\ ctl = NewController
        /\ mouth = Silence
        /\ run = 0
        /\ stream = <<>>
        /\ executor = [kind |-> "own", goesOn |-> FALSE, published |-> 0]
        /\ calls = NoCalls
        /\ consuming = FALSE
        /\ ending = "no"
        /\ cancelled = FALSE

IsTerminal(c) == c.reported # "no"
MayCancel(c) == c.execution \in {"running", "steering"}
CanSpeak(c) == MayCancel(c)

-----------------------------------------------------------------------------
(* The controller and its speech sink                                      *)

\* A controller together with the speech queue it writes to.
With(c, q) == [c |-> c, queued |-> q]

deliver(s) ==
    IF IsTerminal(s.c) THEN s
    ELSE With([s.c EXCEPT !.speaking = TRUE, !.recent = TRUE], Append(s.queued, run))

flushPendingMilestone(s) ==
    IF s.c.staged /\ ~s.c.recent
    THEN deliver(With([s.c EXCEPT !.staged = FALSE], s.queued))
    ELSE s

speakMilestone(s) ==
    IF ~s.c.recent THEN deliver(s)
    ELSE With([s.c EXCEPT !.staged = TRUE], s.queued)

\* cancelQueued and a dropped milestone go together everywhere.
Requeued(s) == With([s.c EXCEPT !.staged = FALSE], <<>>)

finishRun(c, state) ==
    [c EXCEPT !.staged = FALSE, !.execution = state, !.speaking = FALSE, !.reported = state]

\* A transition the lifecycle refuses throws, and the run fails for it.
Refuses(c, e) ==
    \/ e = "started" /\ c.execution # "idle"
    \/ e \in {"completed", "failed"} /\ ~CanSpeak(c)
    \/ e = "answer" /\ ~c.speaking /\ ~CanSpeak(c)
    \/ e = "progress" /\ ~c.recent /\ ~c.speaking /\ ~CanSpeak(c)
    \/ e = "cancelled"      \* only from cancelling, which accept() handles apart

\* Mistake: events that raced the cancellation are still acted upon.
acceptRaced(s, e) ==
    IF IsTerminal(s.c) THEN s
    ELSE CASE e \in Terminal ->
                With(finishRun(s.c, IF MayCancel(s.c) THEN e ELSE "cancelled"), s.queued)
           [] e = "started" -> With([s.c EXCEPT !.execution = "running"], s.queued)
           [] e = "answer" -> deliver(Requeued(s))
           [] OTHER -> speakMilestone(flushPendingMilestone(s))

\* Mistake: no zombie guard; what a terminal run still streams is acted upon.
acceptZombie(s, e) ==
    IF s.c.execution = "cancelling"
    THEN IF e \in Terminal THEN With(finishRun(s.c, "cancelled"), s.queued) ELSE s
    ELSE CASE e \in Terminal -> With(finishRun(s.c, e), s.queued)
           [] e = "started" -> With([s.c EXCEPT !.execution = "running"], s.queued)
           [] OTHER -> speakMilestone(flushPendingMilestone(s))

accept(s, e) ==
    IF IsTerminal(s.c) THEN s
    ELSE IF s.c.execution = "cancelling"
    THEN IF e \in Terminal THEN With(finishRun(s.c, "cancelled"), s.queued) ELSE s
    ELSE CASE e = "started" -> With([s.c EXCEPT !.execution = "running"], s.queued)
           [] e = "answer" -> deliver(Requeued(s))
           [] e = "progress" -> speakMilestone(flushPendingMilestone(s))
           [] e = "artifact" -> flushPendingMilestone(s)
           [] e = "completed" -> LET t == flushPendingMilestone(s)
                                 IN  With(finishRun(t.c, "completed"), t.queued)
           [] e = "failed" -> LET t == deliver(Requeued(s))
                              IN  With(finishRun(t.c, "failed"), t.queued)
           [] OTHER -> s

failed(c) == IF IsTerminal(c) THEN c ELSE finishRun(c, "failed")

\* The gateway interrupts a narration only while it sounds: one that is still
\* being synthesized goes on.
Hushed == [mouth EXCEPT !.queued = <<>>,
                        !.turn = IF mouth.sounds THEN 0 ELSE @,
                        !.sounds = FALSE]

failRun == /\ ctl' = failed(ctl)
           /\ mouth' = IF IsTerminal(ctl) THEN mouth ELSE Hushed

requestCancel(c) == [c EXCEPT !.execution = "cancelling", !.speaking = FALSE,
                              !.staged = FALSE, !.recent = TRUE]
\* cancelRun and closeRun ask the executor once; its own kind ends the run with
\* run.cancelled at once and settles later.
AskExecutor(call) ==
    IF calls[call] # "none"
    THEN UNCHANGED <<calls, stream, executor>>
    ELSE /\ calls' = [calls EXCEPT ![call] = "asked"]
         /\ IF executor.kind = "own" /\ executor.goesOn
            THEN /\ stream' = Append(stream, "cancelled")
                 /\ executor' = [executor EXCEPT !.goesOn = FALSE]
            ELSE UNCHANGED <<stream, executor>>

-----------------------------------------------------------------------------
(* The session                                                             *)

\* The first input, or the first after a run has ended, starts a fresh run.
StartRun ==
    /\ ending = "no" /\ run < MaxRuns
    /\ run = 0 \/ IsTerminal(ctl)
    /\ run' = run + 1
    /\ ctl' = NewController
    /\ \E kind \in Kinds :
          /\ executor' = [kind |-> kind, goesOn |-> TRUE, published |-> 0]
          /\ stream' = IF kind = "own" THEN <<"started">> ELSE <<>>
    /\ calls' = NoCalls
    /\ consuming' = TRUE
    /\ cancelled' = FALSE
    /\ UNCHANGED <<mouth, ending>>

\* A later input steers; a second one while the first is awaited is refused.
steer ==
    /\ ending = "no" /\ run > 0
    /\ ~IsTerminal(ctl) /\ ctl.execution = "running"
    /\ ctl' = [ctl EXCEPT !.execution = "steering", !.staged = FALSE]
    /\ mouth' = [mouth EXCEPT !.queued = <<>>]
    /\ calls' = [calls EXCEPT !.steer = "asked"]
    /\ UNCHANGED <<run, stream, executor, consuming, ending, cancelled>>

\* agent.cancel: accepted whatever the lifecycle says, granted once the run has
\* started and is not being cancelled already.
cancel ==
    /\ ending = "no" /\ run > 0
    /\ MayCancel(ctl)
    /\ ctl' = requestCancel(ctl)
    /\ mouth' = Hushed
    /\ cancelled' = TRUE
    /\ AskExecutor("cancel")
    /\ UNCHANGED <<run, consuming, ending>>

\* The user talks over a narration: the kernel ends its turn and the session
\* shuts the mouth of the newest run.
BargeIn ==
    /\ ending = "no" /\ mouth.turn # 0
    /\ IF ctl.speaking
       THEN /\ ctl' = [ctl EXCEPT !.speaking = FALSE, !.staged = FALSE, !.recent = TRUE]
            /\ mouth' = Silence
       ELSE /\ mouth' = [mouth EXCEPT !.turn = 0, !.sounds = FALSE]
            /\ UNCHANGED ctl
    /\ UNCHANGED <<run, stream, executor, calls, consuming, ending, cancelled>>

\* stop(): the kernel is closed first, then the newest run is ended.
EndSession ==
    /\ ending = "no" /\ run > 0
    /\ ending' = "draining"
    /\ mouth' = Silence
    /\ ctl' = IF MayCancel(ctl) THEN requestCancel(ctl) ELSE ctl
    /\ IF IsTerminal(ctl) THEN AskExecutor("close") ELSE AskExecutor("cancel")
    /\ UNCHANGED <<run, consuming, cancelled>>

\* The cleanup closes the run once the cancellation has settled.
CleanUp ==
    /\ ending = "draining"
    /\ calls.cancel = "settled" /\ calls.close = "none"
    /\ AskExecutor("close")
    /\ UNCHANGED <<ctl, mouth, run, consuming, ending, cancelled>>

RunDrained ==
    /\ ending = "draining"
    /\ calls.close = "settled" /\ ~consuming
    /\ ending' = "done"
    /\ UNCHANGED <<ctl, mouth, run, stream, executor, calls, consuming, cancelled>>

\* Mistake: the deadline waits for the executor to close after all.
DrainTimeoutPatient ==
    /\ ending = "draining" /\ calls.close = "settled"
    /\ ctl' = failed(ctl)
    /\ ending' = "done"
    /\ UNCHANGED <<mouth, run, stream, executor, calls, consuming, cancelled>>

\* The drain deadline closes a broken executor and fails the run.
DrainTimeout ==
    /\ ending = "draining"
    /\ AskExecutor("close")
    /\ ctl' = failed(ctl)
    /\ ending' = "done"
    /\ UNCHANGED <<mouth, run, consuming, cancelled>>

-----------------------------------------------------------------------------
(* The loop's agent speech and the clock                                   *)

Narrate == /\ mouth.queued # <<>> /\ mouth.turn = 0 /\ ending = "no"
           /\ mouth' = [mouth EXCEPT !.queued = Tail(@), !.turn = Head(mouth.queued)]
           /\ UNCHANGED <<ctl, run, stream, executor, calls, consuming, ending, cancelled>>

Sounds == /\ mouth.turn # 0 /\ ~mouth.sounds /\ ending = "no"
          /\ mouth' = [mouth EXCEPT !.sounds = TRUE]
          /\ UNCHANGED <<ctl, run, stream, executor, calls, consuming, ending, cancelled>>

NarrationEnds == /\ mouth.turn # 0 /\ ending = "no"
                 /\ mouth' = [mouth EXCEPT !.turn = 0, !.sounds = FALSE]
                 /\ UNCHANGED <<ctl, run, stream, executor, calls, consuming, ending, cancelled>>

\* milestoneIntervalMs have passed since something was last audible.
IntervalPasses == /\ ctl.recent
                  /\ ctl' = [ctl EXCEPT !.recent = FALSE]
                  /\ UNCHANGED <<mouth, run, stream, executor, calls, consuming, ending, cancelled>>

-----------------------------------------------------------------------------
(* The executor                                                            *)

Publish ==
    /\ run > 0 /\ executor.published < MaxEvents
    /\ executor.goesOn \/ executor.kind = "foreign"
    /\ \E e \in IF executor.kind = "own" THEN Events \ {"started", "cancelled"} ELSE Events :
          /\ stream' = Append(stream, e)
          /\ executor' = [executor EXCEPT !.published = @ + 1,
                                          !.goesOn = @ /\ e \notin Terminal]
    /\ UNCHANGED <<ctl, mouth, run, calls, consuming, ending, cancelled>>

\* One event of the stream; a terminal one ends the reading, as does a throw.
Consume ==
    /\ consuming /\ stream # <<>>
    /\ LET e == Head(stream)
           s == accept(With(ctl, mouth.queued), e)
           refused == /\ ~IsTerminal(ctl) /\ ctl.execution # "cancelling"
                      /\ Refuses(ctl, e)
       IN  IF refused
           THEN failRun /\ consuming' = FALSE
           ELSE /\ ctl' = s.c
                /\ mouth' = [mouth EXCEPT !.queued = s.queued]
                /\ consuming' = ~IsTerminal(s.c)
    /\ stream' = Tail(stream)
    /\ UNCHANGED <<run, executor, calls, ending, cancelled>>

\* A foreign stream may end without a terminal event, or throw.
StreamEnds ==
    /\ consuming /\ executor.kind = "foreign"
    /\ failRun
    /\ consuming' = FALSE
    /\ executor' = [executor EXCEPT !.goesOn = FALSE]
    /\ UNCHANGED <<run, stream, calls, ending, cancelled>>

\* finally { finishSteering }: whether the executor took the input or threw.
SteerSettles ==
    /\ calls.steer = "asked"
    /\ calls' = [calls EXCEPT !.steer = "none"]
    /\ ctl' = IF ctl.execution = "steering" THEN [ctl EXCEPT !.execution = "running"] ELSE ctl
    /\ UNCHANGED <<mouth, run, stream, executor, consuming, ending, cancelled>>

CancelSettles ==
    /\ calls.cancel = "asked"
    /\ calls' = [calls EXCEPT !.cancel = "settled"]
    /\ UNCHANGED <<ctl, mouth, run, stream, executor, consuming, ending, cancelled>>

\* A foreign executor rejects the cancellation: the run fails and is closed.
CancelRejects ==
    /\ calls.cancel = "asked" /\ executor.kind = "foreign"
    /\ calls' = [calls EXCEPT !.cancel = "settled",
                              !.close = IF @ = "none" THEN "asked" ELSE @]
    /\ ctl' = failed(ctl)
    /\ UNCHANGED <<mouth, run, stream, executor, consuming, ending, cancelled>>

CloseSettles ==
    /\ calls.close = "asked"
    /\ calls' = [calls EXCEPT !.close = "settled"]
    /\ UNCHANGED <<ctl, mouth, run, stream, executor, consuming, ending, cancelled>>

-----------------------------------------------------------------------------
AgentNext ==
    \/ StartRun \/ steer \/ cancel \/ BargeIn \/ EndSession \/ CleanUp
    \/ RunDrained \/ DrainTimeout
    \/ Narrate \/ Sounds \/ NarrationEnds \/ IntervalPasses
    \/ Publish \/ Consume \/ StreamEnds
    \/ SteerSettles \/ CancelSettles \/ CancelRejects \/ CloseSettles

\* Timers fire and the consumer is scheduled whatever the executor does; only an
\* executor of the own kind is trusted to settle its promises.
OwnSettles == executor.kind = "own" /\ (SteerSettles \/ CancelSettles \/ CloseSettles)

AgentFairness == /\ WF_agentVars(DrainTimeout)
                 /\ WF_agentVars(Consume)
                 /\ WF_agentVars(CleanUp)
                 /\ WF_agentVars(OwnSettles)

AgentSpec == AgentInit /\ [][AgentNext]_agentVars /\ AgentFairness

-----------------------------------------------------------------------------
(* Properties                                                              *)

AgentTypeOK ==
    /\ ctl \in Controller
    /\ mouth \in [queued : Seq(1..MaxRuns), turn : 0..MaxRuns, sounds : BOOLEAN]
    /\ run \in 0..MaxRuns
    /\ stream \in Seq(Events)
    /\ executor \in [kind : Kinds, goesOn : BOOLEAN, published : 0..MaxEvents]
    /\ calls \in [{"steer", "cancel", "close"} -> {"none", "asked", "settled"}]
    /\ consuming \in BOOLEAN /\ cancelled \in BOOLEAN
    /\ ending \in {"no", "draining", "done"}

Queues(m) == {i \in DOMAIN m.queued : m.queued[i] = run}

\* Once the user's cancellation is granted the run queues no more narration,
\* whatever events raced it, and the outcome reported is the cancellation; only
\* an executor that breaks its contract, or the drain deadline, makes it a failure.
CancellationOwnsRun ==
    cancelled => /\ Queues(mouth) = {}
                 /\ ctl.reported # "completed"
                 /\ ctl.reported = "failed" => executor.kind = "foreign" \/ ending = "done"

\* docs/agent-lifecycle.md, cancelExecution: "stop current and queued speech".
CancelledRunIsSilent == ~(cancelled /\ mouth.turn = run /\ mouth.sounds)

\* A terminal run is final though its stream is still being read: late events
\* change neither its state nor its report, and nothing more of it is queued.
TerminalIsFinal ==
    [][IsTerminal(ctl) /\ run' = run =>
         /\ ctl'.reported = ctl.reported /\ ctl'.execution = ctl.execution
         /\ Len(mouth'.queued) <= Len(mouth.queued)]_agentVars

\* Hanging up ends the run and reports it, even when the executor never
\* answers: the session is released at the drain deadline.
SessionSettles == ending = "draining" ~> ending = "done" /\ IsTerminal(ctl)

\* The outcome of a run is decided once: by a granted cancellation, and by the
\* terminal state that was reported.
OutcomeStands == []CancellationOwnsRun /\ TerminalIsFinal
=============================================================================
