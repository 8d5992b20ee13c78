---------------------------- MODULE ToolRunner ----------------------------
(***************************************************************************)
(* The boundary to the tools of an agent (packages/agent-executor): the    *)
(* runner that dispatches an invocation once, bounds it in time and closes *)
(* within a deadline (FakeToolRunner, which models what a broker has to    *)
(* guarantee), and the ledger of invocations beside it (InvocationLedger). *)
(* Nothing in the repository drives them but their tests, so whoever calls *)
(* them does so in any order.  The handlers are external: they may ignore  *)
(* the signal, act late, or never return.                                  *)
(***************************************************************************)
EXTENDS Naturals, FiniteSets

CONSTANTS
    Callers,   \* calls of run(), each with a signal of its own
    Closers,   \* calls of close()
    Keys,      \* identities of invocations
    Bodies   \* what a request may say

VARIABLES
    tools,    \* the runner: closed, and what it dispatched under each key
    runs,     \* the calls of run()
    signals,  \* calls whose signal has fired
    closes,   \* the calls of close()
    ledger    \* the entry of each key

runnerVars == <<tools, runs, signals, closes>>

-----------------------------------------------------------------------------
(* Policies                                                                *)

Effects == {"read", "session", "external"}
Authority == {"filesystem", "process", "network"}

\* A destination by its host: a "private" one is a literal of the machine or its network.
Hosts == {"public", "private", "malformed"}

\* A destination may be named twice.
Policies == [effect : Effects, mode : {"in_process", "brokered", "sandbox"},
             capabilities : SUBSET (Authority \union {"structured"}), workspace : BOOLEAN,
             destinations : SUBSET Hosts, repeated : BOOLEAN,
             secrets : BOOLEAN, limits : {"positive", "other"}, cancellable : BOOLEAN]

\* validateToolPolicy
Allowed(p) ==
    /\ p.capabilities # {}
    /\ p.capabilities \intersect Authority # {} => p.mode = "sandbox"
    /\ p.effect = "external" => p.mode # "in_process"
    /\ p.capabilities \intersect {"filesystem", "process"} # {} => p.workspace
    /\ "network" \in p.capabilities <=> p.destinations # {}
    /\ p.destinations \subseteq {"public"} /\ ~p.repeated
    /\ p.secrets => p.mode # "in_process"
    /\ p.limits = "positive"

\* All that the runner reads of a policy afterwards.
Runnable == {[effect |-> p.effect, cancellable |-> p.cancellable] : p \in {q \in Policies : Allowed(q)}}

-----------------------------------------------------------------------------
(* The runner                                                              *)

NoDispatch == [handler |-> "none"]
Ended == {"done", "never"}
Dispatched == {k \in Keys : tools.work[k] # NoDispatch}
IsOver(k) == tools.work[k].handler \in Ended
Fresh == [k \in Keys |-> [state |-> "absent", effect |-> "read"]]

RunnerInit ==
    /\ tools = [closed |-> FALSE, work |-> [k \in Keys |-> NoDispatch]]
    /\ runs = [c \in Callers |-> "none"] /\ signals = {} /\ ledger = Fresh
    /\ closes = [x \in Closers |-> [at |-> "none", active |-> {}]]

\* Mistake: what is external is told apart only when it timed out.
abortsByTime(effect, why) ==
    CASE why = "timeout" -> IF effect = "external" THEN "outcome_unknown" ELSE "failed"
      [] OTHER -> "cancelled"

abortToolResult(effect, why) ==
    CASE why \in {"timeout", "closed"} /\ effect = "external" -> "outcome_unknown"
      [] why = "timeout" /\ effect # "external" -> "failed"
      [] OTHER -> "cancelled"

\* Mistake: an abort leaves the answer to the handler.
abortsPatiently(d, why) ==
    IF d.why # "none" THEN d ELSE [d EXCEPT !.why = why]

\* controller.abort(why): the first one decides, unless the result is there already.
Abort(d, why) ==
    IF d.why # "none" THEN d
    ELSE [d EXCEPT !.why = why,
                   !.result = IF @ = "none" THEN abortToolResult(d.effect, why) ELSE @]

\* run(): the prior dispatch where there is one, and else a new one.
Runs(c, k, content, policy) ==
    LET new == [handler |-> "due", by |-> c, of |-> content, effect |-> policy.effect,
                cancellable |-> policy.cancellable, why |-> "none", result |-> "none", late |-> FALSE,
                acted |-> FALSE]
        old == tools.work[k] IN
    /\ runs[c] = "none"
    /\ IF k \in Dispatched
       THEN /\ UNCHANGED tools
            /\ runs' = [runs EXCEPT ![c] = IF old.of = content THEN "joined" ELSE "refused"]
       ELSE IF tools.closed
       THEN runs' = [runs EXCEPT ![c] = "refused"] /\ UNCHANGED tools
       ELSE /\ runs' = [runs EXCEPT ![c] = "dispatched"]
            /\ tools' = [tools EXCEPT !.work[k] =
                  IF c \in signals /\ policy.cancellable
                  THEN [Abort(new, "cancelled") EXCEPT !.handler = "never"] ELSE new]
    /\ UNCHANGED <<signals, closes>>

\* forwardAbort: only of the call that dispatched, and only where the policy lets it.
Signals(c) ==
    /\ c \notin signals /\ signals' = signals \union {c}
    /\ tools' = [tools EXCEPT !.work = [k \in Keys |->
          IF k \in Dispatched /\ ~IsOver(k) /\ @[k].by = c /\ @[k].cancellable
          THEN Abort(@[k], "cancelled") ELSE @[k]]]
    /\ UNCHANGED <<runs, closes>>

Starts(k) ==
    /\ tools.work[k].handler = "due"
    /\ tools' = [tools EXCEPT !.work[k].handler = "running"]
    /\ UNCHANGED <<runs, signals, closes>>

TimesOut(k) ==
    /\ tools.work[k].handler = "running" /\ tools.work[k].why = "none"
    /\ tools' = [tools EXCEPT !.work[k] = Abort(@, "timeout")]
    /\ UNCHANGED <<runs, signals, closes>>

\* External: the handler does what it is for.
Acts(k) ==
    /\ tools.work[k].handler = "running" /\ ~tools.work[k].acted
    /\ tools' = [tools EXCEPT !.work[k].acted = TRUE, !.work[k].late = tools.work[k].result # "none"]
    /\ UNCHANGED <<runs, signals, closes>>

\* It returns or throws; normalizeToolResult makes an output that is too large or no JSON
\* a failure.
Returns(k) ==
    /\ tools.work[k].handler = "running"
    /\ \E outcome \in {"completed", "failed", "cancelled", "outcome_unknown"} :
          /\ outcome = "completed" => tools.work[k].acted
          /\ tools' = [tools EXCEPT !.work[k].handler = "done",
                                    !.work[k].result = IF @ = "none" THEN outcome ELSE @]
    /\ UNCHANGED <<runs, signals, closes>>

\* Mistake: the runner is closed when it has drained.
ClosesLate(x) ==
    LET active == {k \in Dispatched : ~IsOver(k)} IN
    /\ closes[x].at = "none"
    /\ tools' = [tools EXCEPT !.closed = (active = {}), !.work = [k \in Keys |->
          IF k \in active THEN Abort(@[k], "closed") ELSE @[k]]]
    /\ closes' = [closes EXCEPT ![x] = [at |-> IF active = {} THEN "drained" ELSE "waiting", active |-> active]]
    /\ UNCHANGED <<runs, signals>>

\* close(): what is active is aborted and waited for; with a deadline that is none it
\* throws, and the runner is closed all the same.
Closes(x) ==
    LET active == {k \in Dispatched : ~IsOver(k)} IN
    /\ closes[x].at = "none"
    /\ \/ /\ tools' = [tools EXCEPT !.closed = TRUE, !.work = [k \in Keys |->
                IF k \in active THEN Abort(@[k], "closed") ELSE @[k]]]
          /\ closes' = [closes EXCEPT ![x] =
                [at |-> IF active = {} THEN "drained" ELSE "waiting", active |-> active]]
       \/ tools' = [tools EXCEPT !.closed = TRUE] /\ closes' = [closes EXCEPT ![x].at = "thrown"]
    /\ UNCHANGED <<runs, signals>>

Drains(x) ==
    /\ closes[x].at = "waiting" /\ \A k \in closes[x].active : IsOver(k)
    /\ closes' = [closes EXCEPT ![x].at = "drained"]
    /\ UNCHANGED <<tools, runs, signals>>

\* The deadline: the answer tells what is pending.
ClosesAnyway(x) ==
    /\ closes[x].at = "waiting"
    /\ closes' = [closes EXCEPT ![x].at = "left", ![x].active = {k \in @ : ~IsOver(k)}]
    /\ UNCHANGED <<tools, runs, signals>>

-----------------------------------------------------------------------------
(* The ledger                                                              *)

invocationTerminal == {"completed", "failed", "cancelled", "outcome_unknown"}

transition(k, from, to) ==
    /\ ledger[k].state \in from
    /\ ledger' = [ledger EXCEPT ![k].state = to]

Prepares(k, effect) ==
    /\ ledger[k].state = "absent"
    /\ ledger' = [ledger EXCEPT ![k] = [state |-> "prepared", effect |-> effect]]

\* Mistake: only what has ended cannot be cancelled.
CancelsUnlessEnded(k) ==
    transition(k, {"prepared", "waiting_confirmation", "running", "committed"}, "cancelled")

\* cancel(): false, and nothing changed, from the commit on.
CancelsInvocation(k) == transition(k, {"prepared", "waiting_confirmation", "running"}, "cancelled")

FinishesInvocation(k) ==
    LET external == ledger[k].effect = "external" IN
    \/ transition(k, IF external THEN {"running", "committed"} ELSE {"running"}, "failed")
    \/ transition(k, IF external THEN {"committed"} ELSE {"running"}, "completed")
    \/ external /\ transition(k, {"committed"}, "outcome_unknown")

LedgerNext == \E k \in Keys :
    \/ \E effect \in Effects : Prepares(k, effect)
    \/ transition(k, {"prepared"}, "waiting_confirmation")
    \/ transition(k, {"prepared", "waiting_confirmation"}, "running")
    \/ transition(k, {"running"}, "committed")
    \/ CancelsInvocation(k) \/ FinishesInvocation(k)

RunnerNext ==
    \/ \E c \in Callers : Signals(c) \/ \E k \in Keys, content \in Bodies, p \in Runnable : Runs(c, k, content, p)
    \/ \E k \in Keys : Starts(k) \/ TimesOut(k) \/ Acts(k) \/ Returns(k)
    \/ \E x \in Closers : Closes(x) \/ Drains(x) \/ ClosesAnyway(x)

\* Microtasks and timers; never a handler.
RunnerFairness ==
    /\ \A k \in Keys : WF_runnerVars(Starts(k)) /\ WF_runnerVars(TimesOut(k))
    /\ \A x \in Closers : WF_runnerVars(Drains(x) \/ ClosesAnyway(x))

\* The two are not connected: a step is of one of them.
RunnerSpec ==
    /\ RunnerInit
    /\ [][\/ RunnerNext /\ UNCHANGED ledger
          \/ LedgerNext /\ UNCHANGED runnerVars]_<<runnerVars, ledger>>
    /\ RunnerFairness

-----------------------------------------------------------------------------
\* An external tool that acts after its answer was given was answered "outcome unknown",
\* unless its own caller cancelled it; a runner that says it has drained runs nothing, and
\* never will again.
RunnerIsHonest ==
    /\ \A k \in Dispatched : LET d == tools.work[k] IN
          d.late /\ d.effect = "external" =>
              \/ d.result = "outcome_unknown"
              \/ d.result = "cancelled" /\ d.why = "cancelled"
    /\ \A x \in Closers : closes[x].at = "drained" => tools.closed /\ \A k \in Dispatched : IsOver(k)

\* However the handlers behave, each dispatch is answered and each close returns.
RunnerAnswers ==
    /\ \A k \in Keys : k \in Dispatched ~> k \in Dispatched /\ tools.work[k].result # "none"
    /\ \A x \in Closers : closes[x].at = "waiting" ~> closes[x].at # "waiting"

\* What was committed is never labelled cancelled, an external effect is not said to have
\* completed without its commit, and an outcome stands (docs/agent-lifecycle.md:123-125).
CommitStands ==
    [][\A k \in Keys : LET old == ledger[k].state new == ledger'[k].state IN
          /\ old \in invocationTerminal => new = old
          /\ old = "committed" => new # "cancelled"
          /\ new = "completed" /\ new # old /\ ledger[k].effect = "external" => old = "committed"]_ledger

\* What the tools' boundary tells of an effect is true, and stays so.
ToolsAreAccounted == []RunnerIsHonest /\ CommitStands

\* What the ledger forbids its runner does: no external tool that acted is called cancelled
\* or failed.  No run checks it: its caller's signal makes it cancelled, an exception or an
\* output that is too large a failure.
ActedIsNotDenied == \A k \in Dispatched : LET d == tools.work[k] IN
    d.effect = "external" /\ d.acted => d.result \notin {"cancelled", "failed"}
=============================================================================
