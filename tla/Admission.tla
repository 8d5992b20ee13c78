------------------------------ MODULE Admission ------------------------------
(***************************************************************************)
(* The way of a request for speech (POST /v1/audio/speech) through the     *)
(* gateway, apps/realtime-gateway/src/server.ts: it is charged to its      *)
(* account, its body is read and judged, it passes the synthesis gate, and *)
(* the engine answers it.  At each of those points it may be turned away,  *)
(* and its charge is then given back.  SynthesisGate and QuotaLedger say   *)
(* what each of the two does in a call; this module says who calls which   *)
(* when.                                                                   *)
(***************************************************************************)
EXTENDS SynthesisGate, QuotaLedger

CONSTANT UserOf  \* the account behind each caller

ASSUME AdmissionAssumption == UserOf \in [Callers -> Users]

VARIABLES
    stage,   \* where each request is
    charged  \* its charges: none, or one, to the account's present window or
             \* to an earlier one

vars == <<gateVars, ledgerVars, stage, charged>>

Init == /\ GateInit
        /\ LedgerInit
        /\ stage = [c \in Callers |-> "idle"]
        /\ charged = [c \in Callers |-> "none"]

Stages == {"idle", "reading", "gate", "streaming"}

Goes(c, s) == stage' = [stage EXCEPT ![c] = s]

-----------------------------------------------------------------------------
(* What happens to a charge.                                               *)

\* refunded(), refund(): the charge is given back, once.
GiveBack(c) == /\ \/ charged[c] = "present" /\ Refund(UserOf[c])
                  \/ charged[c] = "earlier" /\ RefundLate(UserOf[c])
               /\ charged' = [charged EXCEPT ![c] = "none"]

\* The request ends without a refund.
Keep(c) == /\ \/ charged[c] = "present" /\ Served(UserOf[c])
              \/ charged[c] = "earlier" /\ ServedLate(UserOf[c])
           /\ charged' = [charged EXCEPT ![c] = "none"]

\* quota.charge() allows the request; in a new window, what the account has
\* under way belongs to an earlier one from now on.
Granted(c) ==
    \/ /\ OpenWindow(UserOf[c])
       /\ charged' = [d \in Callers |->
              CASE d = c -> "present"
                [] UserOf[d] = UserOf[c] /\ charged[d] = "present" -> "earlier"
                [] OTHER -> charged[d]]
    \/ /\ Charge(UserOf[c])
       /\ charged' = [charged EXCEPT ![c] = "present"]

-----------------------------------------------------------------------------
(* The request.                                                            *)

\* Charged after identity; its body is awaited next.
Arrives(c) == /\ stage[c] = "idle"
              /\ Granted(c)
              /\ Goes(c, "reading")
              /\ UNCHANGED gateVars

OverQuota(c) == /\ stage[c] = "idle"
                /\ ChargeRefused(UserOf[c])
                /\ UNCHANGED <<gateVars, stage, charged>>

\* No JSON, a bad voice, a text too long: refused, and not paid for.
Refused(c) == /\ stage[c] = "reading"
              /\ GiveBack(c)
              /\ Goes(c, "idle")
              /\ UNCHANGED gateVars

\* No engine of the name asked for: returned as it is, without refunded().
\* (The code finds this out before it awaits the body; a request of another
\* caller may come in between here, which makes no difference to either.)
NoSuchEngine(c) == /\ stage[c] = "reading"
                   /\ Keep(c)
                   /\ Goes(c, "idle")
                   /\ UNCHANGED gateVars

ReachesGate(c) == /\ stage[c] = "reading"
                  /\ Enter(c) \/ Wait(c) \/ Refuse(c)
                  /\ Goes(c, "gate")
                  /\ UNCHANGED <<ledgerVars, charged>>

\* A turn in the queue has come.
GetsSlot(c) == /\ Resume(c)
               /\ UNCHANGED <<ledgerVars, stage, charged>>

\* Mistake: the refusal for saturation forgets the charge.
BusyUnrefunded(c) == /\ Retry(c)
                     /\ charged' = [charged EXCEPT ![c] = "none"]
                     /\ Goes(c, "idle")
                     /\ UNCHANGED ledgerVars

\* SynthesisBusyError is caught: a 429 that costs nothing.
Busy(c) == /\ Retry(c)
           /\ GiveBack(c)
           /\ Goes(c, "idle")

\* fetch fails: onUnreachable, a 502, and run()'s finally block.
Unreachable(c) == /\ Finish(c)
                  /\ GiveBack(c)
                  /\ Goes(c, "idle")

\* fetch yields the response's head, and run() is over; the body may be still
\* in the making while it streams through to the caller.
Answers(c) == /\ Finish(c)
              /\ Keep(c)
              /\ Goes(c, "idle") \/ Goes(c, "streaming")

StreamEnds(c) == /\ stage[c] = "streaming"
                 /\ Goes(c, "idle")
                 /\ UNCHANGED <<gateVars, ledgerVars, charged>>

TimePasses == /\ Tick
              /\ UNCHANGED <<gateVars, stage, charged>>

Next == \/ TimePasses
        \/ \E c \in Callers :
              \/ Arrives(c) \/ OverQuota(c) \/ Refused(c) \/ NoSuchEngine(c)
              \/ ReachesGate(c) \/ GetsSlot(c) \/ Busy(c)
              \/ Unreachable(c) \/ Answers(c) \/ StreamEnds(c)

Spec == Init /\ [][Next]_vars

\* A body arrives or its connection breaks, fetch settles, and what is ready
\* to run in the gateway runs.
Fairness == \A c \in Callers :
    /\ WF_vars(Refused(c) \/ NoSuchEngine(c) \/ ReachesGate(c))
    /\ WF_vars(GetsSlot(c))
    /\ WF_vars(Busy(c))
    /\ WF_vars(Unreachable(c) \/ Answers(c))

FairSpec == Spec /\ Fairness

-----------------------------------------------------------------------------
(* Properties.                                                             *)

\* Type invariant; a request is in the gate when its run() is.
TypeOK == /\ GateTypeOK
          /\ LedgerTypeOK
          /\ stage \in [Callers -> Stages]
          /\ charged \in [Callers -> {"none", "present", "earlier"}]
          /\ \A c \in Callers : stage[c] = "gate" <=> at[c] # "outside"

\* The requests of an account that hold a charge to a window.
ChargedTo(u, w) == {c \in Callers : UserOf[c] = u /\ charged[c] = w}

\* Every charge belongs to one request under way and to no other: none is lost
\* when a request is turned away, none is given back twice, in whichever
\* window that happens.
ChargesAreHeld ==
    \A u \in Users : /\ held[u] = Cardinality(ChargedTo(u, "present"))
                     /\ late[u] = Cardinality(ChargedTo(u, "earlier"))

\* Every charged request is answered one way or another, and its charge with
\* it is kept or given back for good.
EveryChargeIsDecided == \A c \in Callers : charged[c] # "none" ~> charged[c] = "none"

\* "A refusal this gateway makes itself, or an engine it could not reach, spent
\* no model time - so it must spend no allowance either": a request that ends
\* without having been at the engine is not kept on the account.
RefusalsAreFree ==
    [][ \A c \in Callers :
          charged[c] = "present" /\ charged'[c] = "none" /\ at[c] # "working"
            => spent'[UserOf[c]] < spent[UserOf[c]] ]_vars

\* "Requests allowed to reach the engine at once": no more than maxInFlight
\* requests are with the engine, streams still in the making included.
EngineIsSpared ==
    Cardinality({c \in Callers : at[c] = "working" \/ stage[c] = "streaming"}) <= MaxInFlight
=============================================================================
