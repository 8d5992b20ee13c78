----------------------------- MODULE VoiceBank -----------------------------
(***************************************************************************)
(* The voice bank behind the gateway (apps/realtime-gateway/src/server.ts):*)
(* the requests of one account that put a voice into the registries of the *)
(* engines, what each of them reserves of the account's allowance, and     *)
(* what it gives back.  They are under way together:                       *)
(*   "fanout"   POST /v1/voices with engines in the form: one upload,      *)
(*              copied to each of them                                     *)
(*   "single"   the same for one engine                                    *)
(*   "design"   POST /v1/design-profiles                                   *)
(*   "promote"  a capture of the library becomes a voice                   *)
(*   "spoken"   registerVoice, asked for in a conversation                 *)
(*                                                                         *)
(* One voice id; a reference (audio with its transcript) is one of Takes.  *)
(* The window of the allowance is QuotaLedger's, here it stays open.       *)
(***************************************************************************)
EXTENDS Naturals, FiniteSets, FiniteSetsExt

CONSTANTS
    Engines,    \* the TTS engines
    Takes,      \* references
    Asks,       \* requests
    Allowance,  \* quota.operations
    NoTake      \* the registry of an engine has no such voice

ASSUME VoiceAssumption ==
    /\ IsFiniteSet(Engines) /\ Engines # {} /\ IsFiniteSet(Asks)
    /\ Allowance \in Nat \ {0} /\ NoTake \notin Takes

VARIABLES
    spent,  \* the account's count in the ledger
    asks,   \* the requests
    bank    \* what each engine has under the id

voiceVars == <<spent, asks, bank>>

Kinds == {"fanout", "single", "design", "promote", "spoken"}

\* A request: where it is, the charges it still answers for, and its calls.  A call is
\* "out" until the engine has "taken" or "refused" the voice, and "heard" when the answer
\* is back; "lost" when fetch threw, whatever the engine had done by then.
NoCall == [e \in Engines |-> "none"]
Idle == [kind |-> "none", stage |-> "none", take |-> NoTake, charges |-> 0, call |-> NoCall]
Open(c) == c \in {"out", "taken", "refused"}
Called(a) == {e \in Engines : asks[a].call[e] # "none"}

VoiceInit == spent = 0 /\ asks = [a \in Asks |-> Idle] /\ bank = [e \in Engines |-> NoTake]

-----------------------------------------------------------------------------
\* refundOne: nothing where there is no charge left.
refundOne(a) ==
    /\ asks[a].charges > 0
    /\ spent' = spent - 1

\* Answered, with all it still held given back (refund) ...
Refund(a) ==
    /\ spent' = spent - asks[a].charges
    /\ asks' = [asks EXCEPT ![a].stage = "answered", ![a].charges = 0]
    /\ UNCHANGED bank

\* The charge of the route, before the body is read; the spoken tool has its own.
Asked(a, kind, take) ==
    /\ asks[a].stage = "none"
    /\ IF spent < Allowance
       THEN spent' = spent + 1 /\ asks' = [asks EXCEPT ![a] = [Idle EXCEPT !.kind = kind, !.stage = "reading", !.take = take, !.charges = 1]]
       ELSE UNCHANGED spent /\ asks' = [asks EXCEPT ![a] = [Idle EXCEPT !.kind = kind, !.stage = "answered"]]
    /\ UNCHANGED bank

Registers(a, take) == \E kind \in {"fanout", "single"} : Asked(a, kind, take)
Designs(a, take) == Asked(a, "design", take)
Promotes(a, take) == Asked(a, "promote", take)
Speaks(a, take) == Asked(a, "spoken", take)

\* A bad id, form, engine or capture, the demo: a refusal of the gateway itself is free.
TurnedAway(a) == asks[a].stage = "reading" /\ asks[a].kind # "spoken" /\ Refund(a)

\* ... but for an engine that does not exist, named to a design profile or a promotion, a
\* library that closes under one, or a spoken request where no engine speaks.
Misdirected(a) ==
    /\ asks[a].stage = "reading" /\ asks[a].kind \in {"design", "promote", "spoken"}
    /\ asks' = [asks EXCEPT ![a].stage = "misdirected"]
    /\ UNCHANGED <<spent, bank>>

\* Mistake: the targets are called while the charges are being reserved.
CallsWhileCharging(a, targets) ==
    LET more == Cardinality(targets) - 1
        paid == Min({more, Allowance - spent}) IN
    /\ asks[a].stage = "reading" /\ targets # {}
    /\ asks[a].kind # "fanout" => more = 0
    /\ spent' = spent + paid
    /\ asks' = [asks EXCEPT ![a].stage = "calling", ![a].charges = @ + paid,
                   ![a].call = [e \in Engines |-> IF e \in targets THEN "out" ELSE "none"]]
    /\ UNCHANGED bank

\* chargeAdditional, and the calls of Promise.all: as many charges as engines, or none.
Calls(a, targets) ==
    LET more == Cardinality(targets) - 1 IN
    /\ asks[a].stage = "reading" /\ targets # {}
    /\ asks[a].kind # "fanout" => more = 0
    /\ IF spent + more > Allowance THEN Refund(a)
       ELSE /\ spent' = spent + more
            /\ asks' = [asks EXCEPT ![a].stage = "calling", ![a].charges = @ + more,
                           ![a].call = [e \in Engines |-> IF e \in targets THEN "out" ELSE "none"]]
            /\ UNCHANGED bank

\* External: an engine registers the voice, over whatever it had, or refuses it.
EngineTakes(a, e) ==
    /\ asks[a].call[e] = "out"
    /\ asks' = [asks EXCEPT ![a].call[e] = "taken"]
    /\ bank' = [bank EXCEPT ![e] = asks[a].take]
    /\ UNCHANGED spent

EngineRefuses(a, e) ==
    /\ asks[a].call[e] = "out"
    /\ asks' = [asks EXCEPT ![a].call[e] = "refused"]
    /\ UNCHANGED <<spent, bank>>

\* Mistake: an unreachable engine gives back all the request has been charged.
UnreachableRefundsAll(a, e) ==
    /\ Open(asks[a].call[e])
    /\ spent' = spent - asks[a].charges
    /\ asks' = [asks EXCEPT ![a].call[e] = "lost", ![a].charges = 0]
    /\ UNCHANGED bank

\* fetch throws: one engine's charge goes back.
Unreachable(a, e) ==
    /\ Open(asks[a].call[e])
    /\ refundOne(a)
    /\ asks' = [asks EXCEPT ![a].call[e] = "lost", ![a].charges = @ - 1]
    /\ UNCHANGED bank

Heard(a, e) ==
    /\ asks[a].call[e] \in {"taken", "refused"}
    /\ asks' = [asks EXCEPT ![a].call[e] = "heard"]
    /\ UNCHANGED <<spent, bank>>

\* Every result is in: 201, 207 or 502.
Results(a) ==
    /\ asks[a].stage = "calling" /\ \A e \in Engines : ~Open(asks[a].call[e])
    /\ asks' = [asks EXCEPT ![a].stage = "answered"]
    /\ UNCHANGED <<spent, bank>>

\* DELETE /v1/voices/{id}: passed on to its engine, and free.
Deletes(e) ==
    /\ bank[e] # NoTake
    /\ bank' = [bank EXCEPT ![e] = NoTake]
    /\ UNCHANGED <<spent, asks>>

\* GET /v1/voices: what the engines have, under the names of the viewer; free, and a dead
\* engine is passed over.
Lists == UNCHANGED voiceVars

VoiceNext ==
    \/ Lists
    \/ \E e \in Engines : Deletes(e)
    \/ \E a \in Asks :
          \/ TurnedAway(a) \/ Misdirected(a) \/ Results(a)
          \/ \E take \in Takes : Registers(a, take) \/ Designs(a, take) \/ Promotes(a, take) \/ Speaks(a, take)
          \/ \E targets \in SUBSET Engines : Calls(a, targets)
          \/ \E e \in Engines : EngineTakes(a, e) \/ EngineRefuses(a, e) \/ Unreachable(a, e) \/ Heard(a, e)

-----------------------------------------------------------------------------
VoiceTypeOK ==
    /\ spent \in 0..Allowance /\ bank \in [Engines -> Takes \union {NoTake}]
    /\ asks \in [Asks -> [kind : Kinds \union {"none"}, take : Takes \union {NoTake},
                          stage : {"none", "reading", "calling", "answered", "misdirected"},
                          charges : 0..Allowance,
                          call : [Engines -> {"none", "out", "taken", "refused", "heard", "lost"}]]]

\* The charges of the account, one by one.
Charges == {c \in Asks \X (1..Allowance) : c[2] <= asks[c[1]].charges}

\* What is paid is what was done: the ledger holds the charges of the requests and no
\* more than the allowance; a request pays once for each engine whose answer it has or
\* may still get, and when it is over for each that answered (a misdirected one apart);
\* one that could not pay for all of its engines has reached none.
PaidIsDone ==
    /\ spent = Cardinality(Charges)
    /\ spent <= Allowance
    /\ \A a \in Asks : LET r == asks[a] IN
          /\ r.stage \in {"calling", "answered"} =>
                r.charges = Cardinality({e \in Engines : Open(r.call[e]) \/ r.call[e] = "heard"})
          /\ r.stage \in {"reading", "misdirected"} => r.charges = 1 /\ Called(a) = {}

\* A refusal of the gateway itself costs nothing (server.ts:1207-1212).  No run checks
\* it: a misdirected request is refused and stays charged.
MisdirectedIsFree == \A a \in Asks : asks[a].stage = "misdirected" => asks[a].charges = 0
=============================================================================
