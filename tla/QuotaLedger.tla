----------------------------- MODULE QuotaLedger -----------------------------
(***************************************************************************)
(* The per-account usage quota (apps/realtime-gateway/src/quota.ts): a     *)
(* fixed window of charges per account, opened by its first charge, with   *)
(* refunds for requests that cost nothing and a sweep of windows that have *)
(* passed.  A charge and its refund are separate calls with a whole        *)
(* request between them.                                                   *)
(***************************************************************************)
EXTENDS Integers

CONSTANTS
    Users,
    Operations,  \* the allowance of one window
    Window,      \* the window's length
    MaxTime      \* bound: the clock of a run

ASSUME QuotaAssumption ==
    /\ Operations \in Nat \ {0}
    /\ Window \in Nat \ {0}
    /\ MaxTime \in Nat

VARIABLES
    now,        \* clock()
    windows,    \* each user's window; count 0 and resetAt 0 when absent
    lastSweep,  \* lastSweep
    held,       \* requests charged to the present window, outcome unknown
    late,       \* requests charged to an earlier window, outcome unknown
    spent       \* charges of the present window not given back

ledgerVars == <<now, windows, lastSweep, held, late, spent>>

NoWindow == [count |-> 0, resetAt |-> 0]

\* The epoch is more than a window ago: the first charge always sweeps.
LedgerInit == /\ now = Window
              /\ windows = [u \in Users |-> NoWindow]
              /\ lastSweep = 0
              /\ held = [u \in Users |-> 0]
              /\ late = [u \in Users |-> 0]
              /\ spent = [u \in Users |-> 0]

Live(u) == now < windows[u].resetAt

\* sweep(): at most once per window length, drop what has passed.
Swept == IF now - lastSweep < Window THEN windows
         ELSE [u \in Users |-> IF Live(u) THEN windows[u] ELSE NoWindow]

SweptAt == IF now - lastSweep < Window THEN lastSweep ELSE now

\* The first charge of a window; what was held is now a late request.
OpenWindow(u) ==
    /\ ~Live(u)
    /\ windows' = [Swept EXCEPT ![u] = [count |-> 1, resetAt |-> now + Window]]
    /\ lastSweep' = SweptAt
    /\ held' = [held EXCEPT ![u] = 1]
    /\ late' = [late EXCEPT ![u] = @ + held[u]]
    /\ spent' = [spent EXCEPT ![u] = 1]
    /\ UNCHANGED now

Charge(u) ==
    /\ Live(u)
    /\ windows[u].count < Operations
    /\ windows' = [Swept EXCEPT ![u].count = @ + 1]
    /\ lastSweep' = SweptAt
    /\ held' = [held EXCEPT ![u] = @ + 1]
    /\ spent' = [spent EXCEPT ![u] = @ + 1]
    /\ UNCHANGED <<now, late>>

\* A refusal is not a charge; the sweep before it still happens.
ChargeRefused(u) ==
    /\ Live(u)
    /\ windows[u].count >= Operations
    /\ windows' = Swept
    /\ lastSweep' = SweptAt
    /\ UNCHANGED <<now, held, late, spent>>

\* refund(): whatever window is open when it arrives is credited.
Credited(u) ==
    IF Live(u) /\ windows[u].count > 0
    THEN [windows EXCEPT ![u].count = @ - 1] ELSE windows

\* The request was refused later on, or no engine could be reached.
Refund(u) ==
    /\ held[u] > 0
    /\ windows' = Credited(u)
    /\ held' = [held EXCEPT ![u] = @ - 1]
    /\ spent' = [spent EXCEPT ![u] = @ - 1]
    /\ UNCHANGED <<now, lastSweep, late>>

\* The same for a request that outlived the window it was charged to.
RefundLate(u) ==
    /\ late[u] > 0
    /\ windows' = Credited(u)
    /\ late' = [late EXCEPT ![u] = @ - 1]
    /\ UNCHANGED <<now, lastSweep, held, spent>>

\* The engine did the work.
Served(u) == /\ held[u] > 0
             /\ held' = [held EXCEPT ![u] = @ - 1]
             /\ UNCHANGED <<now, windows, lastSweep, late, spent>>

ServedLate(u) == /\ late[u] > 0
                 /\ late' = [late EXCEPT ![u] = @ - 1]
                 /\ UNCHANGED <<now, windows, lastSweep, held, spent>>

Tick == /\ now < MaxTime
        /\ now' = now + 1
        /\ UNCHANGED <<windows, lastSweep, held, late, spent>>

LedgerNext == Tick \/ \E u \in Users :
            \/ OpenWindow(u) \/ Charge(u) \/ ChargeRefused(u)
            \/ Refund(u) \/ RefundLate(u) \/ Served(u) \/ ServedLate(u)

LedgerSpec == LedgerInit /\ [][LedgerNext]_ledgerVars

-----------------------------------------------------------------------------
(* Properties.                                                             *)

\* Type invariant of the ledger.
LedgerTypeOK == /\ now \in Nat
                /\ windows \in [Users -> [count : Nat, resetAt : Nat]]
                /\ lastSweep \in Nat
                /\ held \in [Users -> Nat]
                /\ late \in [Users -> Nat]
                /\ spent \in [Users -> Nat]

\* However charges, refunds and sweeps interleave, no window counts more than
\* the allowance, and none counts more than its account really spent: nobody
\* is refused for somebody else's or an undone operation.
CountIsFair ==
    \A u \in Users : /\ windows[u].count <= Operations
                     /\ Live(u) => windows[u].count <= spent[u]

\* "Being over quota must never push the reset further away": a running
\* window keeps its end whatever is charged, refused, refunded or swept.
RunningWindowKeepsItsEnd ==
    [][ \A u \in Users : Live(u) => windows'[u].resetAt = windows[u].resetAt ]_ledgerVars

\* "Chargeable operations one account may spend per window."
AllowanceHolds == \A u \in Users : spent[u] <= Operations
=============================================================================
