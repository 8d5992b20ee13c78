-------------------------- MODULE Endpoints_proofs --------------------------
(***************************************************************************)
(* The ways into the gateway, and who is let in.                           *)
(*                                                                         *)
(* The gate, the ledger and the request path that uses both, for any       *)
(* callers, accounts and limits.  The gate's counter is tied to the        *)
(* callers at work by their cardinality; a refund of the running window is *)
(* covered by a charge of that window (Covered).  The path uses the two    *)
(* only in the ways they allow, so what is proved of each holds of both    *)
(* together; and every charge belongs to exactly one request under way.    *)
(*                                                                         *)
(* The ways in from outside the gateway's own protocol, and the microphone *)
(* at its far end.  What settles a function call of the realtime dialect   *)
(* is its own answer, its own deadline or the end of its turn, for any     *)
(* number of calls and turns; the LiveKit adapter keeps its limits, and    *)
(* reservations and sessions are held by those they belong to, for any     *)
(* requests, owners and limits; a room says that it has played a reply     *)
(* when it has played all of it; a microphone is held once while it        *)
(* captures and not at all after a stop, for any streams and incidents;    *)
(* and a conversation of the studio that listens is the one the page       *)
(* knows, for any conversations.                                           *)
(***************************************************************************)
EXTENDS Admission, RealtimeEndpoint, LiveKitRoom, LiveKitAudio, MicCapture, StudioConversation,
        FiniteSetTheorems, SequenceTheorems, TLAPS

-----------------------------------------------------------------------------
(* The synthesis gate.                                                     *)

\* The queue holds callers that wait.
QueueWaits == \A i \in 1..Len(waiting) : at[waiting[i]] = "waiting"

\* The queue holds nobody twice.
QueueDistinct ==
    \A i, j \in 1..Len(waiting) : waiting[i] = waiting[j] => i = j

GateInv == /\ GateTypeOK
           /\ NoSlotLeaks
           /\ QueueIsShallow
           /\ NobodyWaitsForAFreeSlot
           /\ QueueWaits
           /\ QueueDistinct

\* The number of callers that a, at some moment, has in one place.
Count(a, p) == Cardinality({c \in Callers : a[c] = p})

\* There are finitely many callers anywhere.
LEMMA CountNat ==
  ASSUME NEW a, NEW p
  PROVE  IsFiniteSet({c \in Callers : a[c] = p}) /\ Count(a, p) \in Nat
  BY GateAssumption, FS_Subset, FS_CardinalityType DEF Count

\* Where everybody is once one caller has moved.
Moved(a, c, q) == [a EXCEPT ![c] = q]

\* One caller moves: one place gains it and another loses it.
LEMMA OneMoves ==
  ASSUME NEW a \in [Callers -> Places], NEW c \in Callers, NEW q \in Places,
         a[c] # q, NEW b, b = Moved(a, c, q)
  PROVE  /\ b \in [Callers -> Places]
         /\ \A p : Count(b, p) = IF p = q THEN Count(a, p) + 1
                                ELSE IF p = a[c] THEN Count(a, p) - 1
                                ELSE Count(a, p)
<1>1. b \in [Callers -> Places]
  BY DEF Moved
<1>2. ASSUME NEW p
      PROVE  Count(b, p) = IF p = q THEN Count(a, p) + 1
                           ELSE IF p = a[c] THEN Count(a, p) - 1
                           ELSE Count(a, p)
  <2> DEFINE A == {x \in Callers : a[x] = p}
             B == {x \in Callers : b[x] = p}
  <2>1. Count(a, p) = Cardinality(A) /\ Count(b, p) = Cardinality(B)
    BY DEF Count
  <2>2. IsFiniteSet(A)
    BY CountNat
  <2>3. /\ p = q => B = A \cup {c} /\ c \notin A
        /\ p # q /\ p = a[c] => B = A \ {c} /\ c \in A
        /\ p # q /\ p # a[c] => B = A
    BY DEF Moved
  <2> HIDE DEF A, B
  <2>4. CASE p = q
    BY <2>1, <2>2, <2>3, <2>4, FS_AddElement
  <2>5. CASE p # q /\ p = a[c]
    BY <2>1, <2>2, <2>3, <2>5, FS_RemoveElement
  <2>6. CASE p # q /\ p # a[c]
    BY <2>1, <2>3, <2>6
  <2> QED
    BY <2>4, <2>5, <2>6
<1> QED
  BY <1>1, <1>2

\* The gate's own words for the counts.
LEMMA CountsAre ==
  /\ NoSlotLeaks <=> inFlight = Count(at, "working")
  /\ NobodyWaitsForAFreeSlot <=>
        (waiting # <<>> => inFlight + Count(at, "resolved") >= MaxInFlight)
  BY DEF NoSlotLeaks, NobodyWaitsForAFreeSlot, CallersAt, Count

\* The same after a step.
LEMMA CountsAreNext ==
  /\ NoSlotLeaks' <=> inFlight' = Count(at', "working")
  /\ NobodyWaitsForAFreeSlot' <=>
        (waiting' # <<>> => inFlight' + Count(at', "resolved") >= MaxInFlight)
  BY DEF NoSlotLeaks, NobodyWaitsForAFreeSlot, CallersAt, Count

\* A caller that enters, resumes, is refused or retries leaves the queue alone.
LEMMA QueueKept ==
  ASSUME GateInv, NEW c \in Callers, NEW q, at[c] # "waiting",
         at' = [at EXCEPT ![c] = q], waiting' = waiting
  PROVE  QueueWaits' /\ QueueDistinct' /\ QueueIsShallow'
  BY DEF GateInv, GateTypeOK, QueueWaits, QueueDistinct, QueueIsShallow

\* Every action of the gate keeps the invariant.
LEMMA GateNextInv == GateInv /\ [GateNext]_gateVars => GateInv'
<1> SUFFICES ASSUME GateInv, [GateNext]_gateVars PROVE GateInv'
  OBVIOUS
<1>1. /\ GateTypeOK /\ inFlight \in Nat /\ waiting \in Seq(Callers)
      /\ at \in [Callers -> Places]
      /\ inFlight = Count(at, "working")
      /\ Count(at, "resolved") \in Nat /\ Count(at, "working") \in Nat
      /\ waiting # <<>> => inFlight + Count(at, "resolved") >= MaxInFlight
      /\ MaxInFlight \in Nat /\ MaxWaiting \in Nat
  BY GateAssumption, CountsAre, CountNat DEF GateInv, GateTypeOK
<1>2. /\ "outside" \in Places /\ "waiting" \in Places /\ "resolved" \in Places
      /\ "working" \in Places /\ "refused" \in Places
  BY DEF Places
<1>3. ASSUME NEW c \in Callers, Enter(c) PROVE GateInv'
  <2>1. /\ Count(at', "working") = Count(at, "working") + 1
        /\ Count(at', "resolved") = Count(at, "resolved")
        /\ at' \in [Callers -> Places]
    <3>1. at' = Moved(at, c, "working") /\ at[c] # "working"
      BY <1>3 DEF Enter, Moved
    <3>2. at[c] = "outside"
      BY <1>3 DEF Enter
    <3> QED
      BY <1>1, <1>2, <3>1, <3>2, OneMoves
  <2>2. QueueWaits' /\ QueueDistinct' /\ QueueIsShallow'
    BY <1>3, QueueKept DEF Enter
  <2> QED
    BY <1>1, <1>3, <2>1, <2>2, CountsAreNext DEF Enter, GateInv, GateTypeOK
<1>4. ASSUME NEW c \in Callers, Wait(c) PROVE GateInv'
  <2>1. /\ Count(at', "working") = Count(at, "working")
        /\ Count(at', "resolved") = Count(at, "resolved")
        /\ at' \in [Callers -> Places]
    <3>1. at' = Moved(at, c, "waiting") /\ at[c] # "waiting"
      BY <1>4 DEF Wait, Moved
    <3>2. at[c] = "outside"
      BY <1>4 DEF Wait
    <3> QED
      BY <1>1, <1>2, <3>1, <3>2, OneMoves
  <2>2. /\ waiting' \in Seq(Callers) /\ Len(waiting') = Len(waiting) + 1
        /\ \A i \in 1..Len(waiting) : waiting'[i] = waiting[i]
        /\ waiting'[Len(waiting) + 1] = c
    BY <1>1, <1>4 DEF Wait
  <2>3. QueueIsShallow'
    BY <1>1, <1>4, <2>2 DEF Wait, QueueIsShallow
  <2>4. \A i \in 1..Len(waiting) : waiting[i] # c /\ waiting[i] \in Callers
    BY <1>1, <1>4 DEF Wait, GateInv, QueueWaits
  <2>5. QueueWaits'
    BY <1>1, <1>4, <2>2, <2>4 DEF Wait, GateInv, QueueWaits
  <2>6. QueueDistinct'
    BY <1>1, <2>2, <2>4 DEF GateInv, QueueDistinct
  <2> QED
    BY <1>1, <1>4, <2>1, <2>2, <2>3, <2>5, <2>6, CountsAreNext DEF Wait, GateInv, GateTypeOK
<1>5. ASSUME NEW c \in Callers, Refuse(c) PROVE GateInv'
  <2>1. /\ Count(at', "working") = Count(at, "working")
        /\ Count(at', "resolved") = Count(at, "resolved")
        /\ at' \in [Callers -> Places]
    <3>1. at' = Moved(at, c, "refused") /\ at[c] # "refused"
      BY <1>5 DEF Refuse, Moved
    <3>2. at[c] = "outside"
      BY <1>5 DEF Refuse
    <3> QED
      BY <1>1, <1>2, <3>1, <3>2, OneMoves
  <2>2. QueueWaits' /\ QueueDistinct' /\ QueueIsShallow'
    BY <1>5, QueueKept DEF Refuse
  <2> QED
    BY <1>1, <1>5, <2>1, <2>2, CountsAreNext DEF Refuse, GateInv, GateTypeOK
<1>6. ASSUME NEW c \in Callers, Resume(c) PROVE GateInv'
  <2>1. /\ Count(at', "working") = Count(at, "working") + 1
        /\ Count(at', "resolved") = Count(at, "resolved") - 1
        /\ at' \in [Callers -> Places]
    <3>1. at' = Moved(at, c, "working") /\ at[c] # "working"
      BY <1>6 DEF Resume, Moved
    <3>2. at[c] = "resolved"
      BY <1>6 DEF Resume
    <3> QED
      BY <1>1, <1>2, <3>1, <3>2, OneMoves
  <2>2. QueueWaits' /\ QueueDistinct' /\ QueueIsShallow'
    BY <1>6, QueueKept DEF Resume
  <2> QED
    BY <1>1, <1>6, <2>1, <2>2, CountsAreNext DEF Resume, GateInv, GateTypeOK
<1>7. ASSUME NEW c \in Callers, Retry(c) PROVE GateInv'
  <2>1. /\ Count(at', "working") = Count(at, "working")
        /\ Count(at', "resolved") = Count(at, "resolved")
        /\ at' \in [Callers -> Places]
    <3>1. at' = Moved(at, c, "outside") /\ at[c] # "outside"
      BY <1>7 DEF Retry, Moved
    <3>2. at[c] = "refused"
      BY <1>7 DEF Retry
    <3> QED
      BY <1>1, <1>2, <3>1, <3>2, OneMoves
  <2>2. QueueWaits' /\ QueueDistinct' /\ QueueIsShallow'
    BY <1>7, QueueKept DEF Retry
  <2> QED
    BY <1>1, <1>7, <2>1, <2>2, CountsAreNext DEF Retry, GateInv, GateTypeOK
<1>8. ASSUME NEW c \in Callers, Finish(c), waiting = <<>> PROVE GateInv'
  <2>1. /\ Count(at', "working") = Count(at, "working") - 1
        /\ at' \in [Callers -> Places] /\ waiting' = <<>>
    <3>1. at' = Moved(at, c, "outside") /\ at[c] = "working" /\ waiting' = <<>>
      BY <1>8 DEF Finish, Moved
    <3> QED
      BY <1>1, <1>2, <3>1, OneMoves
  <2>2. Count(at', "working") \in Nat
    BY CountNat
  <2>3. QueueWaits' /\ QueueDistinct' /\ QueueIsShallow'
    BY <1>8, QueueKept DEF Finish
  <2> QED
    BY <1>1, <1>8, <2>1, <2>2, <2>3, CountsAreNext DEF Finish, GateInv, GateTypeOK
<1>9. ASSUME NEW c \in Callers, Finish(c), waiting # <<>> PROVE GateInv'
  <2> DEFINE h == Head(waiting)
             b == Moved(at, c, "outside")
  <2>1. /\ h \in Callers /\ h = waiting[1] /\ Len(waiting) \in Nat \ {0}
        /\ waiting' = Tail(waiting) /\ waiting' \in Seq(Callers)
        /\ Len(waiting') = Len(waiting) - 1
        /\ \A i \in 1..Len(waiting') : waiting'[i] = waiting[i + 1]
    <3>1. waiting' = Tail(waiting)
      BY <1>9 DEF Finish
    <3>2. Len(waiting) \in Nat \ {0}
      BY <1>1, <1>9
    <3>3. h = waiting[1] /\ h \in Callers
      BY <1>1, <3>2
    <3>4. /\ Tail(waiting) \in Seq(Callers) /\ Len(Tail(waiting)) = Len(waiting) - 1
          /\ \A i \in 1..Len(Tail(waiting)) : Tail(waiting)[i] = waiting[i + 1]
      BY <1>1, <1>9, <3>2
    <3> QED
      BY <3>1, <3>2, <3>3, <3>4
  <2>2. at[h] = "waiting" /\ at[c] = "working" /\ h # c
    BY <1>9, <2>1 DEF Finish, GateInv, QueueWaits
  <2>3. at' = Moved(b, h, "resolved") /\ b[h] = "waiting"
    BY <1>1, <1>9, <2>1, <2>2 DEF Finish, Moved
  <2>4. /\ b \in [Callers -> Places]
        /\ Count(b, "working") = Count(at, "working") - 1
        /\ Count(b, "resolved") = Count(at, "resolved")
    BY <1>1, <1>2, <2>2, OneMoves
  <2> HIDE DEF b, h
  <2>5. /\ Count(at', "working") = Count(at, "working") - 1
        /\ Count(at', "resolved") = Count(at, "resolved") + 1
        /\ at' \in [Callers -> Places] /\ Count(at', "working") \in Nat
    <3>1. /\ h \in Callers /\ b \in [Callers -> Places]
          /\ at' = Moved(b, h, "resolved") /\ b[h] = "waiting"
      BY <2>1, <2>3, <2>4
    <3>2. /\ at' \in [Callers -> Places]
          /\ Count(at', "working") = Count(b, "working")
          /\ Count(at', "resolved") = Count(b, "resolved") + 1
      BY <1>2, <3>1, OneMoves
    <3> QED
      BY <2>4, <3>2, CountNat
  <2>6. \A i \in 1..Len(waiting') :
           waiting[i + 1] # h /\ waiting[i + 1] # c
           /\ at[waiting[i + 1]] = "waiting" /\ waiting[i + 1] \in Callers
    BY <1>1, <2>1, <2>2 DEF GateInv, QueueWaits, QueueDistinct
  <2>7. QueueWaits'
    BY <1>1, <2>1, <2>3, <2>6 DEF QueueWaits, b, Moved
  <2>8. QueueDistinct'
    BY <1>1, <2>1 DEF GateInv, QueueDistinct
  <2>9. QueueIsShallow'
    BY <1>1, <2>1 DEF GateInv, QueueIsShallow
  <2>10. inFlight' = inFlight - 1
    BY <1>9 DEF Finish
  <2> QED
    BY <1>1, <1>9, <2>1, <2>5, <2>7, <2>8, <2>9, <2>10, CountsAreNext DEF GateInv, GateTypeOK
<1>10. CASE UNCHANGED gateVars
  BY <1>10 DEF gateVars, GateInv, GateTypeOK, NoSlotLeaks, CallersAt, QueueIsShallow,
               NobodyWaitsForAFreeSlot, QueueWaits, QueueDistinct
<1> QED
  BY <1>3, <1>4, <1>5, <1>6, <1>7, <1>8, <1>9, <1>10 DEF GateNext

\* An empty gate satisfies it.
LEMMA GateInitInv == GateInit => GateInv
<1> SUFFICES ASSUME GateInit PROVE GateInv
  OBVIOUS
<1>1. CallersAt("working") = {}
  BY DEF GateInit, CallersAt
<1> QED
  BY <1>1, FS_EmptySet, GateAssumption
     DEF GateInit, GateInv, GateTypeOK, Places, NoSlotLeaks, QueueIsShallow,
         NobodyWaitsForAFreeSlot, QueueWaits, QueueDistinct

\* For any callers and limits, the gate's bookkeeping is right.
THEOREM GateInvariant == GateSpec => []GateInv
  BY GateInitInv, GateNextInv, PTL DEF GateSpec

\* The counter never goes below zero, and the queue holds callers.
THEOREM GateTypeCorrect == GateSpec => []GateTypeOK
<1>1. GateInv => GateTypeOK
  BY DEF GateInv
<1> QED
  BY <1>1, GateInvariant, PTL

\* However work ends, the slots counted are those at work: none leaks.
THEOREM NoSlotEverLeaks == GateSpec => []NoSlotLeaks
<1>1. GateInv => NoSlotLeaks
  BY DEF GateInv
<1> QED
  BY <1>1, GateInvariant, PTL

\* The queue is never longer than maxQueued.
THEOREM QueueStaysShallow == GateSpec => []QueueIsShallow
<1>1. GateInv => QueueIsShallow
  BY DEF GateInv
<1> QED
  BY <1>1, GateInvariant, PTL

\* No wakeup is lost: nobody waits while a slot is free and nobody is about to
\* take it.
THEOREM NoWakeupIsLost == GateSpec => []NobodyWaitsForAFreeSlot
<1>1. GateInv => NobodyWaitsForAFreeSlot
  BY DEF GateInv
<1> QED
  BY <1>1, GateInvariant, PTL

-----------------------------------------------------------------------------
(* The quota.                                                              *)

\* What is still outstanding in the running window was spent in it.
Covered == \A u \in Users : held[u] <= spent[u]

LedgerInv == LedgerTypeOK /\ CountIsFair /\ Covered

Windows == [count : Nat, resetAt : Nat]

\* A sweep leaves running windows alone and may empty the others.
LEMMA SweptIs ==
  ASSUME LedgerTypeOK
  PROVE  /\ Swept \in [Users -> Windows]
         /\ SweptAt \in Nat
         /\ \A u \in Users : \/ Swept[u] = windows[u]
                             \/ ~Live(u) /\ Swept[u] = NoWindow
  BY DEF LedgerTypeOK, Windows, Swept, SweptAt, NoWindow

\* A charge raises one count, and leaves the ends of running windows alone.
LEMMA OpenWindowInv ==
  ASSUME LedgerInv, NEW v \in Users, OpenWindow(v)
  PROVE  LedgerInv'
<1>1. /\ LedgerTypeOK /\ Swept \in [Users -> Windows] /\ SweptAt \in Nat
      /\ \A u \in Users : Swept[u] = windows[u] \/ (~Live(u) /\ Swept[u] = NoWindow)
  BY SweptIs DEF LedgerInv
<1>2. [count |-> 1, resetAt |-> now + Window] \in Windows
  BY <1>1, QuotaAssumption DEF Windows, LedgerTypeOK
<1>3. /\ windows' \in [Users -> Windows]
      /\ windows'[v] = [count |-> 1, resetAt |-> now + Window]
      /\ \A u \in Users \ {v} : windows'[u] = Swept[u]
  BY <1>1, <1>2 DEF OpenWindow
<1>4. LedgerTypeOK'
  BY <1>1, <1>3 DEF LedgerTypeOK, OpenWindow, Windows
<1>5. CountIsFair'
  BY <1>1, <1>3, QuotaAssumption DEF LedgerTypeOK, LedgerInv, CountIsFair, OpenWindow, Live, NoWindow
<1>6. Covered'
  BY <1>1 DEF LedgerTypeOK, LedgerInv, Covered, OpenWindow
<1> QED
  BY <1>4, <1>5, <1>6 DEF LedgerInv

\* The same within the allowance of a running window.
LEMMA ChargeInv ==
  ASSUME LedgerInv, NEW v \in Users, Charge(v)
  PROVE  LedgerInv'
<1>1. /\ LedgerTypeOK /\ Swept \in [Users -> Windows] /\ SweptAt \in Nat
      /\ \A u \in Users : Swept[u] = windows[u] \/ (~Live(u) /\ Swept[u] = NoWindow)
      /\ Swept[v] = windows[v]
  BY SweptIs DEF LedgerInv, Charge
<1>2. /\ windows' \in [Users -> Windows]
      /\ windows'[v] = [windows[v] EXCEPT !.count = @ + 1]
      /\ \A u \in Users \ {v} : windows'[u] = Swept[u]
  BY <1>1 DEF Charge, Windows
<1>3. windows'[v].count = windows[v].count + 1 /\ windows'[v].resetAt = windows[v].resetAt
  BY <1>1, <1>2 DEF LedgerTypeOK
<1>4. LedgerTypeOK'
  BY <1>1, <1>2 DEF LedgerTypeOK, Charge, Windows
<1>5. CountIsFair'
  <2> SUFFICES ASSUME NEW u \in Users
               PROVE  /\ windows'[u].count <= Operations
                      /\ Live(u)' => windows'[u].count <= spent'[u]
    BY DEF CountIsFair
  <2>1. CASE u = v
    BY <1>1, <1>3, <2>1, QuotaAssumption DEF LedgerTypeOK, LedgerInv, CountIsFair, Charge, Live
  <2>2. CASE u # v
    BY <1>1, <1>2, <2>2, QuotaAssumption
       DEF LedgerTypeOK, LedgerInv, CountIsFair, Charge, Live, NoWindow
  <2> QED
    BY <2>1, <2>2
<1>6. Covered'
  BY <1>1 DEF LedgerTypeOK, LedgerInv, Covered, Charge
<1> QED
  BY <1>4, <1>5, <1>6 DEF LedgerInv

\* A refusal changes no running window.
LEMMA ChargeRefusedInv ==
  ASSUME LedgerInv, NEW v \in Users, ChargeRefused(v)
  PROVE  LedgerInv'
<1>1. /\ LedgerTypeOK /\ Swept \in [Users -> Windows] /\ SweptAt \in Nat
      /\ \A u \in Users : Swept[u] = windows[u] \/ (~Live(u) /\ Swept[u] = NoWindow)
  BY SweptIs DEF LedgerInv
<1>2. LedgerTypeOK'
  BY <1>1 DEF LedgerTypeOK, ChargeRefused, Windows
<1>3. CountIsFair'
  <2> SUFFICES ASSUME NEW u \in Users
               PROVE  /\ windows'[u].count <= Operations
                      /\ Live(u)' => windows'[u].count <= spent'[u]
    BY DEF CountIsFair
  <2>1. windows'[u] = Swept[u] /\ now' = now /\ spent' = spent
    BY DEF ChargeRefused
  <2>2. CASE Swept[u] = windows[u]
    BY <2>1, <2>2 DEF LedgerInv, CountIsFair, Live
  <2>3. CASE Swept[u] = NoWindow
    BY <1>1, <2>1, <2>3, QuotaAssumption DEF NoWindow, LedgerTypeOK, Live
  <2> QED
    BY <1>1, <2>2, <2>3
<1>4. Covered'
  BY DEF LedgerInv, Covered, ChargeRefused
<1> QED
  BY <1>2, <1>3, <1>4 DEF LedgerInv

\* What a refund leaves of the windows.
LEMMA CreditedIs ==
  ASSUME LedgerTypeOK, NEW v \in Users
  PROVE  /\ Credited(v) \in [Users -> Windows]
         /\ \A u \in Users : Credited(v)[u].resetAt = windows[u].resetAt
         /\ \A u \in Users \ {v} : Credited(v)[u] = windows[u]
         /\ Credited(v)[v].count <= windows[v].count
         /\ Live(v) => \/ Credited(v)[v].count = windows[v].count - 1
                       \/ Credited(v)[v].count = 0
  BY DEF LedgerTypeOK, Windows, Credited

\* A refund gives back at most what its window was charged.
LEMMA RefundInv ==
  ASSUME LedgerInv, NEW v \in Users, Refund(v) \/ RefundLate(v)
  PROVE  LedgerInv'
<1>1. /\ LedgerTypeOK /\ windows' = Credited(v) /\ now' = now
      /\ windows' \in [Users -> Windows]
      /\ \A u \in Users : windows'[u].resetAt = windows[u].resetAt
      /\ \A u \in Users \ {v} : windows'[u] = windows[u]
      /\ windows'[v].count <= windows[v].count
      /\ Live(v) => \/ windows'[v].count = windows[v].count - 1
                    \/ windows'[v].count = 0
  BY CreditedIs DEF LedgerInv, Refund, RefundLate
<1>2. /\ spent'[v] = spent[v] \/ (spent'[v] = spent[v] - 1 /\ held[v] > 0)
      /\ \A u \in Users \ {v} : spent'[u] = spent[u]
  BY <1>1 DEF LedgerTypeOK, Refund, RefundLate
<1>3. spent[v] \in Nat /\ held[v] \in Nat /\ held[v] <= spent[v]
  BY <1>1 DEF LedgerTypeOK, LedgerInv, Covered
<1>4. LedgerTypeOK'
  BY <1>1, <1>3, SMTT(30) DEF LedgerTypeOK, Refund, RefundLate, Windows
<1>5. CountIsFair'
  <2> SUFFICES ASSUME NEW u \in Users
               PROVE  /\ windows'[u].count <= Operations
                      /\ Live(u)' => windows'[u].count <= spent'[u]
    BY DEF CountIsFair
  <2>1. /\ windows[u].count <= Operations
        /\ Live(u) => windows[u].count <= spent[u]
        /\ Live(u)' <=> Live(u)
        /\ windows[u].count \in Nat /\ windows'[u].count \in Nat
    BY <1>1 DEF LedgerInv, CountIsFair, Live, LedgerTypeOK, Windows
  <2>2. CASE u = v
    BY <1>1, <1>2, <1>3, <2>1, <2>2, QuotaAssumption
  <2>3. CASE u # v
    BY <1>1, <1>2, <2>1, <2>3
  <2> QED
    BY <2>2, <2>3
<1>6. Covered'
  BY <1>1 DEF LedgerTypeOK, LedgerInv, Covered, Refund, RefundLate
<1> QED
  BY <1>4, <1>5, <1>6 DEF LedgerInv

\* Every action of the ledger keeps the invariant.
LEMMA LedgerNextInv == LedgerInv /\ [LedgerNext]_ledgerVars => LedgerInv'
<1> SUFFICES ASSUME LedgerInv, [LedgerNext]_ledgerVars PROVE LedgerInv'
  OBVIOUS
<1>1. CASE Tick
  BY <1>1 DEF Tick, LedgerInv, LedgerTypeOK, CountIsFair, Covered, Live
<1>2. ASSUME NEW u \in Users, Served(u) \/ ServedLate(u) PROVE LedgerInv'
  BY <1>2 DEF Served, ServedLate, LedgerInv, LedgerTypeOK, CountIsFair, Covered, Live
<1>3. CASE UNCHANGED ledgerVars
  BY <1>3 DEF ledgerVars, LedgerInv, LedgerTypeOK, CountIsFair, Covered, Live
<1> QED
  BY <1>1, <1>2, <1>3, OpenWindowInv, ChargeInv, ChargeRefusedInv, RefundInv DEF LedgerNext

\* For any accounts, allowance and window, the bookkeeping is right.
THEOREM LedgerInvariant == LedgerSpec => []LedgerInv
<1>1. LedgerInit => LedgerInv
  BY QuotaAssumption DEF LedgerInit, LedgerInv, LedgerTypeOK, CountIsFair, Covered, Live, NoWindow
<1> QED
  BY <1>1, LedgerNextInv, PTL DEF LedgerSpec

\* No window counts more than its allowance or than its account spent.
THEOREM CountStaysFair == LedgerSpec => []CountIsFair
<1>1. LedgerInv => CountIsFair
  BY DEF LedgerInv
<1> QED
  BY <1>1, LedgerInvariant, PTL

\* The counts never go below zero.
THEOREM LedgerTypeCorrect == LedgerSpec => []LedgerTypeOK
<1>1. LedgerInv => LedgerTypeOK
  BY DEF LedgerInv
<1> QED
  BY <1>1, LedgerInvariant, PTL

\* Nothing an account does moves the end of its running window.
THEOREM RunningWindowsEndOnTime == LedgerSpec => RunningWindowKeepsItsEnd
<1> DEFINE Kept == \A u \in Users : Live(u) => windows'[u].resetAt = windows[u].resetAt
<1>1. ASSUME LedgerTypeOK, [LedgerNext]_ledgerVars PROVE Kept
  <2>1. ASSUME NEW v \in Users, OpenWindow(v) PROVE Kept
    <3>1. \A u \in Users : Live(u) => u # v /\ Swept[u] = windows[u]
      BY <1>1, <2>1, SweptIs DEF OpenWindow
    <3>2. \A u \in Users \ {v} : windows'[u] = Swept[u]
      BY <1>1, <2>1, SweptIs DEF OpenWindow
    <3> QED
      BY <3>1, <3>2
  <2>2. ASSUME NEW v \in Users, Charge(v) PROVE Kept
    <3>1. \A u \in Users : Live(u) => Swept[u] = windows[u]
      BY <1>1, SweptIs
    <3>2. \A u \in Users : windows'[u].resetAt = Swept[u].resetAt
      BY <1>1, <2>2, SweptIs DEF Charge, Windows
    <3> QED
      BY <3>1, <3>2
  <2>3. ASSUME NEW v \in Users, ChargeRefused(v) PROVE Kept
    BY <1>1, <2>3, SweptIs DEF ChargeRefused
  <2>4. ASSUME NEW v \in Users, Refund(v) \/ RefundLate(v) PROVE Kept
    BY <1>1, <2>4, CreditedIs DEF Refund, RefundLate
  <2>5. ASSUME NEW v \in Users, Served(v) \/ ServedLate(v) PROVE Kept
    BY <2>5 DEF Served, ServedLate
  <2>6. CASE Tick
    BY <2>6 DEF Tick
  <2>7. CASE UNCHANGED ledgerVars
    BY <2>7 DEF ledgerVars
  <2> QED
    BY <1>1, <2>1, <2>2, <2>3, <2>4, <2>5, <2>6, <2>7 DEF LedgerNext
<1>2. LedgerTypeOK /\ [LedgerNext]_ledgerVars => [Kept]_ledgerVars
  BY <1>1
<1> QED
  BY <1>2, LedgerTypeCorrect, PTL DEF LedgerSpec, RunningWindowKeepsItsEnd

-----------------------------------------------------------------------------
(* The request path.                                                       *)

\* A request holds a charge exactly while the gateway works on it.
ChargedWhileHandled ==
    \A c \in Callers : charged[c] = "none" <=> stage[c] \in {"idle", "streaming"}

-----------------------------------------------------------------------------
(* What each step is to the gate and to the ledger.                        *)

\* Every step of the request path (server.ts:1920-1985) is a step of the gate or leaves it alone.
LEMMA GateStep == [Next]_vars => [GateNext]_gateVars
<1> SUFFICES ASSUME [Next]_vars PROVE [GateNext]_gateVars
  OBVIOUS
<1>1. CASE UNCHANGED vars
  BY <1>1 DEF vars
<1>2. CASE TimePasses
  BY <1>2 DEF TimePasses
<1>3. ASSUME NEW c \in Callers,
             Arrives(c) \/ OverQuota(c) \/ Refused(c) \/ NoSuchEngine(c) \/ StreamEnds(c)
      PROVE  UNCHANGED gateVars
  BY <1>3 DEF Arrives, OverQuota, Refused, NoSuchEngine, StreamEnds
<1>4. ASSUME NEW c \in Callers,
             ReachesGate(c) \/ GetsSlot(c) \/ Busy(c) \/ Unreachable(c) \/ Answers(c)
      PROVE  GateNext
  BY <1>4 DEF ReachesGate, GetsSlot, Busy, Unreachable, Answers, GateNext
<1> QED
  BY <1>1, <1>2, <1>3, <1>4 DEF Next

\* Every step of the request path is a step of the ledger or leaves it alone.
LEMMA LedgerStep == [Next]_vars => [LedgerNext]_ledgerVars
<1> SUFFICES ASSUME [Next]_vars PROVE [LedgerNext]_ledgerVars
  OBVIOUS
<1>1. CASE UNCHANGED vars
  BY <1>1 DEF vars
<1>2. CASE TimePasses
  BY <1>2 DEF TimePasses, LedgerNext
<1>3. ASSUME NEW c \in Callers, ReachesGate(c) \/ GetsSlot(c) \/ StreamEnds(c)
      PROVE  UNCHANGED ledgerVars
  BY <1>3 DEF ReachesGate, GetsSlot, StreamEnds
<1>4. ASSUME NEW c \in Callers,
             \/ Arrives(c) \/ OverQuota(c) \/ Refused(c) \/ NoSuchEngine(c)
             \/ Busy(c) \/ Unreachable(c) \/ Answers(c)
      PROVE  LedgerNext
  <2>1. UserOf[c] \in Users
    BY AdmissionAssumption
  <2> QED
    BY <1>4, <2>1 DEF Arrives, OverQuota, Refused, NoSuchEngine, Busy, Unreachable,
       Answers, Granted, GiveBack, Keep, LedgerNext
<1> QED
  BY <1>1, <1>2, <1>3, <1>4 DEF Next

-----------------------------------------------------------------------------
(* Counting the requests that hold a charge.                               *)

\* The requests that hold a charge are finite in number, so they can be counted.
LEMMA ChargedFinite ==
  ASSUME NEW u, NEW w
  PROVE  IsFiniteSet(ChargedTo(u, w)) /\ Cardinality(ChargedTo(u, w)) \in Nat
  BY GateAssumption, FS_Subset, FS_CardinalityType DEF ChargedTo

\* A request without a charge takes one.
LEMMA TakesCharge ==
  ASSUME TypeOK, ChargesAreHeld, NEW c \in Callers, charged[c] = "none",
         Charge(UserOf[c]), charged' = [charged EXCEPT ![c] = "present"]
  PROVE  ChargesAreHeld'
<1> SUFFICES ASSUME NEW u \in Users
             PROVE  /\ held'[u] = Cardinality(ChargedTo(u, "present")')
                    /\ late'[u] = Cardinality(ChargedTo(u, "earlier")')
  BY DEF ChargesAreHeld
<1>1. UserOf[c] \in Users
  BY AdmissionAssumption
<1>2. ChargedTo(u, "earlier")' = ChargedTo(u, "earlier")
  BY DEF ChargedTo, TypeOK
<1>3. ChargedTo(u, "present")' = IF u = UserOf[c] THEN ChargedTo(u, "present") \cup {c}
                                 ELSE ChargedTo(u, "present")
  BY DEF ChargedTo, TypeOK
<1>4. c \notin ChargedTo(u, "present")
  BY DEF ChargedTo
<1>5. Cardinality(ChargedTo(u, "present") \cup {c}) = Cardinality(ChargedTo(u, "present")) + 1
  BY <1>4, ChargedFinite, FS_AddElement
<1>6. /\ late' = late
      /\ held' = [held EXCEPT ![UserOf[c]] = @ + 1]
      /\ held \in [Users -> Nat]
  BY DEF Charge, TypeOK, LedgerTypeOK
<1> QED
  BY <1>1, <1>2, <1>3, <1>5, <1>6 DEF ChargesAreHeld

\* A charge is settled, either way.
LEMMA SettlesCharge ==
  ASSUME TypeOK, ChargesAreHeld, NEW c \in Callers, GiveBack(c) \/ Keep(c)
  PROVE  ChargesAreHeld'
<1> DEFINE v == UserOf[c]
<1>1. v \in Users
  BY AdmissionAssumption
<1>2. charged' = [charged EXCEPT ![c] = "none"]
  BY DEF GiveBack, Keep
<1>3. /\ held \in [Users -> Nat]
      /\ late \in [Users -> Nat]
      /\ charged \in [Callers -> {"none", "present", "earlier"}]
  BY DEF TypeOK, LedgerTypeOK
<1>4. \/ charged[c] = "present" /\ held' = [held EXCEPT ![v] = @ - 1] /\ late' = late
      \/ charged[c] = "earlier" /\ late' = [late EXCEPT ![v] = @ - 1] /\ held' = held
  BY DEF GiveBack, Keep, Refund, RefundLate, Served, ServedLate
<1>5. ASSUME NEW u \in Users, NEW w \in {"present", "earlier"}
      PROVE  Cardinality(ChargedTo(u, w)') = IF u = v /\ w = charged[c]
                                             THEN Cardinality(ChargedTo(u, w)) - 1
                                             ELSE Cardinality(ChargedTo(u, w))
  <2>1. CASE u = v /\ w = charged[c]
    <3>1. ChargedTo(u, w)' = ChargedTo(u, w) \ {c}
      BY <1>2, <1>3, <2>1 DEF ChargedTo
    <3>2. c \in ChargedTo(u, w)
      BY <2>1 DEF ChargedTo
    <3>3. IsFiniteSet(ChargedTo(u, w))
      BY ChargedFinite
    <3>4. Cardinality(ChargedTo(u, w) \ {c}) = Cardinality(ChargedTo(u, w)) - 1
      BY <3>2, <3>3, FS_RemoveElement
    <3> QED
      BY <2>1, <3>1, <3>4
  <2>2. CASE ~(u = v /\ w = charged[c])
    <3>1. ChargedTo(u, w)' = ChargedTo(u, w)
      BY <1>2, <1>3, <2>2 DEF ChargedTo
    <3> QED
      BY <2>2, <3>1
  <2> QED
    BY <2>1, <2>2
<1>6. ASSUME NEW u \in Users
      PROVE  /\ held'[u] = Cardinality(ChargedTo(u, "present")')
             /\ late'[u] = Cardinality(ChargedTo(u, "earlier")')
  <2>1. /\ held[u] = Cardinality(ChargedTo(u, "present"))
        /\ late[u] = Cardinality(ChargedTo(u, "earlier"))
    BY DEF ChargesAreHeld
  <2> QED
    BY <1>1, <1>3, <1>4, <1>5, <2>1
<1> QED
  BY <1>6 DEF ChargesAreHeld

\* A window opens: the account's charges under way pass to an earlier one.
LEMMA OpensWindow ==
  ASSUME TypeOK, ChargesAreHeld, NEW c \in Callers, charged[c] = "none",
         OpenWindow(UserOf[c]),
         charged' = [d \in Callers |->
              CASE d = c -> "present"
                [] UserOf[d] = UserOf[c] /\ charged[d] = "present" -> "earlier"
                [] OTHER -> charged[d]]
  PROVE  ChargesAreHeld'
<1> DEFINE v == UserOf[c]
<1>1. v \in Users
  BY AdmissionAssumption
<1>2. /\ held \in [Users -> Nat]
      /\ late \in [Users -> Nat]
      /\ charged \in [Callers -> {"none", "present", "earlier"}]
  BY DEF TypeOK, LedgerTypeOK
<1>3. /\ held' = [held EXCEPT ![v] = 1]
      /\ late' = [late EXCEPT ![v] = @ + held[v]]
  BY DEF OpenWindow
<1>4. /\ ChargedTo(v, "present")' = {c}
      /\ ChargedTo(v, "earlier")' = ChargedTo(v, "earlier") \cup ChargedTo(v, "present")
  BY <1>2 DEF ChargedTo
<1>5. ChargedTo(v, "earlier") \cap ChargedTo(v, "present") = {}
  BY DEF ChargedTo
<1>6. Cardinality({c}) = 1
  BY FS_Singleton
<1>7. Cardinality(ChargedTo(v, "earlier") \cup ChargedTo(v, "present"))
        = Cardinality(ChargedTo(v, "earlier")) + Cardinality(ChargedTo(v, "present"))
  BY <1>5, ChargedFinite, FS_Union, FS_EmptySet
<1>8. ASSUME NEW u \in Users, u # v, NEW w
      PROVE  ChargedTo(u, w)' = ChargedTo(u, w)
  BY <1>8, <1>2 DEF ChargedTo
<1>9. ASSUME NEW u \in Users
      PROVE  /\ held'[u] = Cardinality(ChargedTo(u, "present")')
             /\ late'[u] = Cardinality(ChargedTo(u, "earlier")')
  <2>1. /\ held[u] = Cardinality(ChargedTo(u, "present"))
        /\ late[u] = Cardinality(ChargedTo(u, "earlier"))
    BY DEF ChargesAreHeld
  <2>2. CASE u = v
    BY <1>1, <1>2, <1>3, <1>4, <1>6, <1>7, <2>1, <2>2
  <2>3. CASE u # v
    BY <1>1, <1>2, <1>3, <1>8, <2>1, <2>3
  <2> QED
    BY <2>2, <2>3
<1> QED
  BY <1>9 DEF ChargesAreHeld

-----------------------------------------------------------------------------
(* The invariant of the request path.                                      *)

\* Each request's record of where it is and what it holds.
Records == /\ stage \in [Callers -> Stages]
           /\ charged \in [Callers -> {"none", "present", "earlier"}]
           /\ \A c \in Callers : stage[c] = "gate" <=> at[c] # "outside"
           /\ ChargedWhileHandled

\* Before the first request the records are in order and nobody holds a charge.
LEMMA InitRecords == Init => Records /\ ChargesAreHeld
<1> SUFFICES ASSUME Init PROVE Records /\ ChargesAreHeld
  OBVIOUS
<1>1. Records
  BY DEF Init, GateInit, Records, Stages, ChargedWhileHandled
<1>2. \A u \in Users, w \in {"present", "earlier"} : ChargedTo(u, w) = {}
  BY DEF Init, ChargedTo
<1>3. ChargesAreHeld
  BY <1>2, FS_EmptySet DEF Init, LedgerInit, ChargesAreHeld
<1> QED
  BY <1>1, <1>3

\* A request enters the gate by its own step.
LEMMA EntersGate ==
  ASSUME GateInv, NEW c \in Callers, Enter(c) \/ Wait(c) \/ Refuse(c)
  PROVE  \A d \in Callers : at'[d] # "outside" <=> (d = c \/ at[d] # "outside")
  BY DEF GateInv, GateTypeOK, Enter, Wait, Refuse

\* Taking a slot is no way in or out.
LEMMA StaysInGate ==
  ASSUME GateInv, NEW c \in Callers, Resume(c)
  PROVE  \A d \in Callers : at'[d] # "outside" <=> at[d] # "outside"
  BY DEF GateInv, GateTypeOK, Resume

\* A request leaves the gate by its own step; whom it wakes stays in it.
LEMMA LeavesGate ==
  ASSUME GateInv, NEW c \in Callers, Finish(c) \/ Retry(c)
  PROVE  /\ at[c] # "outside"
         /\ \A d \in Callers : at'[d] # "outside" <=> (d # c /\ at[d] # "outside")
<1>1. CASE Retry(c)
  BY <1>1 DEF GateInv, GateTypeOK, Retry
<1>2. CASE Finish(c) /\ waiting = <<>>
  BY <1>2 DEF GateInv, GateTypeOK, Finish
<1>3. CASE Finish(c) /\ waiting # <<>>
  <2>1. Head(waiting) \in Callers /\ at[Head(waiting)] = "waiting"
    BY <1>3 DEF GateInv, GateTypeOK, QueueWaits
  <2> QED
    BY <1>3, <2>1 DEF GateInv, GateTypeOK, Finish
<1> QED
  BY <1>1, <1>2, <1>3

\* Charges and places go together: every step keeps the records.
LEMMA StepRecords ==
  ASSUME GateInv, Records, [Next]_vars
  PROVE  Records'
<1> USE DEF Records, ChargedWhileHandled, Stages, Goes
<1>1. CASE UNCHANGED vars
  BY <1>1 DEF vars, gateVars
<1>2. CASE TimePasses
  BY <1>2 DEF TimePasses, gateVars
<1>3. ASSUME NEW c \in Callers, Arrives(c) PROVE Records'
  <2>1. charged[c] = "none" /\ at' = at /\ stage' = [stage EXCEPT ![c] = "reading"]
    BY <1>3 DEF Arrives, gateVars
  <2>2. /\ charged' \in [Callers -> {"none", "present", "earlier"}]
        /\ \A d \in Callers : charged'[d] = "none" <=> (d # c /\ charged[d] = "none")
    BY <1>3 DEF Arrives, Granted
  <2> QED
    BY <2>1, <2>2
<1>4. ASSUME NEW c \in Callers, OverQuota(c) PROVE Records'
  BY <1>4 DEF OverQuota, gateVars
<1>5. ASSUME NEW c \in Callers, Refused(c) \/ NoSuchEngine(c) PROVE Records'
  <2>1. charged' = [charged EXCEPT ![c] = "none"] /\ at' = at
    BY <1>5 DEF Refused, NoSuchEngine, GiveBack, Keep, gateVars
  <2> QED
    BY <1>5, <2>1 DEF Refused, NoSuchEngine
<1>6. ASSUME NEW c \in Callers, ReachesGate(c) PROVE Records'
  BY <1>6, EntersGate DEF ReachesGate
<1>7. ASSUME NEW c \in Callers, GetsSlot(c) PROVE Records'
  BY <1>7, StaysInGate DEF GetsSlot
<1>8. ASSUME NEW c \in Callers, Busy(c) \/ Unreachable(c) \/ Answers(c) PROVE Records'
  <2>1. charged' = [charged EXCEPT ![c] = "none"]
    BY <1>8 DEF Busy, Unreachable, Answers, GiveBack, Keep
  <2>2. /\ at[c] # "outside"
        /\ \A d \in Callers : at'[d] # "outside" <=> (d # c /\ at[d] # "outside")
    BY <1>8, LeavesGate DEF Busy, Unreachable, Answers
  <2>3. stage' = [stage EXCEPT ![c] = "idle"] \/ stage' = [stage EXCEPT ![c] = "streaming"]
    BY <1>8 DEF Busy, Unreachable, Answers
  <2> QED
    BY <2>1, <2>2, <2>3
<1>9. ASSUME NEW c \in Callers, StreamEnds(c) PROVE Records'
  BY <1>9 DEF StreamEnds, gateVars
<1> QED
  BY <1>1, <1>2, <1>3, <1>4, <1>5, <1>6, <1>7, <1>8, <1>9 DEF Next

\* No step loses a charge or gives one back twice.
LEMMA StepCharges ==
  ASSUME TypeOK, ChargedWhileHandled, ChargesAreHeld, [Next]_vars
  PROVE  ChargesAreHeld'
<1>1. CASE UNCHANGED <<held, late, charged>>
  BY <1>1 DEF ChargesAreHeld, ChargedTo
<1>2. ASSUME NEW c \in Callers, Arrives(c) PROVE ChargesAreHeld'
  <2>1. charged[c] = "none"
    BY <1>2 DEF Arrives, ChargedWhileHandled
  <2> QED
    BY <1>2, <2>1, OpensWindow, TakesCharge DEF Arrives, Granted
<1>3. ASSUME NEW c \in Callers,
             Refused(c) \/ NoSuchEngine(c) \/ Busy(c) \/ Unreachable(c) \/ Answers(c)
      PROVE  ChargesAreHeld'
  BY <1>3, SettlesCharge DEF Refused, NoSuchEngine, Busy, Unreachable, Answers
<1>4. ASSUME NEW c \in Callers,
             OverQuota(c) \/ ReachesGate(c) \/ GetsSlot(c) \/ StreamEnds(c)
      PROVE  UNCHANGED <<held, late, charged>>
  BY <1>4 DEF OverQuota, ChargeRefused, ReachesGate, GetsSlot, StreamEnds, ledgerVars
<1>5. TimePasses \/ UNCHANGED vars => UNCHANGED <<held, late, charged>>
  BY DEF TimePasses, Tick, vars, ledgerVars
<1> QED
  BY <1>1, <1>2, <1>3, <1>4, <1>5 DEF Next

-----------------------------------------------------------------------------
(* The theorems.                                                           *)

\* The request path uses the gate as the gate allows.
THEOREM PathImplementsGate == Spec => GateSpec
<1>1. Init => GateInit
  BY DEF Init
<1> QED
  BY <1>1, GateStep, PTL DEF Spec, GateSpec

\* It charges and refunds as the ledger allows.
THEOREM PathImplementsLedger == Spec => LedgerSpec
<1>1. Init => LedgerInit
  BY DEF Init
<1> QED
  BY <1>1, LedgerStep, PTL DEF Spec, LedgerSpec

\* The inductive invariant: types, the records of the requests, and the
\* correspondence of charges.
THEOREM PathInvariant == Spec => [](TypeOK /\ ChargedWhileHandled /\ ChargesAreHeld)
<1>1. Init => Records /\ ChargesAreHeld
  BY InitRecords
<1>2. /\ GateInv /\ LedgerTypeOK /\ Records /\ ChargesAreHeld /\ [Next]_vars
      => Records' /\ ChargesAreHeld'
  <2> SUFFICES ASSUME GateInv, LedgerTypeOK, Records, ChargesAreHeld, [Next]_vars
               PROVE  Records' /\ ChargesAreHeld'
    OBVIOUS
  <2>1. TypeOK /\ ChargedWhileHandled
    BY DEF TypeOK, Records, GateInv
  <2> QED
    BY <2>1, StepRecords, StepCharges
<1>3. GateInv /\ LedgerTypeOK /\ Records => TypeOK /\ ChargedWhileHandled
  BY DEF TypeOK, Records, GateInv
<1> QED
  BY <1>1, <1>2, <1>3, PathImplementsGate, PathImplementsLedger,
     GateInvariant, LedgerTypeCorrect, PTL DEF Spec

\* Type correctness of the request path.
THEOREM PathTypeCorrect == Spec => []TypeOK
  BY PathInvariant, PTL

\* Every charge belongs to one request under way, for any callers and accounts.
THEOREM ChargesStayHeld == Spec => []ChargesAreHeld
  BY PathInvariant, PTL

\* No failing engine takes a slot with it, whatever becomes of the charges.
THEOREM PathLeaksNoSlot == Spec => []NoSlotLeaks
  BY PathImplementsGate, NoSlotEverLeaks, PTL

\* Nobody waits for a free slot.
THEOREM PathLosesNoWakeup == Spec => []NobodyWaitsForAFreeSlot
  BY PathImplementsGate, NoWakeupIsLost, PTL

\* No account is refused for what it did not spend.
THEOREM PathCountsFairly == Spec => []CountIsFair
  BY PathImplementsLedger, CountStaysFair, PTL

\* No request moves the end of a running window.
THEOREM PathKeepsWindows == Spec => RunningWindowKeepsItsEnd
  BY PathImplementsLedger, RunningWindowsEndOnTime

-----------------------------------------------------------------------------
(* The realtime endpoint.                                                  *)

RealtimeSpec == RealtimeInit /\ [][RealtimeNext]_realtimeVars

CallRecords == [at : {"unused", "waiting", "settled"},
                how : {"none", "answer", "timeout", "abort", "close"},
                by : Calls \union {NoCall}, timer : {"off", "armed"}]

\* A call waits exactly while it is in the slot, its timer runs only then, and
\* what settled it was its own.
OwnedSlot(slot, calls) ==
    \A c \in Calls : /\ calls[c].at = "waiting" <=> slot = c
                     /\ calls[c].timer = "armed" => slot = c
                     /\ calls[c].how \in {"answer", "timeout"} => calls[c].by = c

SlotInv == /\ pendingCall \in Calls \union {NoCall}
           /\ fcall \in [Calls -> CallRecords]
           /\ OwnedSlot(pendingCall, fcall)

\* Calls are numbers, and the empty slot is none of them.
LEMMA CallsAreNumbered == NoCall \notin Calls /\ \A c \in Calls : c \in Nat
  BY RealtimeAssumption DEF Calls, NoCall

\* A new connection has an empty slot and no call.
LEMMA SlotInitially == RealtimeInit => SlotInv
  BY CallsAreNumbered DEF RealtimeInit, SlotInv, OwnedSlot, CallRecords, NewCall

\* Settling the slot: with its own answer or deadline, or because the turn or the
\* socket has ended.
LEMMA SettlingIsOwn ==
  ASSUME SlotInv, NEW how \in {"answer", "timeout", "abort", "close"},
         NEW by \in Calls \union {NoCall},
         how \in {"answer", "timeout"} => by = pendingCall,
         settlePendingCall(how, by)
  PROVE  SlotInv'
<1>1. pendingCall' = NoCall
      BY DEF settlePendingCall
<1>2. CASE pendingCall = NoCall
      BY <1>1, <1>2 DEF settlePendingCall, SlotInv
<1>3. CASE pendingCall # NoCall
  <2>1. pendingCall \in Calls
        BY <1>3 DEF SlotInv
  <2> DEFINE settled == [at |-> "settled", how |-> how, by |-> by, timer |-> "off"]
  <2>2. fcall' = [fcall EXCEPT ![pendingCall] = settled]
        BY <1>3 DEF settlePendingCall
  <2>3. settled \in CallRecords
        BY DEF CallRecords
  <2>4. fcall' \in [Calls -> CallRecords]
        BY <2>1, <2>2, <2>3 DEF SlotInv
  <2>5. ASSUME NEW c \in Calls
        PROVE  /\ fcall'[c].at # "waiting" /\ fcall'[c].timer # "armed"
               /\ fcall'[c].how \in {"answer", "timeout"} => fcall'[c].by = c
    <3>1. CASE c = pendingCall
          BY <2>1, <2>2, <3>1 DEF SlotInv
    <3>2. CASE c # pendingCall
      <4>1. fcall'[c] = fcall[c]
            BY <2>1, <2>2, <3>2 DEF SlotInv
      <4>2. fcall[c].timer \in {"off", "armed"} /\ fcall[c].at \in {"unused", "waiting", "settled"}
            BY DEF SlotInv, CallRecords
      <4> QED BY <3>2, <4>1, <4>2 DEF SlotInv, OwnedSlot
    <3> QED BY <3>1, <3>2
  <2>6. OwnedSlot(pendingCall', fcall')
        BY <1>1, <2>5, CallsAreNumbered DEF OwnedSlot
  <2> QED BY <1>1, <2>4, <2>6 DEF SlotInv
<1> QED BY <1>2, <1>3

\* A call enters an empty slot.
LEMMA DispatchFillsSlot ==
  ASSUME SlotInv, NEW c \in Calls, dispatchFunctionCall(c)
  PROVE  SlotInv'
<1>1. pendingCall = NoCall
      BY DEF dispatchFunctionCall, SlotInv, OwnedSlot
<1> DEFINE entered == [NewCall EXCEPT !.at = "waiting", !.timer = "armed"]
<1>2. /\ entered \in CallRecords /\ entered.at = "waiting" /\ entered.how = "none"
      BY DEF CallRecords, NewCall
<1>3. pendingCall' = c /\ fcall' = [fcall EXCEPT ![c] = entered]
      BY DEF dispatchFunctionCall
<1> HIDE DEF entered
<1>4. fcall' \in [Calls -> CallRecords]
      BY <1>2, <1>3 DEF SlotInv
<1>5. OwnedSlot(pendingCall', fcall')
  <2> SUFFICES ASSUME NEW d \in Calls
               PROVE  /\ fcall'[d].at = "waiting" <=> c = d
                      /\ fcall'[d].timer = "armed" => c = d
                      /\ fcall'[d].how \in {"answer", "timeout"} => fcall'[d].by = d
      BY <1>3 DEF OwnedSlot
  <2>1. CASE d = c
        BY <1>2, <1>3, <2>1 DEF SlotInv
  <2>2. CASE d # c
    <3>1. fcall'[d] = fcall[d]
          BY <1>3, <2>2 DEF SlotInv
    <3>2. NoCall # d
          BY CallsAreNumbered
    <3> QED BY <1>1, <2>2, <3>1, <3>2 DEF SlotInv, OwnedSlot
  <2> QED BY <2>1, <2>2
<1> QED BY <1>3, <1>4, <1>5 DEF SlotInv

\* A step that leaves the slot and the calls alone keeps the invariant.
LEMMA SlotStays ==
  ASSUME SlotInv, Keeps PROVE SlotInv'
  BY DEF SlotInv, Keeps

\* Every step of the connection keeps the invariant of the slot.
LEMMA SlotKeeps ==
  ASSUME SlotInv, [RealtimeNext]_realtimeVars PROVE SlotInv'
<1>1. CASE ensureStarted \/ ResponseCreate \/ StartSettles \/ TurnStarts \/ ensureResponse
             \/ TurnCompletes \/ SessionDone \/ EndsSocket
      BY <1>1, SlotStays
      DEF ensureStarted, ResponseCreate, StartSettles, TurnStarts, ensureResponse,
          TurnCompletes, SessionDone, EndsSocket
<1>2. CASE ResponseCancel \/ TurnAborted
      BY <1>2, SettlingIsOwn DEF ResponseCancel, TurnAborted, Interrupts
<1>3. CASE handleClose
      BY <1>3, SettlingIsOwn DEF handleClose
<1>4. CASE SessionStops
      BY <1>4, SettlingIsOwn DEF SessionStops
<1>5. ASSUME NEW c \in Calls, handleItemCreate(c)
      PROVE  SlotInv'
      BY <1>5, SettlingIsOwn, SlotStays DEF handleItemCreate
<1>6. ASSUME NEW c \in Calls, dispatchFunctionCall(c)
      PROVE  SlotInv'
      BY <1>6, DispatchFillsSlot
<1>7. ASSUME NEW c \in Calls, CallTimesOut(c)
      PROVE  SlotInv'
  <2>1. pendingCall = c
        BY <1>7 DEF CallTimesOut, SlotInv, OwnedSlot
  <2> QED BY <1>7, <2>1, SettlingIsOwn DEF CallTimesOut
<1>8. CASE UNCHANGED realtimeVars
      BY <1>8 DEF realtimeVars, SlotInv
<1> QED BY <1>1, <1>2, <1>3, <1>4, <1>5, <1>6, <1>7, <1>8 DEF RealtimeNext

\* SlotInv (openai-realtime.ts, pendingCall): the slot holds a call that waits, or nothing.
THEOREM SlotInvariant == RealtimeSpec => []SlotInv
  BY SlotInitially, SlotKeeps, PTL DEF RealtimeSpec

\* AnswersAreOwn: a late answer or an old timer never settles the call after it
\* (openai-realtime.ts, settlePendingCall).
THEOREM AnswersStayOwn == RealtimeSpec => []AnswersAreOwn
<1>1. SlotInv => AnswersAreOwn
      BY DEF SlotInv, OwnedSlot, AnswersAreOwn
<1> QED BY <1>1, SlotInvariant, PTL

-----------------------------------------------------------------------------
(* The rooms of the LiveKit adapter.                                       *)

RoomSpec == RoomInit /\ [][RoomNext]_roomVars

\* The limits of accept().
LimitsHold ==
    /\ Cardinality(Registered) <= MaxRooms
    /\ \A r \in Rooms : Cardinality(OwnedBy(Registered, r)) <= MaxRoomsPerOwner

\* A reservation of the gateway has its timer from the moment the request has a
\* room to be, and is over with the room or with the beginning of its session.
ReservationsHeld ==
    \A r \in pending :
        /\ grant[r] \in {"issuing", "accepting", "granted"}
        /\ room[r] # "closed" /\ guest[r] = "none"
        /\ r \notin ttl => grant[r] = "issuing" /\ room[r] = "none"

\* A request that was not made has nothing, one whose token is issued only its
\* reservation; a token still being signed when the adapter closes gets no room.
BeginningsClean ==
    \A r \in Rooms :
        /\ grant[r] \in {"none", "issuing"} =>
              room[r] = "none" /\ guest[r] = "none" /\ r \notin expiry
        /\ grant[r] = "none" => r \notin pending
        /\ grant[r] = "issuing" => r \in pending \ ttl
        /\ room[r] = "signing" => adapter = "closing"

RoomInv == /\ RoomTypeOK /\ LimitsHold /\ ReservationsHeld /\ BeginningsClean
           /\ SessionHasRoom

-----------------------------------------------------------------------------
(* The limits                                                              *)

\* The registered rooms, of all and of each owner, are finite in number.
LEMMA RegisteredIsFinite ==
  /\ IsFiniteSet(Registered)
  /\ \A r : IsFiniteSet(OwnedBy(Registered, r))
<1>1. IsFiniteSet(Registered)
      BY RoomAssumption, FS_Subset DEF Registered
<1> QED BY <1>1, FS_Subset DEF OwnedBy

\* A step that registers no room keeps the limits.
LEMMA FewerRooms ==
  ASSUME LimitsHold, IsFiniteSet(Registered), Registered' \subseteq Registered
  PROVE  LimitsHold'
<1>1. Cardinality(Registered') <= Cardinality(Registered) /\ IsFiniteSet(Registered')
      BY FS_Subset
<1>2. ASSUME NEW r \in Rooms
      PROVE  Cardinality(OwnedBy(Registered, r)') <= MaxRoomsPerOwner
  <2>1. OwnedBy(Registered, r)' \subseteq OwnedBy(Registered, r)
        BY DEF OwnedBy
  <2>2. IsFiniteSet(OwnedBy(Registered, r))
        BY RegisteredIsFinite
  <2>3. Cardinality(OwnedBy(Registered, r)') <= Cardinality(OwnedBy(Registered, r))
        BY <2>1, <2>2, FS_Subset
  <2>4. /\ Cardinality(OwnedBy(Registered, r)) \in Nat
        /\ Cardinality(OwnedBy(Registered, r)') \in Nat
        BY <2>1, <2>2, FS_Subset, FS_CardinalityType
  <2> QED BY <2>3, <2>4, RoomAssumption DEF LimitsHold
<1>3. Cardinality(Registered) \in Nat /\ Cardinality(Registered') \in Nat
      BY <1>1, FS_CardinalityType
<1> QED BY <1>1, <1>2, <1>3, RoomAssumption DEF LimitsHold

\* accept() registers one room where there was place for one.
LEMMA OneRoomMore ==
  ASSUME LimitsHold, NEW r \in Rooms, ~AdapterIsFull(r),
         Registered' \subseteq Registered \union {r}
  PROVE  LimitsHold'
<1>1. /\ IsFiniteSet(Registered)
      /\ Cardinality(Registered) < MaxRooms /\ Cardinality(Registered) \in Nat
      /\ Cardinality(OwnedBy(Registered, r)) < MaxRoomsPerOwner
      BY RegisteredIsFinite, FS_CardinalityType, RoomAssumption DEF AdapterIsFull, OwnedBy
<1>2. ASSUME NEW S, NEW T, IsFiniteSet(S), T \subseteq S \union {r}
      PROVE  Cardinality(T) <= Cardinality(S) + 1
  <2>1. /\ IsFiniteSet(S \union {r}) /\ Cardinality(S) \in Nat
        /\ Cardinality(S \union {r}) <= Cardinality(S) + 1
        BY <1>2, FS_AddElement, FS_CardinalityType
  <2>2. IsFiniteSet(T) /\ Cardinality(T) <= Cardinality(S \union {r})
        BY <1>2, <2>1, FS_Subset
  <2>3. Cardinality(T) \in Nat /\ Cardinality(S \union {r}) \in Nat
        BY <2>1, <2>2, FS_CardinalityType
  <2> QED BY <2>1, <2>2, <2>3
<1>3. Cardinality(Registered') <= MaxRooms
  <2>1. Cardinality(Registered') \in Nat
        BY <1>1, FS_AddElement, FS_Subset, FS_CardinalityType
  <2> QED BY <1>1, <1>2, <2>1, RoomAssumption
<1>4. ASSUME NEW q \in Rooms
      PROVE  Cardinality(OwnedBy(Registered, q)') <= MaxRoomsPerOwner
  <2>1. IsFiniteSet(OwnedBy(Registered, q)) /\ Cardinality(OwnedBy(Registered, q)) \in Nat
        BY RegisteredIsFinite, FS_CardinalityType
  <2>2. CASE OwnerOf[q] = OwnerOf[r]
    <3>1. OwnedBy(Registered, q) = OwnedBy(Registered, r)
          BY <2>2 DEF OwnedBy
    <3>2. OwnedBy(Registered, q)' \subseteq OwnedBy(Registered, q) \union {r}
          BY DEF OwnedBy
    <3>3. Cardinality(OwnedBy(Registered, q)') \in Nat
          BY <2>1, <3>2, FS_AddElement, FS_Subset, FS_CardinalityType
    <3> QED BY <1>1, <1>2, <2>1, <3>1, <3>2, <3>3, RoomAssumption
  <2>3. CASE OwnerOf[q] # OwnerOf[r]
    <3>1. OwnedBy(Registered, q)' \subseteq OwnedBy(Registered, q)
          BY <2>3 DEF OwnedBy
    <3>2. /\ Cardinality(OwnedBy(Registered, q)') <= Cardinality(OwnedBy(Registered, q))
          /\ Cardinality(OwnedBy(Registered, q)') \in Nat
          BY <2>1, <3>1, FS_Subset, FS_CardinalityType
    <3> QED BY <2>1, <3>2, RoomAssumption DEF LimitsHold
  <2> QED BY <2>2, <2>3
<1> QED BY <1>3, <1>4 DEF LimitsHold

-----------------------------------------------------------------------------
(* The steps                                                               *)

\* Without requests nothing is reserved, registered or connected.
LEMMA RoomInitially == RoomInit => RoomInv
<1> SUFFICES ASSUME RoomInit PROVE RoomInv
    OBVIOUS
<1>1. RoomTypeOK /\ ReservationsHeld /\ BeginningsClean /\ SessionHasRoom
      BY DEF RoomInit, RoomTypeOK, ReservationsHeld, BeginningsClean, SessionHasRoom
<1>2. Registered = {} /\ \A r : OwnedBy(Registered, r) = {}
      BY DEF RoomInit, Registered, OwnedBy
<1>3. LimitsHold
      BY <1>2, FS_EmptySet, RoomAssumption DEF LimitsHold
<1> QED BY <1>1, <1>3 DEF RoomInv

\* A step that registers no room: what is left to show of it.
LEMMA NoRoomMore ==
  ASSUME RoomInv,
         \A r \in Rooms : room'[r] \in {"reserved", "connecting", "joined"} =>
                             room[r] \in {"reserved", "connecting", "joined"}
  PROVE  LimitsHold'
<1>1. Registered' \subseteq Registered
      BY DEF Registered
<1> QED BY <1>1, FewerRooms, RegisteredIsFinite DEF RoomInv

\* The facts about the state that a step starts from.
LEMMA RoomFacts ==
  ASSUME RoomInv
  PROVE  /\ RoomTypeOK /\ ReservationsHeld /\ BeginningsClean /\ SessionHasRoom
         /\ LimitsHold
  BY DEF RoomInv

USE DEF Grants, Releases, KeepsReservations, ReservationsHeld, BeginningsClean, SessionHasRoom,
        RoomTypeOK

\* A grant, its failure and its expiry keep the invariant of the rooms.
LEMMA RequestSteps ==
  ASSUME RoomInv, NEW r \in Rooms, reserveLiveKit(r) \/ IssueFails(r) \/ GrantExpires(r)
  PROVE  RoomInv'
<1>1. LimitsHold'
      BY NoRoomMore DEF reserveLiveKit, IssueFails, GrantExpires
<1>2. CASE reserveLiveKit(r)
      BY <1>1, <1>2, RoomFacts DEF reserveLiveKit, RoomInv
<1>3. CASE IssueFails(r)
      BY <1>1, <1>3, RoomFacts DEF IssueFails, RoomInv
<1>4. CASE GrantExpires(r)
      BY <1>1, <1>4, RoomFacts DEF GrantExpires, RoomInv
<1> QED BY <1>2, <1>3, <1>4

\* Registering a room, or refusing it at a limit, keeps the invariant.
LEMMA RoomIsReserved == ASSUME RoomInv, NEW r \in Rooms, Issued(r) PROVE RoomInv'
<1>1. CASE adapter = "closing" \/ AdapterIsFull(r)
  <2>1. LimitsHold'
        BY <1>1, NoRoomMore DEF Issued
  <2> QED BY <1>1, <2>1, RoomFacts DEF Issued, RoomInv
<1>2. CASE ~(adapter = "closing" \/ AdapterIsFull(r))
  <2>1. Registered' \subseteq Registered \union {r}
        BY <1>2, RoomFacts DEF Issued, Registered
  <2>2. LimitsHold'
        BY <1>2, <2>1, OneRoomMore, RoomFacts
  <2>3. /\ grant' = [grant EXCEPT ![r] = "accepting"] /\ ttl' = ttl \union {r}
        /\ room' = [room EXCEPT ![r] = "reserved"] /\ pending' = pending
        /\ grant[r] = "issuing" /\ UNCHANGED <<expiry, guest, adapter>>
        BY <1>2 DEF Issued
  <2>4. room[r] = "none" /\ guest[r] = "none"
        BY <2>3, RoomFacts
  <2>5. SessionHasRoom' /\ BeginningsClean'
        BY <2>3, <2>4, RoomFacts
  <2>6. ReservationsHeld'
        BY <2>3, <2>4, RoomFacts
  <2>7. RoomTypeOK'
        BY <2>3, RoomFacts
  <2> HIDE DEF ReservationsHeld, BeginningsClean, SessionHasRoom, RoomTypeOK
  <2> QED BY <2>2, <2>5, <2>6, <2>7 DEF RoomInv
<1> QED BY <1>1, <1>2

\* Each way a connect can go keeps the invariant.
LEMMA ConnectionSteps ==
  ASSUME RoomInv, NEW r \in Rooms, Signed(r) \/ Connected(r) \/ ConnectFails(r)
  PROVE  RoomInv'
<1>1. CASE Signed(r)
  <2>1. LimitsHold'
        BY <1>1, NoRoomMore, RoomFacts DEF Signed
  <2> QED BY <1>1, <2>1, RoomFacts DEF Signed, RoomInv
<1>2. CASE Connected(r)
  <2>1. LimitsHold'
        BY <1>2, NoRoomMore, RoomFacts DEF Connected
  <2> QED BY <1>2, <2>1, RoomFacts DEF Connected, RoomInv
<1>3. CASE ConnectFails(r)
  <2>1. LimitsHold'
        BY <1>3, NoRoomMore, RoomFacts DEF ConnectFails, closeContext
  <2> QED BY <1>3, <2>1, RoomFacts DEF ConnectFails, closeContext, RoomInv
<1> QED BY <1>1, <1>2, <1>3

\* A session that starts, is refused or leaves keeps the invariant.
LEMMA GuestSteps ==
  ASSUME RoomInv, NEW r \in Rooms,
         sessionFor(r) \/ RefusalPublished(r) \/ GuestStarts(r) \/ GuestLeaves(r)
  PROVE  RoomInv'
<1>1. CASE sessionFor(r)
  <2>1. LimitsHold'
        BY <1>1, NoRoomMore, RoomFacts DEF sessionFor
  <2> QED BY <1>1, <2>1, RoomFacts DEF sessionFor, RoomInv
<1>2. CASE RefusalPublished(r)
  <2>1. LimitsHold'
        BY <1>2, NoRoomMore, RoomFacts DEF RefusalPublished, closeContext
  <2> QED BY <1>2, <2>1, RoomFacts DEF RefusalPublished, closeContext, RoomInv
<1>3. CASE GuestStarts(r)
  <2>1. LimitsHold'
        BY <1>3, NoRoomMore, RoomFacts DEF GuestStarts
  <2> QED BY <1>3, <2>1, RoomFacts DEF GuestStarts, RoomInv
<1>4. CASE GuestLeaves(r)
  <2>1. LimitsHold'
        BY <1>4, NoRoomMore, RoomFacts DEF GuestLeaves, closeContext
  <2> QED BY <1>4, <2>1, RoomFacts DEF GuestLeaves, closeContext, RoomInv
<1> QED BY <1>1, <1>2, <1>3, <1>4

\* A room that fails or expires, and the close of the adapter, keep the invariant.
LEMMA ClosingSteps ==
  ASSUME RoomInv,
         (\E r \in Rooms : RoomFails(r) \/ RoomExpires(r)) \/ CloseAdapter
  PROVE  RoomInv'
<1>1. ASSUME NEW r \in Rooms, RoomFails(r) PROVE RoomInv'
  <2>1. LimitsHold'
        BY <1>1, NoRoomMore, RoomFacts DEF RoomFails, closeContext
  <2> QED BY <1>1, <2>1, RoomFacts DEF RoomFails, closeContext, RoomInv
<1>2. ASSUME NEW r \in Rooms, RoomExpires(r) PROVE RoomInv'
  <2>1. LimitsHold'
        BY <1>2, NoRoomMore, RoomFacts DEF RoomExpires, closeContext
  <2>2. CASE guest[r] \in {"none", "starting", "refusing"} /\ room[r] # "closed"
    <3>1. closeContext({r}) /\ UNCHANGED <<grant, adapter>>
          BY <1>2, <2>2 DEF RoomExpires
    <3>2. RoomTypeOK'
          BY <3>1, RoomFacts DEF closeContext
    <3>3. grant[r] \notin {"none", "issuing"}
          BY <1>2, RoomFacts DEF RoomExpires
    <3>4. ReservationsHeld'
          BY <3>1, <3>3, RoomFacts DEF closeContext
    <3>5. BeginningsClean'
          BY <3>1, <3>3, RoomFacts DEF closeContext
    <3>6. SessionHasRoom'
          BY <3>1, RoomFacts DEF closeContext
    <3> HIDE DEF ReservationsHeld, BeginningsClean, SessionHasRoom, RoomTypeOK
    <3> QED BY <2>1, <3>2, <3>4, <3>5, <3>6 DEF RoomInv
  <2>3. CASE ~(guest[r] \in {"none", "starting", "refusing"} /\ room[r] # "closed")
        BY <1>2, <2>1, <2>3, RoomFacts DEF RoomExpires, RoomInv
  <2> QED BY <2>2, <2>3
<1>3. CASE CloseAdapter
  <2>1. LimitsHold'
        BY <1>3, NoRoomMore, RoomFacts DEF CloseAdapter
  <2> QED BY <1>3, <2>1, RoomFacts DEF CloseAdapter, RoomInv
<1> QED BY <1>1, <1>2, <1>3

\* Every step of the adapter keeps the invariant.
LEMMA RoomKeeps == ASSUME RoomInv, [RoomNext]_roomVars PROVE RoomInv'
<1>1. CASE RoomNext
      BY <1>1, RequestSteps, RoomIsReserved, ConnectionSteps, GuestSteps, ClosingSteps DEF RoomNext
<1>2. CASE UNCHANGED roomVars
  <2>1. LimitsHold'
        BY <1>2, NoRoomMore DEF roomVars
  <2> QED BY <1>2, <2>1, RoomFacts DEF roomVars, RoomInv
<1> QED BY <1>1, <1>2

-----------------------------------------------------------------------------
\* The strengthening is an invariant: a reservation whose release timer is not
\* armed belongs to a request that has no room yet.
THEOREM RoomInvariant == RoomSpec => []RoomInv
  BY RoomInitially, RoomKeeps, PTL DEF RoomSpec

\* However many requests race, the adapter never has more rooms than it may, in
\* all or for one owner, and no reservation of the gateway is held by a closed
\* room or beside a session (server.ts, livekit-agent-adapter.ts).
THEOREM RoomsStayAccounted == RoomSpec => []RoomsAccounted
<1>1. RoomInv => RoomsAccounted
      BY DEF RoomInv, RoomsAccounted, LimitsHold
<1> QED BY <1>1, RoomInvariant, PTL

-----------------------------------------------------------------------------
(* The microphone.                                                         *)

MicSpec == MicInit /\ [][MicNext]_micVars

\* The records, and that no stream is named before it was given.
Microphones == [route : 1..MaxRoutes, of : Nat, stopped : BOOLEAN, muted : BOOLEAN,
                closed : BOOLEAN, failures : 0..4]
Mends == [at : {"no", "acquiring"}, of : Nat, again : BOOLEAN]
TimerSets == [recovery : {NoTimer, "device", "muted", "ended", "silent"},
              watchdog : 0..MaxRoutes]

MicShape ==
    /\ capture \in Microphones /\ mend \in Mends /\ timers \in TimerSets
    /\ device \in {"sound", "muted", "ended"}
    /\ routes \in 1..MaxRoutes
    /\ wanted \in Nat /\ incidents \in 0..MaxIncidents
    /\ wanted <= incidents
    /\ capture.of <= wanted /\ mend.of <= wanted

MicInv == MicShape /\ MicIsHeldOnce

\* A microphone that was just started holds one stream.
LEMMA MicInitially == MicInit => MicInv
  BY MicAssumption DEF MicInit, MicInv, MicShape, MicIsHeldOnce, NoTimer, Microphones, Mends, TimerSets

USE DEF NoTimer, NoRoute

\* The records keep their shape under the updates the code makes.
LEMMA TimersStay ==
  ASSUME timers \in TimerSets,
         NEW r \in {NoTimer, "device", "muted", "ended", "silent"}, NEW w \in 0..MaxRoutes
  PROVE  /\ [timers EXCEPT !.recovery = r] \in TimerSets
         /\ [timers EXCEPT !.watchdog = w] \in TimerSets
  BY DEF TimerSets

\* Counting a failed attempt keeps the record and all it says about the stream.
LEMMA FailuresCount ==
  ASSUME capture \in Microphones, NEW n \in 0..4
  PROVE  LET c == [capture EXCEPT !.failures = n]
         IN  /\ c \in Microphones
             /\ c.route = capture.route /\ c.of = capture.of /\ c.stopped = capture.stopped
  BY DEF Microphones

\* Muting the capture or closing its context keeps the record a capture.
LEMMA FlagsToggle ==
  ASSUME capture \in Microphones, NEW b \in BOOLEAN
  PROVE  /\ [capture EXCEPT !.muted = b] \in Microphones
         /\ [capture EXCEPT !.closed = b] \in Microphones
         /\ [capture EXCEPT !.stopped = b] \in Microphones
  BY DEF Microphones

\* A step that leaves the route alone, and whether it was stopped.
LEMMA RouteStays ==
  ASSUME MicInv,
         capture' \in Microphones, capture'.route = capture.route,
         capture'.of = capture.of, capture'.stopped = capture.stopped,
         timers' \in TimerSets, mend' = mend,
         device' \in {"sound", "muted", "ended"},
         streams' = streams, routes' = routes,
         \/ wanted' = wanted /\ incidents' \in {incidents, incidents + 1}
         \/ wanted' = wanted + 1 /\ incidents' = incidents + 1,
         incidents' \in 0..MaxIncidents
  PROVE  MicInv'
<1>1. capture.of \in Nat /\ mend.of \in Nat
      BY DEF MicInv, MicShape, Microphones, Mends
<1>2. MicShape'
      BY <1>1, MicAssumption DEF MicInv, MicShape, Microphones, Mends, TimerSets
<1>3. MicIsHeldOnce'
      BY DEF MicInv, MicIsHeldOnce
<1> QED BY <1>2, <1>3 DEF MicInv

\* The steps that neither open nor release a stream keep the invariant.
LEMMA QuietSteps ==
  ASSUME MicInv,
         handleDeviceChange \/ TrackMutes \/ TrackUnmutes \/ TrackEnds \/ FramesFlow
           \/ WatchdogFires \/ setMuted \/ ContextCloses
  PROVE  MicInv'
<1>1. /\ capture \in Microphones /\ timers \in TimerSets
      /\ capture.route \in 0..MaxRoutes /\ capture.failures \in 0..4
      /\ device \in {"sound", "muted", "ended"} /\ incidents \in 0..MaxIncidents
      BY MicAssumption DEF MicInv, MicShape, Microphones
<1>2. Incident => incidents' \in 0..MaxIncidents /\ incidents' = incidents + 1
      BY <1>1, MicAssumption DEF Incident
<1>3. ASSUME NEW r \in {"device", "muted", "ended"}, queueRecovery(r)
      PROVE  timers' \in TimerSets
      BY <1>1, <1>3, TimersStay DEF queueRecovery
<1>4. 0 \in 0..MaxRoutes
      BY MicAssumption
<1>5. CASE handleDeviceChange
      BY <1>1, <1>2, <1>3, <1>5, RouteStays DEF handleDeviceChange
<1>6. CASE TrackMutes
      BY <1>1, <1>2, <1>3, <1>6, RouteStays DEF TrackMutes, KeepsRoute
<1>7. CASE TrackUnmutes
  <2>1. timers' \in TimerSets
        BY <1>1, <1>7, <1>4, TimersStay DEF TrackUnmutes
  <2> QED BY <1>1, <1>7, <2>1, RouteStays DEF TrackUnmutes, KeepsRoute
<1>8. CASE TrackEnds
      BY <1>1, <1>2, <1>3, <1>8, RouteStays DEF TrackEnds, KeepsRoute
<1>9. CASE FramesFlow
  <2>1. timers' \in TimerSets
        BY <1>1, <1>4, <1>9, TimersStay DEF FramesFlow
  <2>2. /\ capture' \in Microphones /\ capture'.route = capture.route
        /\ capture'.of = capture.of /\ capture'.stopped = capture.stopped
        BY <1>1, <1>9, FailuresCount DEF FramesFlow
  <2> QED BY <1>1, <1>9, <2>1, <2>2, RouteStays DEF FramesFlow, KeepsRoute
<1>10. CASE WatchdogFires
  <2>1. timers' \in TimerSets
        BY <1>1, <1>4, <1>10, TimersStay DEF WatchdogFires, TimerSets
  <2>2. /\ capture' \in Microphones /\ capture'.route = capture.route
        /\ capture'.of = capture.of /\ capture'.stopped = capture.stopped
    <3> DEFINE n == IF capture.failures > 3 THEN capture.failures ELSE capture.failures + 1
    <3>1. n \in 0..4
          BY <1>1
    <3>2. capture' = capture \/ capture' = [capture EXCEPT !.failures = n]
          BY <1>10 DEF WatchdogFires
    <3> HIDE DEF n
    <3>3. CASE capture' = capture
          BY <1>1, <3>3
    <3>4. CASE capture' = [capture EXCEPT !.failures = n]
          BY <1>1, <3>1, <3>4, FailuresCount
    <3> QED BY <3>2, <3>3, <3>4
  <2> QED BY <1>1, <1>10, <2>1, <2>2, RouteStays DEF WatchdogFires, KeepsRoute
<1>11. CASE setMuted
  <2>1. timers' \in TimerSets
        BY <1>1, <1>4, <1>11, TimersStay DEF setMuted
  <2>2. capture' = [capture EXCEPT !.muted = ~capture.muted]
        BY <1>11 DEF setMuted
  <2>3. capture' \in Microphones
    <3>1. (~capture.muted) \in BOOLEAN
          OBVIOUS
    <3> QED BY <1>1, <2>2, <3>1, FlagsToggle
  <2>4. /\ capture'.route = capture.route
        /\ capture'.of = capture.of /\ capture'.stopped = capture.stopped
        BY <1>1, <2>2 DEF Microphones
  <2> QED BY <1>1, <1>2, <1>11, <2>1, <2>3, <2>4, RouteStays DEF setMuted, KeepsRoute
<1>12. CASE ContextCloses
  <2>1. capture' = [capture EXCEPT !.closed = TRUE]
        BY <1>12 DEF ContextCloses
  <2>2. /\ capture' \in Microphones /\ capture'.route = capture.route
        /\ capture'.of = capture.of /\ capture'.stopped = capture.stopped
        BY <1>1, <2>1, FlagsToggle DEF Microphones
  <2> QED BY <1>1, <1>12, <2>2, RouteStays DEF ContextCloses, KeepsRoute
<1> QED BY <1>5, <1>6, <1>7, <1>8, <1>9, <1>10, <1>11, <1>12

\* A recovery asks for the microphone of the moment, or is told to go round, or ends.
LEMMA MendSteps ==
  ASSUME MicInv, RecoveryTimerFires \/ AcquireFails
  PROVE  MicInv'
<1>1. mend' \in Mends /\ mend'.of <= wanted
  <2>1. CASE RecoveryTimerFires
    <3>1. CASE mend.at = "no"
          BY <2>1, <3>1 DEF RecoveryTimerFires, MicInv, MicShape, Mends
    <3>2. CASE mend.at # "no"
          BY <2>1, <3>2 DEF RecoveryTimerFires, MicInv, MicShape, Mends
    <3> QED BY <3>1, <3>2
  <2>2. CASE AcquireFails
        BY <2>2 DEF AcquireFails, MicInv, MicShape, Mends
  <2> QED BY <2>1, <2>2
<1>2. timers' \in TimerSets
  <2>1. CASE RecoveryTimerFires
        BY <2>1, MicAssumption DEF RecoveryTimerFires, MicInv, MicShape, TimerSets
  <2>2. CASE AcquireFails
        BY <2>2 DEF AcquireFails, MicInv, MicShape
  <2> QED BY <2>1, <2>2
<1>3. UNCHANGED <<capture, streams, device, routes, wanted, incidents>>
      BY DEF RecoveryTimerFires, AcquireFails
<1> QED BY <1>1, <1>2, <1>3 DEF MicInv, MicShape, MicIsHeldOnce

\* stop() lets go of the one stream there is.
LEMMA StopLetsGo == ASSUME MicInv, StopMic PROVE MicInv'
<1>1. capture' = [capture EXCEPT !.stopped = TRUE] /\ capture \in Microphones
      BY DEF StopMic, MicInv, MicShape
<1>2. /\ capture' \in Microphones /\ capture'.of = capture.of /\ capture'.stopped
      BY <1>1, FlagsToggle DEF Microphones
<1>3. timers' \in TimerSets
      BY MicAssumption DEF StopMic, TimerSets
<1>4. streams' = {}
      BY DEF StopMic, MicInv, MicIsHeldOnce
<1> QED BY <1>2, <1>3, <1>4 DEF StopMic, MicInv, MicShape, MicIsHeldOnce

\* The new stream takes the place of the old one, or is let go.
LEMMA RouteIsReplaced == ASSUME MicInv, Acquired PROVE MicInv'
<1>1. /\ routes' \in 1..MaxRoutes /\ routes' = routes + 1
      /\ UNCHANGED <<wanted, incidents>>
      BY MicAssumption DEF Acquired, MicInv, MicShape
<1>2. CASE capture.stopped
  <2>1. mend' \in Mends /\ mend'.of = mend.of
        BY <1>2 DEF Acquired, MicInv, MicShape, Mends
  <2> QED BY <1>1, <1>2, <2>1 DEF Acquired, MicInv, MicShape, MicIsHeldOnce
<1>3. CASE ~capture.stopped
  <2>1. /\ capture' \in Microphones /\ capture'.route = routes' /\ ~capture'.stopped
        /\ capture'.of = mend.of
    <3>1. capture' = [capture EXCEPT !.route = routes', !.of = mend.of]
          BY <1>3 DEF Acquired
    <3> QED BY <1>1, <1>3, <3>1 DEF MicInv, MicShape, Microphones, Mends
  <2>2. timers' \in TimerSets
    <3>1. routes' \in 0..MaxRoutes
          BY <1>1, MicAssumption
    <3> QED BY <1>3, <3>1, TimersStay DEF Acquired, Armed, MicInv, MicShape
  <2>3. mend' \in Mends /\ mend'.of = wanted
    <3>1. /\ mend' = [at |-> IF mend.again THEN "acquiring" ELSE "no",
                      of |-> wanted, again |-> FALSE]
          /\ wanted \in Nat
          BY <1>3 DEF Acquired, MicInv, MicShape
    <3>2. CASE mend.again
          BY <3>1, <3>2 DEF Mends
    <3>3. CASE ~mend.again
          BY <3>1, <3>3 DEF Mends
    <3> QED BY <3>2, <3>3
  <2>4. streams' = {routes'} /\ device' = "sound"
        BY <1>3 DEF Acquired, MicInv, MicIsHeldOnce
  <2> QED BY <1>1, <2>1, <2>2, <2>3, <2>4 DEF MicInv, MicShape, MicIsHeldOnce, Mends
<1> QED BY <1>2, <1>3

\* Every step of the microphone keeps the invariant.
LEMMA MicKeeps == ASSUME MicInv, [MicNext]_micVars PROVE MicInv'
<1>1. CASE MicNext
      BY <1>1, QuietSteps, MendSteps, StopLetsGo, RouteIsReplaced DEF MicNext
<1>2. CASE UNCHANGED micVars
      BY <1>2 DEF micVars, MicInv, MicShape, MicIsHeldOnce
<1> QED BY <1>1, <1>2

\* MicInv (audio.ts, MicCapture): types, one stream, and incidents counted before they are mended.
THEOREM MicInvariant == MicSpec => []MicInv
  BY MicInitially, MicKeeps, PTL DEF MicSpec

\* MicTypeOK (audio.ts, the fields of MicCapture) for every bound.
THEOREM MicTypesHold == MicSpec => []MicTypeOK
<1>1. MicInv => MicTypeOK
      BY MicAssumption DEF MicInv, MicShape, MicIsHeldOnce, MicTypeOK, Microphones, Mends, TimerSets
<1> QED BY <1>1, MicInvariant, PTL

\* MicIsHeldOnce: the tracks that are not stopped are those of the one route
\* while it captures, and none after stop() (audio.ts, MicCapture).
THEOREM MicHeldOnce == MicSpec => []MicIsHeldOnce
<1>1. MicInv => MicIsHeldOnce
      BY DEF MicInv
<1> QED BY <1>1, MicInvariant, PTL

-----------------------------------------------------------------------------
(* The studio's conversations.                                             *)

Conversations ==
    [at : Starting \union {"new", "giveWay", "refused", "connected", "live", "over"},
     stopped : BOOLEAN, client : {"none", "livekit", "socket"},
     closed : BOOLEAN, joined : BOOLEAN, told : BOOLEAN,
     track : BOOLEAN, mic : BOOLEAN, speaker : BOOLEAN, socket : BOOLEAN]

\* It goes on, starting or live.
Listens(r) == r.at \notin {"new", "over"} /\ ~r.stopped

StudioInv == /\ convs \in [Controllers -> Conversations]
             /\ current \in Controllers \union {Nobody} /\ made \in 0..MaxConversations
             /\ NoneIsForgotten

\* What becomes of a conversation that does not begin in this step.
Follows(r, q) == q \in Conversations /\ (Listens(q) => Listens(r))

\* The conversations after a step, or a piece of one, that begins none.
AfterAll(cs) == /\ cs \in [Controllers -> Conversations]
                /\ \A c \in Controllers : Listens(cs[c]) => Listens(convs[c])

\* Where one conversation follows and the others stay, none begins to listen.
LEMMA ConversationMoves ==
  ASSUME NEW cs, AfterAll(cs), NEW c \in Controllers, NEW q, Follows(cs[c], q)
  PROVE  AfterAll([cs EXCEPT ![c] = q])
BY DEF AfterAll, Follows

\* What ends, by its stop or by its start.
LEMMA HaltedIs ==
  ASSUME NEW r \in Conversations
  PROVE  Halted(r) \in Conversations /\ ~Listens(Halted(r))
<1> DEFINE k == IF r.client = "livekit" THEN FALSE ELSE r.track
<1>1. k \in BOOLEAN
      BY DEF Conversations
<1>2. Halted(r) = [r EXCEPT !.stopped = TRUE, !.client = "none", !.socket = FALSE, !.track = k]
      BY DEF Halted
<1> HIDE DEF k
<1> QED BY <1>1, <1>2 DEF Conversations, Listens

\* A stop ends its conversation's listening and begins no other's.
LEMMA StopsOne ==
  ASSUME NEW cs, AfterAll(cs), NEW c \in Controllers, NEW by, StopBegins(cs, c, by)
  PROVE  AfterAll(convs') /\ ~Listens(convs'[c])
<1>1. cs \in [Controllers -> Conversations] /\ cs[c] \in Conversations
      BY DEF AfterAll
<1>2. Follows(cs[c], Halted(cs[c])) /\ ~Listens(Halted(cs[c]))
      BY <1>1, HaltedIs DEF Follows
<1>3. convs' = [cs EXCEPT ![c] = Halted(cs[c])]
      BY DEF StopBegins
<1> QED BY <1>1, <1>2, <1>3, ConversationMoves

\* stopConversation() leaves none that listens.
LEMMA StopsCurrent ==
  ASSUME StudioInv, NEW cs, AfterAll(cs), stopConversation(cs)
  PROVE  /\ AfterAll(convs') /\ current' = Nobody
         /\ \A c \in Controllers : ~Listens(convs'[c])
<1>1. current' = Nobody
      BY DEF stopConversation
<1>2. \A c \in Controllers : Listens(cs[c]) => current = c
      BY DEF AfterAll, StudioInv, NoneIsForgotten, Listens
<1>3. CASE current = Nobody
  <2>1. convs' = cs
        BY <1>3 DEF stopConversation
  <2> QED BY <1>1, <1>2, <1>3, <2>1 DEF Nobody, Controllers
<1>4. CASE current # Nobody
  <2>1. current \in Controllers /\ StopBegins(cs, current, "user")
        BY <1>4 DEF stopConversation, StudioInv
  <2>2. AfterAll(convs') /\ ~Listens(convs'[current])
        BY <2>1, StopsOne
  <2>3. ASSUME NEW c \in Controllers, c # current PROVE ~Listens(convs'[c])
    <3>1. convs' = [cs EXCEPT ![current] = Halted(cs[current])]
          BY <2>1 DEF StopBegins
    <3>2. convs'[c] = cs[c]
          BY <2>3, <3>1 DEF AfterAll
    <3> QED BY <1>2, <2>3, <3>2
  <2> QED BY <1>1, <2>2, <2>3
<1> QED BY <1>3, <1>4

\* A start that throws ends its conversation, and gives up its place only.
LEMMA FailsOne ==
  ASSUME StudioInv, NEW cs, AfterAll(cs), NEW c \in Controllers, Fails(cs, c)
  PROVE  StudioInv'
<1> DEFINE q == [cs[c] EXCEPT !.at = "over"]
           ds == [cs EXCEPT ![c] = q]
<1>1. cs \in [Controllers -> Conversations] /\ cs[c] \in Conversations
      BY DEF AfterAll
<1>2. q \in Conversations /\ ~Listens(q)
      BY <1>1 DEF Conversations, Listens, Starting, Connecting
<1>3. [cs EXCEPT ![c].at = "over"] = ds
      BY <1>1
<1> HIDE DEF q
<1>4. AfterAll(ds)
      BY <1>2, ConversationMoves DEF Follows
<1>5. StopBegins(ds, c, "start") /\ current' = (IF current = c THEN Nobody ELSE current) /\ UNCHANGED made
      BY <1>3 DEF Fails
<1> HIDE DEF ds
<1>6. AfterAll(convs') /\ ~Listens(convs'[c])
      BY <1>4, <1>5, StopsOne
<1>7. NoneIsForgotten'
      BY <1>5, <1>6 DEF AfterAll, StudioInv, NoneIsForgotten, Listens
<1> QED BY <1>5, <1>6, <1>7 DEF StudioInv, AfterAll

\* What a step has to show that changes no more than the conversations.
LEMMA OneFollows ==
  ASSUME StudioInv, AfterAll(convs'), UNCHANGED <<current, made>>
  PROVE  StudioInv'
BY DEF StudioInv, AfterAll, NoneIsForgotten, Listens

\* A step of a start.
LEMMA StartsKeep ==
  ASSUME StudioInv, NEW c \in Controllers, StartSteps(c)
  PROVE  StudioInv'
<1> DEFINE r == convs[c]
<1>1. convs \in [Controllers -> Conversations] /\ r \in Conversations /\ AfterAll(convs)
      BY DEF StudioInv, AfterAll
<1>2. ASSUME NEW q, Follows(r, q), convs' = [convs EXCEPT ![c] = q], UNCHANGED <<current, made>>
      PROVE  StudioInv'
      BY <1>1, <1>2, ConversationMoves, OneFollows
<1>3. ASSUME NEW q, Follows(r, q), Fails([convs EXCEPT ![c] = q], c)
      PROVE  StudioInv'
      BY <1>1, <1>3, ConversationMoves, FailsOne
<1> DEFINE left == [r EXCEPT !.client = "none"]
<1>4. Follows(r, left)
      BY <1>1 DEF Follows, Listens, Conversations
<1>5. CASE ConnectGoesOn(c)
  <2>1. r.at \in Connecting
        BY <1>5 DEF ConnectGoesOn
  <2>2. CASE r.closed
    <3>1. Fails([convs EXCEPT ![c] = left], c)
          BY <1>5, <2>2 DEF ConnectGoesOn
    <3> HIDE DEF left
    <3> QED BY <1>3, <1>4, <3>1
  <2>3. CASE ~r.closed
    <3> DEFINE a == After(r.at)
               j == r.joined \/ r.at = "bootstrap"
               k == r.track \/ r.at = "capture"
               q == [r EXCEPT !.at = a, !.joined = j, !.track = k]
    <3>1. convs' = [convs EXCEPT ![c] = q] /\ UNCHANGED <<current, made>>
          BY <1>1, <1>5, <2>3 DEF ConnectGoesOn
    <3>2. a \in {"room", "capture", "publish", "connected"} /\ j \in BOOLEAN /\ k \in BOOLEAN
          BY <1>1, <2>1 DEF After, Connecting, Conversations
    <3> HIDE DEF a, j, k
    <3>3. Follows(r, q)
          BY <1>1, <2>1, <3>2 DEF Follows, Listens, Conversations, Starting, Connecting
    <3> HIDE DEF q
    <3> QED BY <1>2, <3>1, <3>3
  <2> QED BY <2>2, <2>3
<1>6. CASE ConnectRejects(c, TRUE) \/ ConnectRejects(c, FALSE)
  <2>1. PICK a \in {"giveWay", "refused"} :
            convs' = [convs EXCEPT ![c].closed = TRUE, ![c].track = FALSE, ![c].at = a]
        BY <1>6 DEF ConnectRejects
  <2>2. r.at \in Connecting /\ UNCHANGED <<current, made>>
        BY <1>6 DEF ConnectRejects
  <2> DEFINE q == [r EXCEPT !.closed = TRUE, !.track = FALSE, !.at = a]
  <2>3. convs' = [convs EXCEPT ![c] = q]
        BY <1>1, <2>1
  <2>4. Follows(r, q)
        BY <1>1, <2>2 DEF Follows, Listens, Conversations, Starting, Connecting
  <2> HIDE DEF q
  <2> QED BY <1>2, <2>2, <2>3, <2>4
<1>7. CASE GivesUpLiveKit(c)
  <2>1. r.at \in {"giveWay", "refused"}
        BY <1>7 DEF GivesUpLiveKit
  <2>2. CASE r.at = "refused" \/ r.stopped
    <3>1. Fails([convs EXCEPT ![c] = left], c)
          BY <1>7, <2>2 DEF GivesUpLiveKit
    <3> HIDE DEF left
    <3> QED BY <1>3, <1>4, <3>1
  <2>3. CASE ~(r.at = "refused" \/ r.stopped)
    <3> DEFINE q == [r EXCEPT !.at = "mic", !.client = "socket"]
    <3>1. convs' = [[convs EXCEPT ![c].client = "none"] EXCEPT ![c].at = "mic", ![c].client = "socket"]
          /\ UNCHANGED <<current, made>>
          BY <1>7, <2>3 DEF GivesUpLiveKit
    <3>2. convs' = [convs EXCEPT ![c] = q]
          BY <1>1, <3>1 DEF Conversations
    <3>3. Follows(r, q)
          BY <1>1, <2>1 DEF Follows, Listens, Conversations, Starting, Connecting
    <3> HIDE DEF q
    <3> QED BY <1>2, <3>1, <3>2, <3>3
  <2> QED BY <2>2, <2>3
<1>8. CASE ConnectReturns(c)
  <2>1. r.at = "connected"
        BY <1>8 DEF ConnectReturns
  <2>2. CASE r.stopped
    <3>1. Fails([convs EXCEPT ![c] = left], c)
          BY <1>8, <2>2 DEF ConnectReturns
    <3> HIDE DEF left
    <3> QED BY <1>3, <1>4, <3>1
  <2>3. CASE ~r.stopped
    <3> DEFINE q == [r EXCEPT !.at = "live"]
    <3>1. convs' = [convs EXCEPT ![c] = q] /\ UNCHANGED <<current, made>>
          BY <1>8, <2>3 DEF ConnectReturns
    <3>2. Follows(r, q)
          BY <1>1, <2>1 DEF Follows, Listens, Conversations, Starting, Connecting
    <3> HIDE DEF q
    <3> QED BY <1>2, <3>1, <3>2
  <2> QED BY <2>2, <2>3
<1>9. CASE MicReady(c)
  <2>1. r.at = "mic"
        BY <1>9 DEF MicReady
  <2>2. CASE r.stopped
        BY <1>1, <1>9, <2>2, FailsOne DEF MicReady
  <2>3. CASE ~r.stopped
    <3> DEFINE q == [r EXCEPT !.at = "speaker", !.mic = TRUE, !.speaker = TRUE]
    <3>1. convs' = [convs EXCEPT ![c] = q] /\ UNCHANGED <<current, made>>
          BY <1>1, <1>9, <2>3 DEF MicReady
    <3>2. Follows(r, q)
          BY <1>1, <2>1 DEF Follows, Listens, Conversations, Starting, Connecting
    <3> HIDE DEF q
    <3> QED BY <1>2, <3>1, <3>2
  <2> QED BY <2>2, <2>3
<1>10. CASE SpeakerReady(c)
  <2>1. r.at = "speaker"
        BY <1>10 DEF SpeakerReady
  <2>2. CASE r.stopped
    <3> DEFINE q == [r EXCEPT !.speaker = FALSE]
    <3>1. Fails([convs EXCEPT ![c] = q], c)
          BY <1>10, <2>2 DEF SpeakerReady
    <3>2. Follows(r, q)
          BY <1>1 DEF Follows, Listens, Conversations
    <3> HIDE DEF q
    <3> QED BY <1>3, <3>1, <3>2
  <2>3. CASE ~r.stopped
    <3> DEFINE q == [r EXCEPT !.at = "live", !.socket = TRUE]
    <3>1. convs' = [convs EXCEPT ![c] = q] /\ UNCHANGED <<current, made>>
          BY <1>1, <1>10, <2>3 DEF SpeakerReady
    <3>2. Follows(r, q)
          BY <1>1, <2>1 DEF Follows, Listens, Conversations, Starting, Connecting
    <3> HIDE DEF q
    <3> QED BY <1>2, <3>1, <3>2
  <2> QED BY <2>2, <2>3
<1>11. CASE DeviceFails(c)
      BY <1>1, <1>11, FailsOne DEF DeviceFails
<1> QED BY <1>5, <1>6, <1>7, <1>8, <1>9, <1>10, <1>11 DEF StartSteps

\* A step of a stop, and of the room.
LEMMA StopsKeep ==
  ASSUME StudioInv, NEW c \in Controllers,
         RoomEnds(c) \/ \E by \in {"user", "start"} : StopSteps(c, by)
  PROVE  StudioInv'
<1> DEFINE r == convs[c]
<1>1. convs \in [Controllers -> Conversations] /\ r \in Conversations /\ AfterAll(convs) /\ UNCHANGED <<current, made>>
      BY DEF StudioInv, AfterAll, RoomEnds, StopSteps, ClientStopped, MicStopped, SpeakerClosed
<1>2. ASSUME NEW q, Follows(r, q), convs' = [convs EXCEPT ![c] = q]
      PROVE  StudioInv'
      BY <1>1, <1>2, ConversationMoves, OneFollows
<1>3. CASE RoomEnds(c)
  <2> DEFINE q == [r EXCEPT !.closed = TRUE, !.track = FALSE, !.told = TRUE]
  <2>1. convs' = [convs EXCEPT ![c] = q]
        BY <1>1, <1>3 DEF RoomEnds
  <2>2. Follows(r, q)
        BY <1>1 DEF Follows, Listens, Conversations
  <2> HIDE DEF q
  <2> QED BY <1>2, <2>1, <2>2
<1>4. ASSUME NEW by \in {"user", "start"}, ClientStopped(c, by) PROVE StudioInv'
  <2> DEFINE x == r.closed \/ by = "user"
             y == r.track /\ by # "user"
             q == [r EXCEPT !.closed = x, !.track = y, !.mic = FALSE]
  <2>1. convs' = [convs EXCEPT ![c] = q]
        BY <1>1, <1>4 DEF ClientStopped
  <2>2. x \in BOOLEAN /\ y \in BOOLEAN
        BY <1>1 DEF Conversations
  <2> HIDE DEF x, y
  <2>3. Follows(r, q)
        BY <1>1, <2>2 DEF Follows, Listens, Conversations
  <2> HIDE DEF q
  <2> QED BY <1>2, <2>1, <2>3
<1>5. ASSUME NEW by \in {"user", "start"}, MicStopped(c, by) PROVE StudioInv'
  <2> DEFINE q == [r EXCEPT !.speaker = FALSE]
  <2>1. convs' = [convs EXCEPT ![c] = q]
        BY <1>1, <1>5 DEF MicStopped
  <2>2. Follows(r, q)
        BY <1>1 DEF Follows, Listens, Conversations
  <2> HIDE DEF q
  <2> QED BY <1>2, <2>1, <2>2
<1>6. ASSUME NEW by \in {"user", "start"}, SpeakerClosed(c, by) PROVE StudioInv'
      BY <1>1, <1>6, OneFollows DEF SpeakerClosed, AfterAll
<1> QED BY <1>3, <1>4, <1>5, <1>6 DEF StopSteps

\* A step keeps the page's conversation the one that listens.
LEMMA StudioKeeps ==
  ASSUME StudioInv, [StudioNext]_studioVars
  PROVE  StudioInv'
<1>1. convs \in [Controllers -> Conversations] /\ AfterAll(convs)
      BY DEF StudioInv, AfterAll
<1>2. ASSUME NEW cs, AfterAll(cs), stopConversation(cs), UNCHANGED made PROVE StudioInv'
  <2>1. AfterAll(convs') /\ current' = Nobody /\ \A c \in Controllers : ~Listens(convs'[c])
        BY <1>2, StopsCurrent
  <2> QED BY <1>2, <2>1 DEF StudioInv, AfterAll, NoneIsForgotten, Listens
<1>3. ASSUME NEW client \in {"livekit", "socket"}, startConversation(client) PROVE StudioInv'
  <2> DEFINE n == made + 1
             a == IF client = "livekit" THEN "bootstrap" ELSE "mic"
             q == [convs[n] EXCEPT !.at = a, !.client = client]
  <2>1. n \in Controllers /\ made' = n /\ current' = n /\ current = Nobody /\ n \in 0..MaxConversations
        BY <1>3, ConversationsAssumption DEF startConversation, StudioInv, Controllers
  <2>2. convs' = [convs EXCEPT ![n] = q]
        BY <1>1, <1>3 DEF startConversation
  <2>3. q \in Conversations
    <3>1. convs[n] \in Conversations
          BY <1>1, <2>1
    <3>2. a \in Starting \union {"new", "giveWay", "refused", "connected", "live", "over"}
          BY DEF Starting, Connecting
    <3> HIDE DEF n, a
    <3>3. [convs[n] EXCEPT !.at = a, !.client = client] \in Conversations
          BY <1>3, <3>1, <3>2 DEF Conversations
    <3> QED BY <3>3
  <2>4. \A c \in Controllers : ~Listens(convs[c])
        BY <2>1 DEF StudioInv, NoneIsForgotten, Listens, Nobody, Controllers
  <2> HIDE DEF q, n
  <2>5. NoneIsForgotten'
        BY <1>1, <2>1, <2>2, <2>4 DEF NoneIsForgotten, Listens
  <2> QED BY <1>1, <2>1, <2>2, <2>3, <2>5 DEF StudioInv
<1>4. CASE UserStops
      BY <1>1, <1>2, <1>4 DEF UserStops
<1>5. ASSUME NEW c \in Controllers, HungUp(c) PROVE StudioInv'
      BY <1>1, <1>2, <1>5 DEF HungUp
<1>6. ASSUME NEW c \in Controllers, Disconnected(c) PROVE StudioInv'
  <2> DEFINE q == [convs[c] EXCEPT !.told = FALSE]
             cs == [convs EXCEPT ![c] = q]
  <2>1. Follows(convs[c], q)
        BY <1>1 DEF Follows, Listens, Conversations
  <2>2. \/ convs' = cs /\ UNCHANGED current
        \/ stopConversation(cs)
        BY <1>6 DEF Disconnected
  <2>3. UNCHANGED made
        BY <1>6 DEF Disconnected
  <2> HIDE DEF q
  <2>4. AfterAll(cs)
        BY <1>1, <2>1, ConversationMoves
  <2> HIDE DEF cs
  <2> QED BY <1>2, <2>2, <2>3, <2>4, OneFollows
<1>7. CASE UNCHANGED studioVars
      BY <1>1, <1>7, OneFollows DEF studioVars, AfterAll
<1> QED BY <1>3, <1>4, <1>5, <1>6, <1>7, StartsKeep, StopsKeep DEF StudioNext

\* Whoever listens can be told to stop: for any number of conversations, starts and stops
\* that interleave.
THEOREM NoneStaysForgotten == StudioSpec => []NoneIsForgotten
<1>1. StudioInit => StudioInv
  <2> SUFFICES ASSUME StudioInit PROVE StudioInv
      OBVIOUS
  <2>1. NewConversation \in Conversations
        BY DEF NewConversation, Conversations, Starting, Connecting
  <2>2. convs \in [Controllers -> Conversations] /\ \A c \in Controllers : convs[c].at = "new"
        BY <2>1 DEF StudioInit, NewConversation
  <2> QED BY <2>2, ConversationsAssumption DEF StudioInit, StudioInv, NoneIsForgotten
<1>2. StudioInv /\ [StudioNext]_studioVars => StudioInv'
      BY StudioKeeps
<1>3. StudioInv => NoneIsForgotten
      BY DEF StudioInv
<1> QED BY <1>1, <1>2, <1>3, PTL DEF StudioSpec

-----------------------------------------------------------------------------
(* What a room has played.                                                 *)

\* n of the pieces' halves are of turn t: f[i] of those before the i-th and in it.
CountIs(s, t, n) ==
    \E f \in [0..Len(s) -> Int] :
        /\ f[0] = 0 /\ f[Len(s)] = n
        /\ \A i \in 1..Len(s) : f[i] = f[i - 1] + Halves(s[i], t)

\* The halves of a turn are finitely many.
LEMMA HalvesType ==
  ASSUME NEW a \in Seq(Nat), NEW t
  PROVE  /\ Halves(a, t) \in Nat
         /\ IsFiniteSet({i \in DOMAIN a : a[i] = t})
<1> DEFINE P == {i \in DOMAIN a : a[i] = t}
<1>1. P \subseteq 1..Len(a) /\ IsFiniteSet(1..Len(a))
      BY FS_Interval
<1>2. IsFiniteSet(P)
      BY <1>1, FS_Subset
<1> QED BY <1>2, FS_CardinalityType DEF Halves

\* A piece without the turn, and one that is all of it.
LEMMA HalvesAre ==
  ASSUME NEW a \in Seq(Nat), NEW t
  PROVE  /\ (\A i \in DOMAIN a : a[i] # t) => Halves(a, t) = 0
         /\ (\A i \in DOMAIN a : a[i] = t) => Halves(a, t) = Len(a)
<1> DEFINE P == {i \in DOMAIN a : a[i] = t}
<1>1. ASSUME \A i \in DOMAIN a : a[i] # t PROVE Halves(a, t) = 0
      BY <1>1, FS_EmptySet, P = {} DEF Halves
<1>2. ASSUME \A i \in DOMAIN a : a[i] = t PROVE Halves(a, t) = Len(a)
  <2>1. P = 1..Len(a) /\ Len(a) \in Nat
        BY <1>2
  <2>2. Cardinality(1..Len(a)) = Len(a)
    <3>1. Cardinality(1..Len(a)) = IF 1 > Len(a) THEN 0 ELSE Len(a) - 1 + 1
          BY <2>1, FS_Interval
    <3> QED BY <2>1, <3>1
  <2>3. Halves(a, t) = Cardinality(P)
        BY DEF Halves
  <2> HIDE DEF P
  <2> QED BY <2>1, <2>2, <2>3
<1> QED BY <1>1, <1>2

\* The halves of what is joined are those of its two parts.
LEMMA JoinedHalves ==
  ASSUME NEW a \in Seq(Nat), NEW b \in Seq(Nat), NEW t
  PROVE  a \o b \in Seq(Nat) /\ Halves(a \o b, t) = Halves(a, t) + Halves(b, t)
<1> DEFINE P == {i \in DOMAIN a : a[i] = t}
           Q == {i \in DOMAIN b : b[i] = t}
           c == a \o b
           R == {i \in DOMAIN c : c[i] = t}
           move == [i \in Q |-> i + Len(a)]
           M == {move[i] : i \in Q}
<1>1. IsFiniteSet(P) /\ IsFiniteSet(Q)
      BY HalvesType
<1>2. Len(a) \in Nat /\ Len(b) \in Nat /\ c \in Seq(Nat) /\ Len(c) = Len(a) + Len(b)
      OBVIOUS
<1>3. \A i \in 1..Len(a) : c[i] = a[i]
      OBVIOUS
<1>4. \A i \in 1..Len(b) : c[i + Len(a)] = b[i]
      OBVIOUS
<1>5. P \subseteq 1..Len(a) /\ Q \subseteq 1..Len(b)
      OBVIOUS
<1>6. R = P \union M
  <2>1. ASSUME NEW i \in R PROVE i \in P \union M
    <3>1. i \in 1..(Len(a) + Len(b)) /\ c[i] = t
          BY <1>2
    <3>2. CASE i <= Len(a)
          BY <3>1, <3>2, <1>2, <1>3
    <3>3. CASE ~(i <= Len(a))
      <4>1. i - Len(a) \in 1..Len(b) /\ (i - Len(a)) + Len(a) = i
            BY <3>1, <3>3, <1>2
      <4>2. i - Len(a) \in Q
            BY <3>1, <4>1, <1>4
      <4> QED BY <4>1, <4>2
    <3> QED BY <3>2, <3>3
  <2>2. ASSUME NEW i \in P PROVE i \in R
        BY <2>2, <1>2, <1>3, <1>5
  <2>3. ASSUME NEW i \in Q PROVE move[i] \in R
        BY <2>3, <1>2, <1>4, <1>5
  <2> QED BY <2>1, <2>2, <2>3
<1>7. P \cap M = {}
  <2>1. \A i \in P : i <= Len(a)
        BY <1>2, <1>5
  <2>2. ASSUME NEW i \in M PROVE ~(i <= Len(a))
    <3>1. PICK j \in Q : i = move[j]
          BY DEF M
    <3>2. j \in 1..Len(b) /\ move[j] = j + Len(a)
          BY <1>5
    <3> QED BY <3>1, <3>2, <1>2
  <2> HIDE DEF P, M
  <2> QED BY <2>1, <2>2
<1>8. move \in Bijection(Q, M)
  <2>1. move \in [Q -> M]
        OBVIOUS
  <2>2. \A x, y \in Q : move[x] = move[y] => x = y
        BY <1>2, <1>5
  <2>3. \A y \in M : \E x \in Q : move[x] = y
        OBVIOUS
  <2> QED BY <2>1, <2>2, <2>3 DEF Bijection, Injection, Surjection, IsInjective
<1> HIDE DEF c, move, M, R, P, Q
<1>9. IsFiniteSet(M) /\ Cardinality(M) = Cardinality(Q)
      BY <1>1, <1>8, FS_Bijection DEF ExistsBijection
<1>10. Cardinality(R) = Cardinality(P) + Cardinality(Q)
  <2>1. Cardinality(P \cap M) = 0
        BY <1>7, FS_EmptySet
  <2>2. Cardinality(P) \in Nat /\ Cardinality(M) \in Nat
        BY <1>1, <1>9, FS_CardinalityType
  <2>3. Cardinality(R) = Cardinality(P) + Cardinality(M) - Cardinality(P \cap M)
        BY <1>1, <1>6, <1>9, FS_Union
  <2> QED BY <2>1, <2>2, <2>3, <1>9
<1>11. Halves(c, t) = Cardinality(R) /\ Halves(a, t) = Cardinality(P) /\ Halves(b, t) = Cardinality(Q)
      BY DEF Halves, R, P, Q
<1> QED BY <1>2, <1>10, <1>11 DEF c

\* Nothing holds nothing, and what has none of a turn holds none of it.
LEMMA HoldsNone ==
  ASSUME NEW s \in Seq(Seq(Nat)), NEW t
  PROVE  /\ s = <<>> => \A n : CountIs(s, t, n) => n = 0
         /\ (\A i \in 1..Len(s) : Halves(s[i], t) = 0) => CountIs(s, t, 0)
<1>1. s = <<>> => \A n : CountIs(s, t, n) => n = 0
      BY DEF CountIs
<1>2. ASSUME \A i \in 1..Len(s) : Halves(s[i], t) = 0 PROVE CountIs(s, t, 0)
  <2> DEFINE f == [i \in 0..Len(s) |-> 0]
  <2>1. f \in [0..Len(s) -> Int] /\ Len(s) \in Nat
        OBVIOUS
  <2>2. f[0] = 0 /\ f[Len(s)] = 0
        BY <2>1
  <2>3. ASSUME NEW i \in 1..Len(s) PROVE f[i] = f[i - 1] + Halves(s[i], t)
        BY <1>2, <2>1, <2>3
  <2> HIDE DEF f
  <2> QED BY <2>1, <2>2, <2>3 DEF CountIs
<1> QED BY <1>1, <1>2

\* One piece more at the end.
LEMMA HoldsMore ==
  ASSUME NEW s \in Seq(Seq(Nat)), NEW t, NEW n, CountIs(s, t, n), NEW a \in Seq(Nat)
  PROVE  n \in Int /\ CountIs(Append(s, a), t, n + Halves(a, t))
<1>1. PICK f \in [0..Len(s) -> Int] :
         /\ f[0] = 0 /\ f[Len(s)] = n
         /\ \A i \in 1..Len(s) : f[i] = f[i - 1] + Halves(s[i], t)
      BY DEF CountIs
<1>2. Len(s) \in Nat /\ n \in Int /\ Halves(a, t) \in Nat
  <2>1. Len(s) \in Nat /\ Halves(a, t) \in Nat
        BY HalvesType
  <2>2. Len(s) \in 0..Len(s)
        BY <2>1
  <2> QED BY <1>1, <2>1, <2>2
<1> DEFINE u == Append(s, a)
           g == [i \in 0..(Len(s) + 1) |-> IF i <= Len(s) THEN f[i] ELSE n + Halves(a, t)]
<1>3. Len(u) = Len(s) + 1 /\ u[Len(s) + 1] = a /\ \A i \in 1..Len(s) : u[i] = s[i]
      OBVIOUS
<1>4. g \in [0..Len(u) -> Int]
      BY <1>1, <1>2, <1>3
<1>5. g[0] = 0 /\ g[Len(u)] = n + Halves(a, t)
      BY <1>1, <1>2, <1>3
<1>6. ASSUME NEW i \in 1..Len(u) PROVE g[i] = g[i - 1] + Halves(u[i], t)
  <2>1. CASE i <= Len(s)
    <3>1. i \in 1..Len(s) /\ i \in 0..(Len(s) + 1) /\ i - 1 \in 0..(Len(s) + 1) /\ i - 1 <= Len(s)
          BY <1>2, <1>3, <2>1
    <3>2. g[i] = f[i] /\ g[i - 1] = f[i - 1] /\ u[i] = s[i]
          BY <3>1, <1>3, <2>1
    <3> QED BY <3>1, <3>2, <1>1
  <2>2. CASE ~(i <= Len(s))
    <3>1. i = Len(s) + 1 /\ i - 1 = Len(s)
          BY <1>2, <1>3, <2>2
    <3>2. g[i] = n + Halves(a, t) /\ g[i - 1] = n /\ u[i] = a
          BY <3>1, <1>1, <1>2, <1>3
    <3> QED BY <3>2
  <2> QED BY <2>1, <2>2
<1> HIDE DEF g, u
<1>7. CountIs(u, t, n + Halves(a, t))
      BY <1>4, <1>5, <1>6 DEF CountIs
<1> QED BY <1>2, <1>7 DEF u

\* One piece less at the front.
LEMMA HoldsLess ==
  ASSUME NEW s \in Seq(Seq(Nat)), s # <<>>, NEW t, NEW n, CountIs(s, t, n)
  PROVE  n \in Int /\ CountIs(Tail(s), t, n - Halves(s[1], t))
<1>1. PICK f \in [0..Len(s) -> Int] :
         /\ f[0] = 0 /\ f[Len(s)] = n
         /\ \A i \in 1..Len(s) : f[i] = f[i - 1] + Halves(s[i], t)
      BY DEF CountIs
<1> DEFINE k == Len(s) - 1
           u == Tail(s)
           w == Halves(s[1], t)
           g == [i \in 0..k |-> f[i + 1] - w]
<1>2. k \in Nat /\ Len(s) = k + 1
      OBVIOUS
<1>3. Len(u) = k /\ \A i \in 1..k : u[i] = s[i + 1]
      BY <1>2
<1>4. s[1] \in Seq(Nat) /\ w \in Nat
  <2>1. s[1] \in Seq(Nat)
        BY <1>2
  <2> QED BY <2>1, HalvesType
<1> HIDE DEF k, u, w
<1>5. f \in [0..(k + 1) -> Int] /\ f[0] = 0 /\ f[k + 1] = n /\ n \in Int
  <2>1. k + 1 \in 0..(k + 1)
        BY <1>2
  <2> QED BY <1>1, <1>2, <2>1
<1>6. \A i \in 0..k : i + 1 \in 0..(k + 1)
      BY <1>2
<1>7. g \in [0..k -> Int] /\ \A i \in 0..k : g[i] = f[i + 1] - w
  <2>1. ASSUME NEW i \in 0..k PROVE f[i + 1] - w \in Int
    <3>1. f[i + 1] \in Int
          BY <1>5, <1>6
    <3> QED BY <1>4, <3>1
  <2> QED BY <2>1
<1>8. f[1] = w
  <2>1. 1 \in 1..Len(s) /\ 1 - 1 = 0
        BY <1>2
  <2>2. f[1] = f[1 - 1] + Halves(s[1], t)
        BY <1>1, <2>1
  <2> QED BY <1>4, <1>5, <2>1, <2>2 DEF w
<1> HIDE DEF g
<1>9. g[0] = 0 /\ g[k] = n - w
      BY <1>2, <1>4, <1>5, <1>7, <1>8
<1>10. ASSUME NEW i \in 1..k PROVE g[i] = g[i - 1] + Halves(u[i], t)
  <2>1. i \in 0..k /\ i - 1 \in 0..k /\ i + 1 \in 1..Len(s) /\ (i - 1) + 1 = i /\ (i + 1) - 1 = i /\ i \in 0..(k + 1)
        BY <1>2
  <2>2. g[i] = f[i + 1] - w /\ g[i - 1] = f[i] - w /\ u[i] = s[i + 1]
    <3>1. g[i - 1] = f[(i - 1) + 1] - w
          BY <1>7, <2>1
    <3> QED BY <1>3, <1>7, <2>1, <3>1
  <2>3. f[i + 1] = f[i] + Halves(s[i + 1], t)
    <3>1. f[i + 1] = f[(i + 1) - 1] + Halves(s[i + 1], t)
          BY <1>1, <2>1
    <3> QED BY <2>1, <3>1
  <2>4. f[i] \in Int /\ Halves(s[i + 1], t) \in Nat
    <3>1. s[i + 1] \in Seq(Nat)
          BY <2>1
    <3> QED BY <1>5, <2>1, <3>1, HalvesType
  <2> QED BY <1>4, <2>2, <2>3, <2>4
<1>11. CountIs(u, t, n - w)
      BY <1>3, <1>7, <1>9, <1>10 DEF CountIs
<1> QED BY <1>5, <1>11 DEF u, w

\* Another first piece.
LEMMA HoldsOther ==
  ASSUME NEW s \in Seq(Seq(Nat)), s # <<>>, NEW t, NEW n, CountIs(s, t, n), NEW a \in Seq(Nat)
  PROVE  CountIs([s EXCEPT ![1] = a], t, n - Halves(s[1], t) + Halves(a, t))
<1>1. PICK f \in [0..Len(s) -> Int] :
         /\ f[0] = 0 /\ f[Len(s)] = n
         /\ \A i \in 1..Len(s) : f[i] = f[i - 1] + Halves(s[i], t)
      BY DEF CountIs
<1> DEFINE k == Len(s)
           u == [s EXCEPT ![1] = a]
           w == Halves(a, t) - Halves(s[1], t)
           g == [i \in 0..k |-> IF i = 0 THEN 0 ELSE f[i] + w]
<1>2. k \in Nat /\ k >= 1
      OBVIOUS
<1>3. Len(u) = k /\ u[1] = a /\ \A i \in 1..k : i # 1 => u[i] = s[i]
      BY <1>2
<1>4. Halves(s[1], t) \in Nat /\ Halves(a, t) \in Nat /\ w \in Int
  <2>1. s[1] \in Seq(Nat)
        BY <1>2
  <2>2. Halves(s[1], t) \in Nat /\ Halves(a, t) \in Nat
        BY <2>1, HalvesType
  <2> QED BY <2>2
<1> HIDE DEF k, u, w
<1>5. f \in [0..k -> Int] /\ f[0] = 0 /\ f[k] = n /\ n \in Int
  <2>1. k \in 0..k
        BY <1>2
  <2> QED BY <1>1, <2>1 DEF k
<1>6. g \in [0..k -> Int] /\ g[0] = 0 /\ \A i \in 0..k : i # 0 => g[i] = f[i] + w
      BY <1>2, <1>4, <1>5
<1> HIDE DEF g
<1>7. g[k] = n + w
      BY <1>2, <1>5, <1>6
<1>8. ASSUME NEW i \in 1..k PROVE g[i] = g[i - 1] + Halves(u[i], t)
  <2>1. i \in 0..k /\ i - 1 \in 0..k /\ i # 0 /\ s[i] \in Seq(Nat)
        BY <1>2 DEF k
  <2>2. f[i] = f[i - 1] + Halves(s[i], t) /\ f[i] \in Int /\ f[i - 1] \in Int /\ Halves(s[i], t) \in Nat
        BY <1>1, <1>5, <2>1, HalvesType DEF k
  <2>3. g[i] = f[i] + w
        BY <1>6, <2>1
  <2>4. CASE i = 1
    <3>1. g[i - 1] = 0 /\ f[i - 1] = 0 /\ u[i] = a
          BY <1>3, <1>5, <1>6, <2>4
    <3>2. f[i] = Halves(s[1], t)
          BY <2>2, <2>4, <3>1
    <3> QED BY <1>4, <2>3, <3>1, <3>2 DEF w
  <2>5. CASE i # 1
    <3>1. i - 1 # 0 /\ u[i] = s[i]
          BY <1>3, <2>1, <2>5
    <3>2. g[i - 1] = f[i - 1] + w
          BY <1>6, <2>1, <3>1
    <3> QED BY <1>4, <2>2, <2>3, <3>1, <3>2
  <2> QED BY <2>4, <2>5
<1>9. CountIs(u, t, n + w)
      BY <1>3, <1>6, <1>7, <1>8 DEF CountIs
<1>10. n + w = n - Halves(s[1], t) + Halves(a, t)
      BY <1>4, <1>5 DEF w
<1> QED BY <1>9, <1>10 DEF u

Chunks == [audio : Seq(Nat), size : Nat, generation : Nat, at : {"queued", "capturing"}]
Acks == [at : {"none", "tail", "playing", "dropped", "complete"}, generation : Nat, ahead : Nat]

\* Only the first chunk is being captured, and there is a frame in it.
AudioTypes ==
    /\ speech \in [id : Nat, at : {"speaking", "ended", "over"}]
    /\ speech.id <= MaxReplyTurns /\ (speech.at # "over" => speech.id >= 1)
    /\ tail \in Seq(Chunks) /\ generation \in Nat
    /\ \A i \in 1..Len(tail) : tail[i].at = "capturing" => i = 1 /\ Len(tail[i].audio) >= 2
    /\ carry \in Seq(Nat) /\ native \in Seq(Seq(Nat))
    /\ playouts \in [Replies -> Acks]
    /\ sent \in [Replies -> Nat] /\ heard \in [Replies -> Nat]

Capturing(s) == s # <<>> /\ s[1].at = "capturing"

\* What is on its way of a turn.
Audios(s) == [i \in 1..Len(s) |-> s[i].audio]

\* A turn of which there is nothing.
Absent(t, s, car, nat) ==
    /\ \A i \in 1..Len(s) : Halves(s[i].audio, t) = 0
    /\ Halves(car, t) = 0
    /\ \A i \in 1..Len(nat) : Halves(nat[i], t) = 0

\* What was sent of a turn was played, is with the source, in the chain, or left over; what
\* is left over is in the first chunk's hands while that is captured.
Accounted(t, s, car, nat, out, played) ==
    \E m, k \in Int :
        /\ CountIs(Audios(s), t, m) /\ CountIs(nat, t, k)
        /\ played + k + m + (IF Capturing(s) THEN 0 ELSE Halves(car, t)) >= out

\* No chunk that will be passed over has any of the turn.
Fresh(t, s, g) == \A i \in 1..Len(s) : s[i].generation # g => Halves(s[i].audio, t) = 0

\* The end of the reply was announced behind all its chunks; from then on none is left.
Ending(p, s, car, g) ==
    /\ p.generation = g
    /\ \/ p.at = "tail" /\ p.ahead = Len(s)
       \/ p.at = "playing" /\ s = <<>> /\ car = <<>>

AudioInv ==
    /\ AudioTypes
    /\ \A t \in Replies : t > speech.id => sent[t] = 0 /\ Absent(t, tail, carry, native)
    /\ speech.at # "over" =>
          /\ Accounted(speech.id, tail, carry, native, sent[speech.id], heard[speech.id])
          /\ Fresh(speech.id, tail, generation)
    /\ speech.at = "ended" => Ending(playouts[speech.id], tail, carry, generation)

\* A piece of audio cut after its first frame.
LEMMA CutIs ==
  ASSUME NEW a \in Seq(Nat), Len(a) >= 2, NEW t
  PROVE  LET b == SubSeq(a, 1, 2)
             c == SubSeq(a, 3, Len(a)) IN
         /\ b \in Seq(Nat) /\ c \in Seq(Nat)
         /\ Halves(a, t) \in Nat /\ Halves(b, t) \in Nat /\ Halves(c, t) \in Nat
         /\ Halves(a, t) = Halves(b, t) + Halves(c, t)
<1> DEFINE b == SubSeq(a, 1, 2)
           c == SubSeq(a, 3, Len(a))
<1>1. Len(a) \in Nat /\ 3 = 2 + 1
      OBVIOUS
<1>2. b \in Seq(Nat) /\ c \in Seq(Nat)
  <2>1. \A i \in 1..2 : a[i] \in Nat
        BY <1>1
  <2>2. \A i \in 3..Len(a) : a[i] \in Nat
        BY <1>1
  <2> QED BY <1>1, <2>1, <2>2, SubSeqProperties
<1>3. SubSeq(a, 1, 2) \o SubSeq(a, 2 + 1, Len(a)) = SubSeq(a, 1, Len(a))
  <2>1. 1 \in 1..(Len(a) + 1) /\ 2 \in (1 - 1)..Len(a) /\ Len(a) \in 2..Len(a)
        BY <1>1
  <2> QED BY <2>1, ConcatAdjacentSubSeq
<1>4. a = b \o c
      BY <1>1, <1>3, SubSeqFull
<1> HIDE DEF b, c
<1>5. Halves(a, t) = Halves(b, t) + Halves(c, t)
      BY <1>2, <1>4, JoinedHalves
<1> QED BY <1>2, <1>5, HalvesType DEF b, c

\* The pieces of a chain after each of the ways it changes.
LEMMA AudiosAre ==
  ASSUME NEW s \in Seq(Chunks)
  PROVE  /\ Audios(s) \in Seq(Seq(Nat)) /\ Len(Audios(s)) = Len(s)
         /\ \A i \in 1..Len(s) : Audios(s)[i] = s[i].audio
         /\ \A c \in Chunks : Audios(Append(s, c)) = Append(Audios(s), c.audio)
         /\ s # <<>> => /\ Audios(Tail(s)) = Tail(Audios(s))
                        /\ \A c \in Chunks : Audios([s EXCEPT ![1] = c]) = [Audios(s) EXCEPT ![1] = c.audio]
<1>1. Len(s) \in Nat /\ \A i \in 1..Len(s) : s[i] \in Chunks /\ s[i].audio \in Seq(Nat)
  <2>1. \A i \in 1..Len(s) : s[i] \in Chunks
        OBVIOUS
  <2>2. \A c \in Chunks : c.audio \in Seq(Nat)
        BY DEF Chunks
  <2> QED BY <2>1, <2>2
<1>2. Audios(s) \in Seq(Seq(Nat)) /\ Len(Audios(s)) = Len(s) /\ \A i \in 1..Len(s) : Audios(s)[i] = s[i].audio
      BY <1>1 DEF Audios
<1>3. ASSUME NEW c \in Chunks PROVE Audios(Append(s, c)) = Append(Audios(s), c.audio)
  <2> DEFINE u == Append(s, c)
             p == Audios(u)
             q == Append(Audios(s), c.audio)
  <2>1. c.audio \in Seq(Nat)
        BY DEF Chunks
  <2>2. u \in Seq(Chunks) /\ Len(u) = Len(s) + 1 /\ u[Len(s) + 1] = c /\ \A i \in 1..Len(s) : u[i] = s[i]
        OBVIOUS
  <2>3. q \in Seq(Seq(Nat)) /\ Len(q) = Len(s) + 1 /\ q[Len(s) + 1] = c.audio /\ \A i \in 1..Len(s) : q[i] = s[i].audio
        BY <1>1, <1>2, <2>1
  <2> HIDE DEF u, q
  <2>4. p = [i \in 1..(Len(s) + 1) |-> u[i].audio]
        BY <2>2 DEF Audios
  <2>5. ASSUME NEW i \in 1..(Len(s) + 1) PROVE p[i] = q[i]
    <3>1. CASE i = Len(s) + 1
          BY <2>2, <2>3, <2>4, <3>1
    <3>2. CASE i # Len(s) + 1
      <4>1. i \in 1..Len(s)
            BY <1>1, <3>2
      <4> QED BY <2>2, <2>3, <2>4, <4>1
    <3> QED BY <3>1, <3>2
  <2>6. q = [i \in 1..(Len(s) + 1) |-> q[i]]
        BY <2>3
  <2>7. p = q
        BY <2>4, <2>5, <2>6
  <2> QED BY <2>7 DEF u, q
<1>4. ASSUME s # <<>> PROVE Audios(Tail(s)) = Tail(Audios(s))
  <2> DEFINE k == Len(s) - 1
             u == Tail(s)
             a == Audios(s)
             q == Tail(a)
             p == Audios(u)
  <2>1. k \in Nat /\ Len(u) = k /\ \A i \in 1..k : u[i] = s[i + 1]
        BY <1>1, <1>4
  <2>2. q = [i \in 1..k |-> a[i + 1]]
    <3>1. a \in Seq(Seq(Nat)) /\ Len(a) = k + 1 /\ k \in Nat
          BY <1>1, <1>2, <2>1
    <3> HIDE DEF a, k
    <3>2. a # <<>> /\ Len(a) - 1 = k
          BY <3>1
    <3>3. Len(q) = k /\ q \in Seq(Seq(Nat)) /\ \A i \in 1..k : q[i] = a[i + 1]
          BY <3>1, <3>2, HeadTailProperties
    <3> HIDE DEF q
    <3>4. q = [i \in 1..k |-> q[i]]
          BY <3>3
    <3> QED BY <3>3, <3>4
  <2>3. \A i \in 1..k : i + 1 \in 1..Len(s)
        BY <1>1
  <2> HIDE DEF k, u, q
  <2>4. p = [i \in 1..k |-> u[i].audio]
        BY <2>1 DEF Audios
  <2>5. \A i \in 1..k : u[i].audio = a[i + 1]
        BY <1>2, <2>1, <2>3
  <2> HIDE DEF a, p
  <2>6. p = q
        BY <2>2, <2>4, <2>5
  <2> QED BY <2>6 DEF p, q, u, a
<1>5. ASSUME s # <<>>, NEW c \in Chunks
      PROVE Audios([s EXCEPT ![1] = c]) = [Audios(s) EXCEPT ![1] = c.audio]
  <2> DEFINE u == [s EXCEPT ![1] = c]
             a == Audios(s)
             q == [a EXCEPT ![1] = c.audio]
             p == Audios(u)
  <2>1. Len(u) = Len(s) /\ \A i \in 1..Len(s) : u[i] = IF i = 1 THEN c ELSE s[i]
        BY <1>1, <1>5
  <2>2. q = [i \in 1..Len(s) |-> IF i = 1 THEN c.audio ELSE a[i]]
    <3>1. a = [i \in 1..Len(s) |-> s[i].audio]
          BY DEF Audios
    <3> HIDE DEF a
    <3> QED BY <3>1
  <2> HIDE DEF u, q
  <2>3. p = [i \in 1..Len(s) |-> u[i].audio]
        BY <2>1 DEF Audios
  <2>4. \A i \in 1..Len(s) : u[i].audio = IF i = 1 THEN c.audio ELSE a[i]
        BY <1>2, <2>1
  <2> HIDE DEF a, p
  <2>5. p = q
        BY <2>2, <2>3, <2>4
  <2> QED BY <2>5 DEF p, q, u, a
<1> QED BY <1>2, <1>3, <1>4, <1>5

\* Every step keeps the types.
LEMMA AudioTypesKeep ==
  ASSUME AudioTypes, AudioNext
  PROVE  AudioTypes'
<1>1. /\ Len(tail) \in Nat /\ \A i \in 1..Len(tail) : tail[i] \in Chunks
      /\ \A c \in Chunks : /\ c.audio \in Seq(Nat) /\ c.size \in Nat /\ c.generation \in Nat
                           /\ c.at \in {"queued", "capturing"}
  <2>1. Len(tail) \in Nat /\ \A i \in 1..Len(tail) : tail[i] \in Chunks
        BY DEF AudioTypes
  <2>2. \A c \in Chunks : /\ c.audio \in Seq(Nat) /\ c.size \in Nat /\ c.generation \in Nat
                           /\ c.at \in {"queued", "capturing"}
        BY DEF Chunks
  <2> QED BY <2>1, <2>2
<1>2. /\ speech \in [id : Nat, at : {"speaking", "ended", "over"}]
      /\ speech.id <= MaxReplyTurns /\ (speech.at # "over" => speech.id \in Replies) /\ MaxReplyTurns \in Nat
      BY AudioAssumption DEF AudioTypes, Replies
<1> DEFINE TailOK == /\ tail' \in Seq(Chunks)
                     /\ \A i \in 1..Len(tail') : tail'[i].at = "capturing" => i = 1 /\ Len(tail'[i].audio) >= 2
           SpeechOK == /\ speech' \in [id : Nat, at : {"speaking", "ended", "over"}]
                       /\ speech'.id <= MaxReplyTurns /\ (speech'.at # "over" => speech'.id >= 1)
           AcksOK == playouts' \in [Replies -> Acks]
           RestOK == /\ carry' \in Seq(Nat) /\ native' \in Seq(Seq(Nat)) /\ generation' \in Nat
                     /\ sent' \in [Replies -> Nat] /\ heard' \in [Replies -> Nat]
<1>3. UNCHANGED tail => TailOK
      BY DEF AudioTypes
<1>4. UNCHANGED speech => SpeechOK
      BY DEF AudioTypes
<1>5. UNCHANGED playouts => AcksOK
      BY DEF AudioTypes
<1>6. UNCHANGED <<carry, native, generation, sent, heard>> => RestOK
      BY DEF AudioTypes
<1>7. \A outcome \in {"ended", "over"} : [speech EXCEPT !.at = outcome] \in [id : Nat, at : {"speaking", "ended", "over"}]
      BY <1>2
<1>8. ASSUME tail # <<>>, LeavesTail PROVE TailOK /\ AcksOK
  <2>1. TailOK
    <3>1. tail' = Tail(tail) /\ tail \in Seq(Chunks)
          BY <1>8 DEF LeavesTail, AudioTypes
    <3>2. tail' \in Seq(Chunks) /\ Len(tail') = Len(tail) - 1 /\ \A i \in 1..Len(tail') : tail'[i] = tail[i + 1]
          BY <1>8, <3>1, HeadTailProperties
    <3>3. ASSUME NEW i \in 1..Len(tail') PROVE tail'[i].at # "capturing"
      <4>1. i + 1 \in 1..Len(tail) /\ i + 1 # 1
            BY <1>1, <3>2
      <4> QED BY <3>2, <4>1 DEF AudioTypes
    <3> QED BY <3>2, <3>3
  <2>2. AcksOK
    <3>1. \A t \in Replies : Passes(playouts[t]) \in Acks
      <4> SUFFICES ASSUME NEW t \in Replies PROVE Passes(playouts[t]) \in Acks
          OBVIOUS
      <4>1. playouts[t] \in Acks
            BY DEF AudioTypes
      <4>2. playouts[t].ahead > 0 => playouts[t].ahead - 1 \in Nat
            BY <4>1 DEF Acks
      <4> QED BY <4>1, <4>2 DEF Passes, Acks
    <3> QED BY <1>8, <3>1 DEF LeavesTail
  <2> QED BY <2>1, <2>2
<1>9. ASSUME tail # <<>>, Head(tail).at = "capturing" \/ Head(tail).at = "queued", NEW a \in Seq(Nat), Len(a) >= 2,
             NEW c \in Chunks, c.audio = a, tail' = [tail EXCEPT ![1] = c]
      PROVE  TailOK
  <2>1. tail' \in Seq(Chunks) /\ Len(tail') = Len(tail) /\ \A i \in 1..Len(tail) : tail'[i] = IF i = 1 THEN c ELSE tail[i]
        BY <1>9 DEF AudioTypes
  <2> QED BY <1>9, <2>1 DEF AudioTypes
<1> HIDE DEF TailOK, SpeechOK, AcksOK, RestOK
<1>10. SUFFICES TailOK /\ SpeechOK /\ AcksOK /\ RestOK
       BY DEF TailOK, SpeechOK, AcksOK, RestOK, AudioTypes
<1>11. CASE Speaks
  <2>1. SpeechOK
        BY <1>2, <1>11 DEF Speaks, SpeechOK
  <2> QED BY <1>3, <1>5, <1>6, <1>11, <2>1 DEF Speaks
<1>12. CASE SendAudio
  <2>1. PICK n \in 1..3 :
           /\ tail' = Append(tail, [audio |-> Of(speech.id, n), size |-> n,
                                    generation |-> generation, at |-> "queued"])
           /\ sent' = [sent EXCEPT ![speech.id] = @ + n]
        BY <1>12 DEF SendAudio
  <2> DEFINE c == [audio |-> Of(speech.id, n), size |-> n, generation |-> generation, at |-> "queued"]
  <2>2. c \in Chunks
    <3>1. Of(speech.id, n) \in Seq(Nat)
          BY <1>2 DEF Of
    <3> QED BY <3>1 DEF Chunks, AudioTypes
  <2>3. c.at = "queued"
        OBVIOUS
  <2> HIDE DEF c
  <2>4. tail' = Append(tail, c)
        BY <2>1 DEF c
  <2>5. tail' \in Seq(Chunks) /\ Len(tail') = Len(tail) + 1 /\ tail'[Len(tail) + 1] = c
        /\ \A i \in 1..Len(tail) : tail'[i] = tail[i]
        BY <2>2, <2>4 DEF AudioTypes
  <2>6. TailOK
    <3>1. ASSUME NEW i \in 1..Len(tail'), tail'[i].at = "capturing" PROVE i \in 1..Len(tail)
          BY <1>1, <2>3, <2>5, <3>1
    <3> QED BY <2>5, <3>1 DEF AudioTypes, TailOK
  <2>7. RestOK
    <3>1. sent' \in [Replies -> Nat]
      <4>1. speech.id \in Replies /\ sent \in [Replies -> Nat]
            BY <1>2, <1>12 DEF SendAudio, AudioTypes
      <4>2. sent[speech.id] + n \in Nat
            BY <4>1
      <4> QED BY <2>1, <4>1, <4>2
    <3> QED BY <1>12, <3>1 DEF SendAudio, AudioTypes, RestOK
  <2> QED BY <1>4, <1>5, <1>12, <2>6, <2>7 DEF SendAudio
<1>13. CASE EndPlayback
  <2>1. SpeechOK
        BY <1>2, <1>7, <1>13 DEF EndPlayback, SpeechOK, Replies
  <2>2. AcksOK
    <3>1. [at |-> "tail", generation |-> generation, ahead |-> Len(tail)] \in Acks
          BY <1>1 DEF Acks, AudioTypes
    <3> QED BY <1>13, <3>1 DEF EndPlayback, AudioTypes, AcksOK
  <2> QED BY <1>3, <1>6, <1>13, <2>1, <2>2 DEF EndPlayback
<1>14. CASE InterruptPlayback
  <2>1. SpeechOK
        BY <1>2, <1>7, <1>14 DEF InterruptPlayback, SpeechOK
  <2>2. RestOK
        BY <1>14 DEF InterruptPlayback, AudioTypes, RestOK
  <2> QED BY <1>3, <1>5, <1>14, <2>1, <2>2 DEF InterruptPlayback
<1>15. CASE SessionMovesOn
  <2>1. SpeechOK
        BY <1>2, <1>7, <1>15 DEF SessionMovesOn, SpeechOK
  <2> QED BY <1>3, <1>5, <1>6, <1>15, <2>1 DEF SessionMovesOn
<1>16. CASE SkipStale
       BY <1>4, <1>6, <1>8, <1>16 DEF SkipStale
<1>17. CASE PublishBegins
  <2> DEFINE h == Head(tail)
             joined == carry \o h.audio
  <2>1. tail # <<>> /\ h = tail[1] /\ h \in Chunks /\ h.at = "queued" /\ joined \in Seq(Nat)
    <3>1. tail # <<>> /\ h = tail[1] /\ h.at = "queued" /\ 1 \in 1..Len(tail)
          BY <1>1, <1>17 DEF PublishBegins, AudioTypes
    <3>2. h.audio \in Seq(Nat)
          BY <1>1, <3>1
    <3> QED BY <1>1, <3>1, <3>2 DEF AudioTypes
  <2>2. CASE Len(joined) < 2
    <3>1. carry' = joined /\ LeavesTail /\ UNCHANGED <<speech, generation, native, sent, heard>>
          BY <1>17, <2>2 DEF PublishBegins
    <3>2. RestOK
          BY <2>1, <3>1 DEF AudioTypes, RestOK
    <3> QED BY <1>4, <1>8, <2>1, <3>1, <3>2
  <2>3. CASE ~(Len(joined) < 2)
    <3> DEFINE c == [h EXCEPT !.audio = joined, !.at = "capturing"]
    <3>1. tail' = [tail EXCEPT ![1] = c] /\ UNCHANGED <<carry, playouts, speech, generation, native, sent, heard>>
          BY <1>17, <2>1, <2>3 DEF PublishBegins, AudioTypes
    <3>2. c \in Chunks /\ c.audio = joined
          BY <2>1 DEF Chunks
    <3>3. Len(joined) >= 2
          BY <2>1, <2>3
    <3> HIDE DEF c, joined, h
    <3>4. TailOK
          BY <1>9, <2>1, <3>1, <3>2, <3>3 DEF h
    <3> QED BY <1>4, <1>5, <1>6, <3>1, <3>4
  <2> QED BY <2>2, <2>3
<1>18. CASE CaptureFrame
  <2> DEFINE h == Head(tail)
             b == SubSeq(h.audio, 1, 2)
             rest == SubSeq(h.audio, 3, Len(h.audio))
  <2>1. tail # <<>> /\ h = tail[1] /\ h \in Chunks /\ h.at = "capturing" /\ 1 \in 1..Len(tail)
        BY <1>1, <1>18 DEF CaptureFrame, AudioTypes
  <2>2. h.audio \in Seq(Nat) /\ Len(h.audio) >= 2
        BY <1>1, <2>1 DEF AudioTypes
  <2>3. b \in Seq(Nat) /\ rest \in Seq(Nat)
        BY <2>2, CutIs
  <2>4. /\ native' = Append(native, b) /\ UNCHANGED <<speech, generation, sent, heard>>
        /\ \/ carry' = rest /\ LeavesTail
           \/ LeavesTail /\ UNCHANGED carry
           \/ /\ tail' = [tail EXCEPT ![1] = [h EXCEPT !.audio = rest]] /\ Len(rest) >= 2
              /\ UNCHANGED <<carry, playouts>>
    <3>1. ~(Len(rest) < 2) => Len(rest) >= 2
          BY <2>3
    <3>2. [tail EXCEPT ![1] = [@ EXCEPT !.audio = rest]] = [tail EXCEPT ![1] = [h EXCEPT !.audio = rest]]
          BY <2>1 DEF AudioTypes
    <3> QED BY <1>18, <3>1, <3>2 DEF CaptureFrame
  <2>5. [h EXCEPT !.audio = rest] \in Chunks /\ [h EXCEPT !.audio = rest].audio = rest
        BY <2>1, <2>3 DEF Chunks
  <2> HIDE DEF b, rest
  <2>6. RestOK
        BY <2>3, <2>4 DEF AudioTypes, RestOK
  <2>7. TailOK /\ AcksOK
        BY <1>5, <1>8, <1>9, <2>1, <2>3, <2>4, <2>5
  <2> QED BY <1>4, <2>4, <2>6, <2>7
<1>19. CASE Plays
  <2>1. native # <<>> /\ Head(native) \in Seq(Nat) /\ Tail(native) \in Seq(Seq(Nat))
        BY <1>19, HeadTailProperties DEF Plays, AudioTypes
  <2>2. \A t \in Replies : heard[t] + Halves(Head(native), t) \in Nat
    <3>1. ASSUME NEW t \in Replies PROVE heard[t] + Halves(Head(native), t) \in Nat
      <4>1. heard[t] \in Nat /\ Halves(Head(native), t) \in Nat
            BY <2>1, HalvesType DEF AudioTypes
      <4> QED BY <4>1
    <3> QED BY <3>1
  <2>3. heard' \in [Replies -> Nat]
        BY <1>19, <2>2 DEF Plays
  <2>4. RestOK
        BY <1>19, <2>1, <2>3 DEF Plays, AudioTypes, RestOK
  <2> QED BY <1>3, <1>4, <1>5, <1>19, <2>4 DEF Plays
<1>20. ASSUME NEW t \in Replies, AwaitPlayout(t) PROVE TailOK /\ SpeechOK /\ AcksOK /\ RestOK
  <2>1. \A outcome \in {"dropped", "playing"} : At(t, outcome) => AcksOK
    <3> SUFFICES ASSUME NEW outcome \in {"dropped", "playing"}, At(t, outcome) PROVE AcksOK
        OBVIOUS
    <3>1. playouts \in [Replies -> Acks] /\ playouts[t] \in Acks
          BY DEF AudioTypes
    <3>2. [playouts[t] EXCEPT !.at = outcome] \in Acks
          BY <3>1 DEF Acks
    <3>3. playouts' = [playouts EXCEPT ![t] = [playouts[t] EXCEPT !.at = outcome]]
          BY <3>1 DEF At
    <3> QED BY <3>1, <3>2, <3>3 DEF AcksOK
  <2>2. AcksOK
        BY <1>20, <2>1 DEF AwaitPlayout
  <2>3. RestOK
    <3>1. carry \o <<Padding>> \in Seq(Nat)
          BY DEF Padding, AudioTypes
    <3>2. Append(native, carry \o <<Padding>>) \in Seq(Seq(Nat))
          BY <3>1 DEF AudioTypes
    <3>3. carry' \in Seq(Nat) /\ native' \in Seq(Seq(Nat))
      <4>1. \/ UNCHANGED <<carry, native>>
            \/ native' = Append(native, carry \o <<Padding>>) /\ carry' = <<>>
            BY <1>20 DEF AwaitPlayout
      <4>2. <<>> \in Seq(Nat)
            OBVIOUS
      <4> QED BY <3>2, <4>1, <4>2 DEF AudioTypes
    <3> QED BY <1>20, <3>3 DEF AwaitPlayout, AudioTypes, RestOK
  <2> QED BY <1>3, <1>4, <1>20, <2>2, <2>3 DEF AwaitPlayout
<1>21. ASSUME NEW t \in Replies, PlayoutEnds(t) PROVE TailOK /\ SpeechOK /\ AcksOK /\ RestOK
  <2>1. \A outcome \in {"dropped", "complete"} : At(t, outcome) => AcksOK
    <3> SUFFICES ASSUME NEW outcome \in {"dropped", "complete"}, At(t, outcome) PROVE AcksOK
        OBVIOUS
    <3>1. playouts \in [Replies -> Acks] /\ playouts[t] \in Acks
          BY DEF AudioTypes
    <3>2. [playouts[t] EXCEPT !.at = outcome] \in Acks
          BY <3>1 DEF Acks
    <3>3. playouts' = [playouts EXCEPT ![t] = [playouts[t] EXCEPT !.at = outcome]]
          BY <3>1 DEF At
    <3> QED BY <3>1, <3>2, <3>3 DEF AcksOK
  <2>2. AcksOK
        BY <1>21, <2>1 DEF PlayoutEnds
  <2>3. SpeechOK
        BY <1>2, <1>4, <1>7, <1>21 DEF PlayoutEnds, SpeechOK
  <2> QED BY <1>3, <1>6, <1>21, <2>2, <2>3 DEF PlayoutEnds
<1> QED BY <1>11, <1>12, <1>13, <1>14, <1>15, <1>16, <1>17, <1>18, <1>19, <1>20, <1>21 DEF AudioNext

\* A chain whose first chunk has gone.
LEMMA TailFlows ==
  ASSUME NEW s \in Seq(Chunks), s # <<>>, NEW t, NEW g,
         \A i \in 1..Len(s) : s[i].at = "capturing" => i = 1
  PROVE  LET u == Tail(s) IN
         /\ ~Capturing(u)
         /\ (\A i \in 1..Len(s) : Halves(s[i].audio, t) = 0) => \A i \in 1..Len(u) : Halves(u[i].audio, t) = 0
         /\ Fresh(t, s, g) => Fresh(t, u, g)
         /\ \A m : CountIs(Audios(s), t, m) =>
               m \in Int /\ CountIs(Audios(u), t, m - Halves(s[1].audio, t))
<1> DEFINE u == Tail(s)
<1>1. Len(s) \in Nat /\ Len(u) = Len(s) - 1 /\ \A i \in 1..Len(u) : u[i] = s[i + 1]
      BY HeadTailProperties
<1>2. \A i \in 1..Len(u) : i + 1 \in 1..Len(s) /\ i + 1 # 1
      BY <1>1
<1>3. ~Capturing(u)
  <2>1. u # <<>> => 1 \in 1..Len(u)
        BY <1>1, HeadTailProperties
  <2> HIDE DEF u
  <2> QED BY <1>1, <1>2, <2>1 DEF Capturing
<1>4. ASSUME NEW m, CountIs(Audios(s), t, m)
      PROVE m \in Int /\ CountIs(Audios(u), t, m - Halves(s[1].audio, t))
  <2>1. /\ Audios(s) \in Seq(Seq(Nat)) /\ Len(Audios(s)) = Len(s) /\ Audios(s)[1] = s[1].audio
        /\ Audios(u) = Tail(Audios(s))
    <3>1. 1 \in 1..Len(s)
          BY <1>1
    <3> QED BY <3>1, AudiosAre
  <2>2. Audios(s) # <<>>
        BY <1>1, <2>1
  <2> HIDE DEF u
  <2> QED BY <1>4, <2>1, <2>2, HoldsLess
<1> HIDE DEF u
<1>5. (\A i \in 1..Len(s) : Halves(s[i].audio, t) = 0) => \A i \in 1..Len(u) : Halves(u[i].audio, t) = 0
      BY <1>1, <1>2
<1>6. Fresh(t, s, g) => Fresh(t, u, g)
      BY <1>1, <1>2 DEF Fresh
<1> QED BY <1>3, <1>4, <1>5, <1>6 DEF u

\* A chain whose first chunk has other audio.
LEMMA FirstFlows ==
  ASSUME NEW s \in Seq(Chunks), s # <<>>, NEW t, NEW g, NEW c \in Chunks, c.generation = s[1].generation
  PROVE  LET u == [s EXCEPT ![1] = c] IN
         /\ u # <<>> /\ u[1] = c
         /\ Halves(c.audio, t) = 0 /\ (\A i \in 1..Len(s) : Halves(s[i].audio, t) = 0)
               => \A i \in 1..Len(u) : Halves(u[i].audio, t) = 0
         /\ Fresh(t, s, g) /\ (c.generation # g => Halves(c.audio, t) = 0) => Fresh(t, u, g)
         /\ \A m : CountIs(Audios(s), t, m) =>
               m \in Int /\ CountIs(Audios(u), t, m - Halves(s[1].audio, t) + Halves(c.audio, t))
<1> DEFINE u == [s EXCEPT ![1] = c]
<1>1. Len(s) \in Nat /\ Len(s) >= 1 /\ Len(u) = Len(s) /\ \A i \in 1..Len(s) : u[i] = IF i = 1 THEN c ELSE s[i]
      OBVIOUS
<1>2. u # <<>> /\ u[1] = c
      BY <1>1
<1>3. ASSUME NEW m, CountIs(Audios(s), t, m)
      PROVE m \in Int /\ CountIs(Audios(u), t, m - Halves(s[1].audio, t) + Halves(c.audio, t))
  <2>1. /\ Audios(s) \in Seq(Seq(Nat)) /\ Len(Audios(s)) = Len(s) /\ Audios(s)[1] = s[1].audio
        /\ Audios(u) = [Audios(s) EXCEPT ![1] = c.audio]
    <3>1. 1 \in 1..Len(s)
          BY <1>1
    <3> QED BY <3>1, AudiosAre
  <2>2. Audios(s) # <<>> /\ c.audio \in Seq(Nat)
        BY <1>1, <2>1 DEF Chunks
  <2>3. m \in Int
        BY <1>3, <2>1, <2>2, HoldsLess
  <2> DEFINE p == Audios(s)
             b == c.audio
  <2>4. p \in Seq(Seq(Nat)) /\ p # <<>> /\ CountIs(p, t, m) /\ b \in Seq(Nat)
        BY <1>3, <2>1, <2>2
  <2> HIDE DEF p, b
  <2>5. CountIs([p EXCEPT ![1] = b], t, m - Halves(p[1], t) + Halves(b, t))
        BY <2>4, HoldsOther
  <2> QED BY <2>1, <2>3, <2>5 DEF p, b
<1> HIDE DEF u
<1>4. Halves(c.audio, t) = 0 /\ (\A i \in 1..Len(s) : Halves(s[i].audio, t) = 0)
         => \A i \in 1..Len(u) : Halves(u[i].audio, t) = 0
      BY <1>1
<1>5. Fresh(t, s, g) /\ (c.generation # g => Halves(c.audio, t) = 0) => Fresh(t, u, g)
      BY <1>1 DEF Fresh
<1> QED BY <1>2, <1>3, <1>4, <1>5 DEF u

\* The source's queue, one frame longer and one shorter.
LEMMA SourceFlows ==
  ASSUME NEW s \in Seq(Seq(Nat)), NEW t
  PROVE  /\ \A a \in Seq(Nat) :
               /\ (\A i \in 1..Len(s) : Halves(s[i], t) = 0) /\ Halves(a, t) = 0
                     => \A i \in 1..Len(Append(s, a)) : Halves(Append(s, a)[i], t) = 0
               /\ \A k : CountIs(s, t, k) => k \in Int /\ CountIs(Append(s, a), t, k + Halves(a, t))
         /\ s # <<>> =>
               /\ (\A i \in 1..Len(s) : Halves(s[i], t) = 0) => \A i \in 1..Len(Tail(s)) : Halves(Tail(s)[i], t) = 0
               /\ \A k : CountIs(s, t, k) => k \in Int /\ CountIs(Tail(s), t, k - Halves(s[1], t))
<1>1. ASSUME NEW a \in Seq(Nat), \A i \in 1..Len(s) : Halves(s[i], t) = 0, Halves(a, t) = 0
      PROVE \A i \in 1..Len(Append(s, a)) : Halves(Append(s, a)[i], t) = 0
  <2> DEFINE u == Append(s, a)
  <2>1. Len(s) \in Nat /\ Len(u) = Len(s) + 1 /\ u[Len(s) + 1] = a /\ \A i \in 1..Len(s) : u[i] = s[i]
        OBVIOUS
  <2> HIDE DEF u
  <2>2. \A i \in 1..Len(u) : i \in 1..Len(s) \/ i = Len(s) + 1
        BY <2>1
  <2>3. \A i \in 1..Len(u) : Halves(u[i], t) = 0
        BY <1>1, <2>1, <2>2
  <2> QED BY <2>3 DEF u
<1>2. ASSUME s # <<>>, \A i \in 1..Len(s) : Halves(s[i], t) = 0
      PROVE \A i \in 1..Len(Tail(s)) : Halves(Tail(s)[i], t) = 0
  <2> DEFINE u == Tail(s)
  <2>1. Len(s) \in Nat /\ Len(u) = Len(s) - 1 /\ \A i \in 1..Len(u) : u[i] = s[i + 1]
        BY <1>2, HeadTailProperties
  <2> HIDE DEF u
  <2>2. \A i \in 1..Len(u) : i + 1 \in 1..Len(s)
        BY <2>1
  <2>3. \A i \in 1..Len(u) : Halves(u[i], t) = 0
        BY <1>2, <2>1, <2>2
  <2> QED BY <2>3 DEF u
<1> QED BY <1>1, <1>2, HoldsMore, HoldsLess

\* What becomes of the audio of a turn in a step that sends none of it.
Flows(t) ==
    /\ Absent(t, tail, carry, native) => Absent(t, tail', carry', native')
    /\ Fresh(t, tail, generation) => Fresh(t, tail', generation)
    /\ Fresh(t, tail, generation) /\ Accounted(t, tail, carry, native, sent[t], heard[t]) =>
          Accounted(t, tail', carry', native', sent[t], heard'[t])

\* Audio moves on by the chunk, by the frame and by what is left over, and none is lost of a
\* turn whose chunks are not passed over.
LEMMA AudioFlows ==
  ASSUME AudioTypes, NEW t \in Replies,
         \/ SkipStale \/ PublishBegins \/ CaptureFrame \/ Plays \/ \E r \in Replies : AwaitPlayout(r)
  PROVE  Flows(t)
<1> DEFINE h == tail[1]
           g == generation
           H(a) == Halves(a, t)
           Part(s, car) == IF Capturing(s) THEN 0 ELSE H(car)
<1>1. /\ tail \in Seq(Chunks) /\ native \in Seq(Seq(Nat)) /\ carry \in Seq(Nat) /\ generation \in Nat
      /\ sent[t] \in Nat /\ heard[t] \in Nat /\ H(carry) \in Nat
      BY HalvesType DEF AudioTypes
<1>2. ASSUME NEW m \in Int, NEW k \in Int, CountIs(Audios(tail'), t, m), CountIs(native', t, k),
             heard'[t] + k + m + Part(tail', carry') >= sent[t]
      PROVE  Accounted(t, tail', carry', native', sent[t], heard'[t])
      BY <1>2 DEF Accounted
<1>3. ASSUME Accounted(t, tail, carry, native, sent[t], heard[t])
      PROVE \E m, k \in Int : /\ CountIs(Audios(tail), t, m) /\ CountIs(native, t, k)
                              /\ heard[t] + k + m + Part(tail, carry) >= sent[t]
      BY <1>3 DEF Accounted
<1>4. ASSUME tail # <<>>
      PROVE  /\ h \in Chunks /\ h = Head(tail) /\ h.audio \in Seq(Nat) /\ H(h.audio) \in Nat
             /\ (h.at = "capturing" => Len(h.audio) >= 2)
             /\ (h.at = "queued" => ~Capturing(tail)) /\ (h.at = "capturing" => Capturing(tail))
             /\ ((\A i \in 1..Len(tail) : H(tail[i].audio) = 0) => H(h.audio) = 0)
             /\ (Fresh(t, tail, g) /\ h.generation # g => H(h.audio) = 0)
  <2>1. 1 \in 1..Len(tail) /\ h \in Chunks /\ h = Head(tail)
        BY <1>1, <1>4
  <2>2. h.audio \in Seq(Nat)
        BY <2>1 DEF Chunks
  <2>3. H(h.audio) \in Nat
        BY <2>2, HalvesType
  <2>4. h.at = "capturing" => Len(h.audio) >= 2
        BY <2>1 DEF AudioTypes
  <2>5. (h.at = "queued" => ~Capturing(tail)) /\ (h.at = "capturing" => Capturing(tail))
        BY <1>4 DEF Capturing
  <2>6. Fresh(t, tail, g) /\ h.generation # g => H(h.audio) = 0
        BY <2>1 DEF Fresh
  <2> QED BY <2>1, <2>2, <2>3, <2>4, <2>5, <2>6
<1>5. ASSUME tail # <<>>
      PROVE  LET u == Tail(tail) IN
             /\ ~Capturing(u)
             /\ (\A i \in 1..Len(tail) : H(tail[i].audio) = 0) => \A i \in 1..Len(u) : H(u[i].audio) = 0
             /\ Fresh(t, tail, g) => Fresh(t, u, g)
             /\ \A m : CountIs(Audios(tail), t, m) => m \in Int /\ CountIs(Audios(u), t, m - H(h.audio))
  <2>1. \A i \in 1..Len(tail) : tail[i].at = "capturing" => i = 1
        BY DEF AudioTypes
  <2> QED BY <1>1, <1>5, <2>1, TailFlows
<1>6. ASSUME tail # <<>>, NEW c \in Chunks, c.generation = h.generation
      PROVE  LET u == [tail EXCEPT ![1] = c] IN
             /\ u # <<>> /\ u[1] = c
             /\ H(c.audio) = 0 /\ (\A i \in 1..Len(tail) : H(tail[i].audio) = 0)
                   => \A i \in 1..Len(u) : H(u[i].audio) = 0
             /\ Fresh(t, tail, g) /\ (c.generation # g => H(c.audio) = 0) => Fresh(t, u, g)
             /\ \A m : CountIs(Audios(tail), t, m) =>
                   m \in Int /\ CountIs(Audios(u), t, m - H(h.audio) + H(c.audio))
      BY <1>1, <1>6, FirstFlows
<1>7. CASE SkipStale
  <2>1. /\ tail # <<>> /\ h.at = "queued" /\ h.generation # g
        /\ tail' = Tail(tail) /\ UNCHANGED <<carry, native, sent, heard>>
        BY <1>4, <1>7 DEF SkipStale, LeavesTail
  <2>2. Absent(t, tail, carry, native) => Absent(t, tail', carry', native')
        BY <1>5, <2>1 DEF Absent
  <2>3. Fresh(t, tail, g) => Fresh(t, tail', g)
        BY <1>5, <2>1
  <2>4. ASSUME Fresh(t, tail, g), Accounted(t, tail, carry, native, sent[t], heard[t])
        PROVE Accounted(t, tail', carry', native', sent[t], heard'[t])
    <3>1. PICK m, k \in Int : /\ CountIs(Audios(tail), t, m) /\ CountIs(native, t, k)
                              /\ heard[t] + k + m + Part(tail, carry) >= sent[t]
          BY <1>3, <2>4
    <3>2. H(h.audio) = 0 /\ Part(tail, carry) = H(carry) /\ Part(tail', carry') = H(carry)
          BY <1>4, <1>5, <2>1, <2>4
    <3>3. CountIs(Audios(tail'), t, m)
      <4>1. CountIs(Audios(tail'), t, m - H(h.audio)) /\ m - H(h.audio) = m
            BY <1>5, <2>1, <3>1, <3>2
      <4> QED BY <4>1
    <3>4. heard'[t] + k + m + Part(tail', carry') >= sent[t] /\ CountIs(native', t, k)
          BY <2>1, <3>1, <3>2
    <3> QED BY <1>2, <3>3, <3>4
  <2> QED BY <2>2, <2>3, <2>4 DEF Flows
<1>8. CASE PublishBegins
  <2> DEFINE joined == carry \o h.audio
             c == [h EXCEPT !.audio = joined, !.at = "capturing"]
  <2>1. /\ tail # <<>> /\ h.at = "queued" /\ h.generation = g /\ UNCHANGED <<native, sent, heard>>
        /\ \/ carry' = joined /\ tail' = Tail(tail)
           \/ tail' = [tail EXCEPT ![1] = c] /\ UNCHANGED carry
    <3>1. tail # <<>> /\ [tail EXCEPT ![1] = [@ EXCEPT !.audio = joined, !.at = "capturing"]] = [tail EXCEPT ![1] = c]
          BY <1>1, <1>8 DEF PublishBegins
    <3> QED BY <1>4, <1>8, <3>1 DEF PublishBegins, LeavesTail
  <2>2. joined \in Seq(Nat) /\ H(joined) = H(carry) + H(h.audio) /\ H(joined) \in Nat
    <3>1. joined \in Seq(Nat) /\ H(joined) = H(carry) + H(h.audio)
          BY <1>1, <1>4, <2>1, JoinedHalves
    <3> QED BY <3>1, HalvesType
  <2>3. c \in Chunks /\ c.audio = joined /\ c.at = "capturing" /\ c.generation = g
        BY <1>4, <2>1, <2>2 DEF Chunks
  <2>4. H(carry) \in Nat /\ H(h.audio) \in Nat /\ Part(tail, carry) = H(carry)
        BY <1>1, <1>4, <2>1
  <2> HIDE DEF joined, c
  <2>5. Absent(t, tail, carry, native) => H(h.audio) = 0 /\ H(joined) = 0
        BY <1>4, <2>1, <2>2, <2>4 DEF Absent
  <2>6. CASE carry' = joined /\ tail' = Tail(tail)
    <3>1. Absent(t, tail, carry, native) => Absent(t, tail', carry', native')
          BY <1>5, <2>1, <2>5, <2>6 DEF Absent
    <3>2. Fresh(t, tail, g) => Fresh(t, tail', g)
          BY <1>5, <2>1, <2>6
    <3>3. ASSUME Accounted(t, tail, carry, native, sent[t], heard[t])
          PROVE Accounted(t, tail', carry', native', sent[t], heard'[t])
      <4>1. PICK m, k \in Int : /\ CountIs(Audios(tail), t, m) /\ CountIs(native, t, k)
                                /\ heard[t] + k + m + Part(tail, carry) >= sent[t]
            BY <1>3, <3>3
      <4>2. CountIs(Audios(tail'), t, m - H(h.audio)) /\ m - H(h.audio) \in Int /\ CountIs(native', t, k)
            BY <1>5, <2>1, <2>4, <2>6, <4>1
      <4>3. Part(tail', carry') = H(carry) + H(h.audio)
            BY <1>5, <2>1, <2>2, <2>6
      <4>4. heard'[t] + k + (m - H(h.audio)) + Part(tail', carry') >= sent[t]
            BY <1>1, <2>1, <2>4, <4>1, <4>3
      <4> QED BY <1>2, <4>2, <4>4
    <3> QED BY <2>1, <3>1, <3>2, <3>3, <1>8 DEF Flows, PublishBegins
  <2>7. CASE tail' = [tail EXCEPT ![1] = c] /\ UNCHANGED carry
    <3>1. Absent(t, tail, carry, native) => Absent(t, tail', carry', native')
          BY <1>6, <2>1, <2>3, <2>5, <2>7 DEF Absent
    <3>2. Fresh(t, tail, g) => Fresh(t, tail', g)
          BY <1>6, <2>1, <2>3, <2>7
    <3>3. ASSUME Accounted(t, tail, carry, native, sent[t], heard[t])
          PROVE Accounted(t, tail', carry', native', sent[t], heard'[t])
      <4>1. PICK m, k \in Int : /\ CountIs(Audios(tail), t, m) /\ CountIs(native, t, k)
                                /\ heard[t] + k + m + Part(tail, carry) >= sent[t]
            BY <1>3, <3>3
      <4> DEFINE n == m - H(h.audio) + H(joined)
      <4>2. CountIs(Audios(tail'), t, n) /\ CountIs(native', t, k)
            BY <1>6, <2>1, <2>3, <2>7, <4>1
      <4>3. Capturing(tail')
            BY <1>6, <2>1, <2>3, <2>7 DEF Capturing
      <4>4. n \in Int /\ heard'[t] + k + n + Part(tail', carry') >= sent[t]
        <5>1. n = m + H(carry) /\ m + H(carry) \in Int
              BY <1>1, <2>2, <2>4
        <5>2. heard[t] + k + m + H(carry) >= sent[t] /\ heard'[t] = heard[t] /\ Part(tail', carry') = 0
              BY <2>1, <2>4, <4>1, <4>3
        <5> HIDE DEF n
        <5> QED BY <1>1, <5>1, <5>2
      <4> QED BY <1>2, <4>2, <4>4
    <3> QED BY <2>1, <3>1, <3>2, <3>3, <1>8 DEF Flows, PublishBegins
  <2> QED BY <2>1, <2>6, <2>7
<1>9. CASE CaptureFrame
  <2> DEFINE b == SubSeq(h.audio, 1, 2)
             rest == SubSeq(h.audio, 3, Len(h.audio))
             c == [h EXCEPT !.audio = rest]
  <2>1. /\ tail # <<>> /\ h.at = "capturing" /\ UNCHANGED <<sent, heard, generation>> /\ native' = Append(native, b)
        /\ \/ carry' = rest /\ tail' = Tail(tail)
           \/ h.generation # g /\ tail' = Tail(tail) /\ UNCHANGED carry
           \/ tail' = [tail EXCEPT ![1] = c] /\ UNCHANGED carry
    <3>1. tail # <<>> /\ [tail EXCEPT ![1] = [@ EXCEPT !.audio = rest]] = [tail EXCEPT ![1] = c]
          BY <1>1, <1>9 DEF CaptureFrame
    <3> QED BY <1>4, <1>9, <3>1 DEF CaptureFrame, LeavesTail
  <2>2. /\ b \in Seq(Nat) /\ rest \in Seq(Nat) /\ H(b) \in Nat /\ H(rest) \in Nat /\ H(h.audio) \in Nat
        /\ H(h.audio) = H(b) + H(rest)
        BY <1>4, <2>1, CutIs
  <2>3. c \in Chunks /\ c.audio = rest /\ c.at = "capturing" /\ c.generation = h.generation
        BY <1>4, <2>1, <2>2 DEF Chunks
  <2> HIDE DEF b, rest, c
  <2>4. H(h.audio) = 0 => H(b) = 0 /\ H(rest) = 0
        BY <2>2
  <2>5. Part(tail, carry) = 0
        BY <1>4, <2>1
  <2>6. Absent(t, tail, carry, native) => Absent(t, tail', carry', native')
    <3> SUFFICES ASSUME Absent(t, tail, carry, native) PROVE Absent(t, tail', carry', native')
        OBVIOUS
    <3>1. H(b) = 0 /\ H(rest) = 0
          BY <1>4, <2>1, <2>4 DEF Absent
    <3>2. H(carry') = 0
          BY <2>1, <3>1 DEF Absent
    <3>3. \A i \in 1..Len(native') : H(native'[i]) = 0
          BY <1>1, <2>1, <2>2, <3>1, SourceFlows DEF Absent
    <3>4. \A i \in 1..Len(tail') : H(tail'[i].audio) = 0
          BY <1>5, <1>6, <2>1, <2>3, <3>1 DEF Absent
    <3> QED BY <3>2, <3>3, <3>4 DEF Absent
  <2>7. Fresh(t, tail, g) => Fresh(t, tail', g)
        BY <1>4, <1>5, <1>6, <2>1, <2>3, <2>4
  <2>8. ASSUME Fresh(t, tail, g), Accounted(t, tail, carry, native, sent[t], heard[t])
        PROVE Accounted(t, tail', carry', native', sent[t], heard'[t])
    <3>1. PICK m, k \in Int : /\ CountIs(Audios(tail), t, m) /\ CountIs(native, t, k)
                              /\ heard[t] + k + m + Part(tail, carry) >= sent[t]
          BY <1>3, <2>8
    <3> DEFINE q == k + H(b)
               x == m - H(h.audio)
               n == m - H(h.audio) + H(rest)
    <3>2. CountIs(native', t, q) /\ q \in Int
      <4>1. k \in Int /\ CountIs(Append(native, b), t, k + H(b))
            BY <1>1, <2>2, <3>1, HoldsMore
      <4> QED BY <2>1, <2>2, <4>1
    <3>3. x \in Int /\ n \in Int
          BY <2>2
    <3>4. CASE tail' = Tail(tail)
      <4>1. CountIs(Audios(tail'), t, x) /\ ~Capturing(tail')
            BY <1>5, <2>1, <3>1, <3>4
      <4>2. Part(tail', carry') \in Nat /\ Part(tail', carry') = H(carry') /\ H(carry') \in Nat
        <5>1. carry' \in Seq(Nat)
              BY <1>1, <1>9, <2>1, <2>2
        <5> QED BY <4>1, <5>1, HalvesType
      <4>3. heard'[t] + q + x + Part(tail', carry') >= sent[t]
        <5>1. CASE carry' = rest
          <6>1. heard'[t] = heard[t] /\ Part(tail', carry') = H(rest)
                BY <2>1, <4>2, <5>1
          <6>2. q = k + H(b) /\ x = m - H(h.audio) /\ heard[t] + k + m >= sent[t]
                BY <1>1, <2>5, <3>1
          <6>3. /\ H(b) \in Nat /\ H(rest) \in Nat /\ H(h.audio) = H(b) + H(rest)
                /\ heard[t] \in Nat /\ sent[t] \in Nat
                BY <1>1, <2>2
          <6>4. q + x + H(rest) = k + m
                BY <6>2, <6>3
          <6> HIDE DEF q, x
          <6> QED BY <3>2, <3>3, <6>1, <6>2, <6>3, <6>4
        <5>2. CASE h.generation # g
          <6>1. H(h.audio) = 0 /\ H(b) = 0
                BY <1>4, <2>1, <2>4, <2>8, <5>2
          <6>2. heard'[t] = heard[t] /\ q = k /\ x = m /\ heard[t] + k + m >= sent[t]
                BY <1>1, <2>1, <2>5, <3>1, <6>1
          <6> HIDE DEF q, x
          <6> QED BY <1>1, <4>2, <6>2
        <5>3. CASE tail' = [tail EXCEPT ![1] = c]
          <6>1. Capturing(tail')
                BY <1>6, <2>1, <2>3, <5>3 DEF Capturing
          <6> QED BY <4>1, <6>1
        <5> QED BY <2>1, <5>1, <5>2, <5>3
      <4> QED BY <1>2, <3>2, <3>3, <4>1, <4>3
    <3>5. CASE tail' = [tail EXCEPT ![1] = c]
      <4>1. CountIs(Audios(tail'), t, n)
            BY <1>6, <2>1, <2>3, <3>1, <3>5
      <4>2. Capturing(tail')
            BY <1>6, <2>1, <2>3, <3>5 DEF Capturing
      <4>3. heard'[t] + q + n + Part(tail', carry') >= sent[t]
        <5>1. heard'[t] = heard[t] /\ Part(tail', carry') = 0 /\ heard[t] + k + m >= sent[t]
              BY <1>1, <2>1, <2>5, <3>1, <4>2
        <5>2. q + n = k + m
              BY <2>2
        <5>3. heard[t] \in Nat /\ sent[t] \in Nat
              BY <1>1
        <5> HIDE DEF q, n
        <5> QED BY <3>2, <3>3, <5>1, <5>2, <5>3
      <4> QED BY <1>2, <3>2, <3>3, <4>1, <4>3
    <3> QED BY <2>1, <3>4, <3>5
  <2> QED BY <2>1, <2>6, <2>7, <2>8 DEF Flows
<1>10. CASE Plays
  <2>1. native # <<>> /\ native' = Tail(native) /\ Head(native) = native[1] /\ native[1] \in Seq(Nat)
        /\ UNCHANGED <<tail, carry, sent, generation>> /\ heard'[t] = heard[t] + H(native[1])
        BY <1>1, <1>10 DEF Plays
  <2>2. H(native[1]) \in Nat
        BY <2>1, HalvesType
  <2>3. Absent(t, tail, carry, native) => Absent(t, tail', carry', native')
        BY <1>1, <2>1, SourceFlows DEF Absent
  <2>4. ASSUME Accounted(t, tail, carry, native, sent[t], heard[t])
        PROVE Accounted(t, tail', carry', native', sent[t], heard'[t])
    <3>1. PICK m, k \in Int : /\ CountIs(Audios(tail), t, m) /\ CountIs(native, t, k)
                              /\ heard[t] + k + m + Part(tail, carry) >= sent[t]
          BY <1>3, <2>4
    <3> DEFINE q == k - H(native[1])
    <3>2. CountIs(native', t, q) /\ q \in Int
      <4>1. k \in Int /\ CountIs(Tail(native), t, k - H(native[1]))
            BY <1>1, <2>1, <3>1, HoldsLess
      <4> QED BY <2>1, <2>2, <4>1
    <3>3. Part(tail', carry') = Part(tail, carry) /\ Part(tail, carry) \in Nat
          BY <1>1, <2>1
    <3>4. heard'[t] + q + m + Part(tail', carry') >= sent[t] /\ CountIs(Audios(tail'), t, m)
      <4>1. heard'[t] = heard[t] + H(native[1]) /\ tail' = tail
            BY <2>1
      <4>2. heard[t] + k + m + Part(tail, carry) >= sent[t] /\ q + H(native[1]) = k
            BY <2>2, <3>1
      <4> HIDE DEF q, Part
      <4> QED BY <1>1, <2>2, <3>1, <3>2, <3>3, <4>1, <4>2
    <3> QED BY <1>2, <3>2, <3>4
  <2> QED BY <2>1, <2>3, <2>4 DEF Flows
<1>11. ASSUME NEW r \in Replies, AwaitPlayout(r) PROVE Flows(t)
  <2> DEFINE b == carry \o <<Padding>>
  <2>1. /\ UNCHANGED <<tail, generation, sent, heard>>
        /\ \/ UNCHANGED <<carry, native>>
           \/ native' = Append(native, b) /\ carry' = <<>>
        BY <1>11 DEF AwaitPlayout
  <2>2. b \in Seq(Nat) /\ H(b) = H(carry) /\ H(b) \in Nat
    <3>1. <<Padding>> \in Seq(Nat) /\ H(<<Padding>>) = 0
      <4>1. <<Padding>> \in Seq(Nat) /\ \A i \in DOMAIN <<Padding>> : <<Padding>>[i] # t
            BY DEF Padding, Replies
      <4> QED BY <4>1, HalvesAre
    <3>2. b \in Seq(Nat) /\ H(b) = H(carry) + H(<<Padding>>)
          BY <1>1, <3>1, JoinedHalves
    <3> QED BY <1>1, <3>1, <3>2
  <2>3. H(<<>>) = 0
    <3>1. <<>> \in Seq(Nat) /\ \A i \in DOMAIN <<>> : <<>>[i] # t
          OBVIOUS
    <3> QED BY <3>1, HalvesAre
  <2> HIDE DEF b
  <2>4. CASE UNCHANGED <<carry, native>>
        BY <2>1, <2>4 DEF Flows
  <2>5. CASE native' = Append(native, b) /\ carry' = <<>>
    <3>1. Absent(t, tail, carry, native) => Absent(t, tail', carry', native')
          BY <1>1, <2>1, <2>2, <2>3, <2>5, SourceFlows DEF Absent
    <3>2. ASSUME Accounted(t, tail, carry, native, sent[t], heard[t])
          PROVE Accounted(t, tail', carry', native', sent[t], heard'[t])
      <4>1. PICK m, k \in Int : /\ CountIs(Audios(tail), t, m) /\ CountIs(native, t, k)
                                /\ heard[t] + k + m + Part(tail, carry) >= sent[t]
            BY <1>3, <3>2
      <4> DEFINE q == k + H(b)
      <4>2. CountIs(native', t, q) /\ q \in Int
        <5>1. k \in Int /\ CountIs(Append(native, b), t, k + H(b))
              BY <1>1, <2>2, <4>1, HoldsMore
        <5> QED BY <2>2, <2>5, <5>1
      <4>3. Part(tail, carry) <= H(carry) /\ Part(tail, carry) \in Nat /\ Part(tail', carry') = 0
            BY <1>1, <2>1, <2>3, <2>5
      <4>4. heard'[t] + q + m + Part(tail', carry') >= sent[t] /\ CountIs(Audios(tail'), t, m)
        <5>1. heard'[t] = heard[t] /\ tail' = tail
              BY <2>1
        <5>2. heard[t] + k + m + Part(tail, carry) >= sent[t] /\ q = k + H(carry)
              BY <2>2, <4>1
        <5>3. heard[t] \in Nat /\ sent[t] \in Nat /\ H(carry) \in Nat
              BY <1>1
        <5> HIDE DEF q, Part
        <5>4. heard'[t] + q + m + Part(tail', carry') >= sent[t]
              BY <4>2, <4>3, <5>1, <5>2, <5>3
        <5> QED BY <4>1, <5>1, <5>4
      <4> QED BY <1>2, <4>2, <4>4
    <3> QED BY <2>1, <3>1, <3>2 DEF Flows
  <2> QED BY <2>1, <2>4, <2>5
<1> QED BY <1>7, <1>8, <1>9, <1>10, <1>11

\* What has just been sent is the new turn's and in the chain.
LEMMA SendingIs ==
  ASSUME AudioTypes, SendAudio, NEW t \in Replies
  PROVE  /\ Len(tail') = Len(tail) + 1
         /\ t # speech.id => Flows(t) /\ sent'[t] = sent[t]
         /\ t = speech.id /\ Fresh(t, tail, generation)
               /\ Accounted(t, tail, carry, native, sent[t], heard[t])
            => Fresh(t, tail', generation) /\ Accounted(t, tail', carry', native', sent'[t], heard'[t])
<1> DEFINE H(a) == Halves(a, t)
<1>1. PICK n \in 1..3 :
         /\ tail' = Append(tail, [audio |-> Of(speech.id, n), size |-> n,
                                  generation |-> generation, at |-> "queued"])
         /\ sent' = [sent EXCEPT ![speech.id] = @ + n]
      BY DEF SendAudio
<1> DEFINE c == [audio |-> Of(speech.id, n), size |-> n, generation |-> generation, at |-> "queued"]
<1>2. /\ tail \in Seq(Chunks) /\ native \in Seq(Seq(Nat)) /\ carry \in Seq(Nat) /\ generation \in Nat
      /\ speech.id \in Replies /\ speech.id \in Nat /\ n \in Nat
      /\ sent \in [Replies -> Nat] /\ heard[t] \in Nat /\ sent[t] \in Nat
      /\ UNCHANGED <<carry, native, heard, generation>>
  <2>1. UNCHANGED <<carry, native, heard, generation>>
        BY DEF SendAudio
  <2>2. /\ tail \in Seq(Chunks) /\ native \in Seq(Seq(Nat)) /\ carry \in Seq(Nat) /\ generation \in Nat
        /\ sent \in [Replies -> Nat] /\ heard \in [Replies -> Nat]
        BY DEF AudioTypes
  <2>3. speech.id \in Nat /\ speech.id <= MaxReplyTurns /\ speech.id >= 1
        BY DEF AudioTypes, SendAudio
  <2>4. speech.id \in Replies
        BY <2>3, AudioAssumption DEF Replies
  <2> QED BY <2>1, <2>2, <2>3, <2>4
<1>3. c \in Chunks /\ c.generation = generation /\ c.at = "queued" /\ c.audio \in Seq(Nat)
      /\ Len(c.audio) = n /\ \A i \in DOMAIN c.audio : c.audio[i] = speech.id
  <2>1. Of(speech.id, n) \in Seq(Nat) /\ Len(Of(speech.id, n)) = n
        /\ \A i \in DOMAIN Of(speech.id, n) : Of(speech.id, n)[i] = speech.id
        BY <1>2 DEF Of
  <2> QED BY <1>2, <2>1 DEF Chunks
<1>4. H(c.audio) = IF t = speech.id THEN n ELSE 0
      BY <1>3, HalvesAre
<1> HIDE DEF c
<1>5. tail' = Append(tail, c)
      BY <1>1 DEF c
<1>6. Len(tail) \in Nat /\ Len(tail') = Len(tail) + 1 /\ tail'[Len(tail) + 1] = c
      /\ \A i \in 1..Len(tail) : tail'[i] = tail[i]
      BY <1>2, <1>3, <1>5
<1>7. \A i \in 1..Len(tail') : i \in 1..Len(tail) \/ i = Len(tail) + 1
      BY <1>6
<1>8. Fresh(t, tail, generation) => Fresh(t, tail', generation)
      BY <1>3, <1>6, <1>7 DEF Fresh
<1>9. Capturing(tail') <=> Capturing(tail)
  <2>1. CASE tail = <<>>
        BY <1>3, <1>6, <2>1 DEF Capturing
  <2>2. CASE tail # <<>>
    <3>1. 1 \in 1..Len(tail) /\ tail' # <<>>
          BY <1>2, <1>6, <2>2
    <3> QED BY <1>6, <2>2, <3>1 DEF Capturing
  <2> QED BY <2>1, <2>2
<1>10. H(carry) \in Nat
       BY <1>2, HalvesType
<1>11. ASSUME Accounted(t, tail, carry, native, sent[t], heard[t])
       PROVE  Accounted(t, tail', carry', native', sent[t] + H(c.audio), heard'[t])
  <2>1. PICK m, k \in Int :
           /\ CountIs(Audios(tail), t, m) /\ CountIs(native, t, k)
           /\ heard[t] + k + m + (IF Capturing(tail) THEN 0 ELSE H(carry)) >= sent[t]
        BY <1>11 DEF Accounted
  <2>2. Audios(tail') = Append(Audios(tail), c.audio) /\ Audios(tail) \in Seq(Seq(Nat))
        BY <1>2, <1>3, <1>5, AudiosAre
  <2>3. CountIs(Audios(tail'), t, m + H(c.audio))
        BY <1>3, <2>1, <2>2, HoldsMore
  <2>4. H(c.audio) \in Nat
        BY <1>2, <1>4
  <2>5. heard'[t] + k + (m + H(c.audio)) + (IF Capturing(tail') THEN 0 ELSE H(carry')) >= sent[t] + H(c.audio)
    <3> DEFINE x == IF Capturing(tail) THEN 0 ELSE H(carry)
               y == IF Capturing(tail') THEN 0 ELSE H(carry')
    <3>1. y = x /\ x \in Nat /\ heard'[t] = heard[t] /\ heard[t] + k + m + x >= sent[t]
          BY <1>2, <1>9, <1>10, <2>1
    <3> HIDE DEF x
    <3>2. heard'[t] + k + (m + H(c.audio)) + y >= sent[t] + H(c.audio)
      <4>1. heard[t] \in Nat /\ sent[t] \in Nat
            BY <1>2
      <4> HIDE DEF y
      <4> QED BY <2>4, <3>1, <4>1
    <3> QED BY <3>2
  <2>6. m + H(c.audio) \in Int /\ CountIs(native', t, k)
        BY <1>2, <2>1, <2>4
  <2> QED BY <2>3, <2>5, <2>6 DEF Accounted
<1>12. ASSUME t # speech.id PROVE Flows(t) /\ sent'[t] = sent[t]
  <2>1. sent'[t] = sent[t] /\ H(c.audio) = 0 /\ sent[t] + H(c.audio) = sent[t]
        BY <1>1, <1>2, <1>4, <1>12
  <2>2. Absent(t, tail, carry, native) => Absent(t, tail', carry', native')
        BY <1>2, <1>6, <1>7, <2>1 DEF Absent
  <2> QED BY <1>8, <1>11, <2>1, <2>2 DEF Flows
<1>13. ASSUME t = speech.id PROVE sent'[t] = sent[t] + H(c.audio)
       BY <1>1, <1>2, <1>4, <1>13
<1> QED BY <1>6, <1>8, <1>11, <1>12, <1>13

\* A turn that begins has sent nothing and has nothing on its way.
LEMMA NothingSent ==
  ASSUME AudioTypes, NEW t \in Replies, sent[t] = 0, Absent(t, tail, carry, native)
  PROVE  Accounted(t, tail, carry, native, sent[t], heard[t]) /\ Fresh(t, tail, generation)
<1>1. tail \in Seq(Chunks) /\ native \in Seq(Seq(Nat)) /\ heard[t] \in Nat
      BY DEF AudioTypes
<1>2. CountIs(native, t, 0)
      BY <1>1, HoldsNone DEF Absent
<1>3. CountIs(Audios(tail), t, 0)
      BY <1>1, AudiosAre, HoldsNone DEF Absent
<1>4. heard[t] + 0 + 0 + (IF Capturing(tail) THEN 0 ELSE Halves(carry, t)) >= sent[t]
      BY <1>1 DEF Absent
<1> QED BY <1>2, <1>3, <1>4 DEF Accounted, Fresh, Absent

\* An interruption leaves nothing where it was but the chunks that will be passed over.
LEMMA ClearedIs ==
  ASSUME AudioTypes, InterruptPlayback, NEW t \in Replies, Absent(t, tail, carry, native)
  PROVE  Absent(t, tail', carry', native')
<1>1. carry' = <<>> /\ native' = <<>> /\ tail' = tail
      BY DEF InterruptPlayback
<1>2. <<>> \in Seq(Nat) /\ \A i \in DOMAIN <<>> : <<>>[i] # t
      OBVIOUS
<1>3. Halves(<<>>, t) = 0
      BY <1>2, HalvesAre
<1>4. Len(native') = 0
      BY <1>1
<1> QED BY <1>1, <1>3, <1>4 DEF Absent

\* Every step keeps the invariant.
LEMMA AudioKeeps ==
  ASSUME AudioInv, [AudioNext]_audioVars
  PROVE  AudioInv'
<1>1. CASE UNCHANGED audioVars
      BY <1>1 DEF AudioInv, AudioTypes, audioVars
<1>2. CASE AudioNext
  <2>1. AudioTypes /\ AudioTypes'
        BY <1>2, AudioTypesKeep DEF AudioInv
  <2> DEFINE Later(t) == t > speech.id => sent[t] = 0 /\ Absent(t, tail, carry, native)
             Current == Accounted(speech.id, tail, carry, native, sent[speech.id], heard[speech.id])
                        /\ Fresh(speech.id, tail, generation)
             End == Ending(playouts[speech.id], tail, carry, generation)
  <2>2. /\ \A t \in Replies : Later(t)
        /\ speech.at # "over" => Current
        /\ speech.at = "ended" => End
        BY DEF AudioInv
  <2>3. /\ speech.at # "over" => speech.id \in Replies
        /\ speech.id \in Nat /\ \A t \in Replies : t \in Nat
        /\ playouts \in [Replies -> Acks] /\ tail \in Seq(Chunks) /\ Len(tail) \in Nat
        BY <2>1, AudioAssumption DEF AudioTypes, Replies
  <2>4. SUFFICES /\ \A t \in Replies : Later(t)'
                 /\ speech'.at # "over" => Current'
                 /\ speech'.at = "ended" => End'
        BY <2>1 DEF AudioInv
  <2>5. ASSUME speech'.id = speech.id, speech'.at # "over" => speech.at # "over",
               \A t \in Replies : Flows(t), UNCHANGED <<sent, generation>>
        PROVE  (\A t \in Replies : Later(t)') /\ (speech'.at # "over" => Current')
    <3>1. \A t \in Replies : Later(t)'
          BY <2>2, <2>5 DEF Flows
    <3>2. ASSUME speech'.at # "over" PROVE Current'
      <4>1. speech.id \in Replies /\ Current /\ Flows(speech.id)
            BY <2>2, <2>3, <2>5, <3>2
      <4> QED BY <2>5, <4>1 DEF Flows
    <3> QED BY <3>1, <3>2
  <2>6. ASSUME UNCHANGED <<tail, carry, native, sent, heard, generation>> PROVE \A t \in Replies : Flows(t)
        BY <2>6 DEF Flows
  <2> HIDE DEF Later, Current, End
  <2>7. CASE Speaks
    <3>1. /\ speech'.id = speech.id + 1 /\ speech'.at = "speaking"
          /\ UNCHANGED <<tail, carry, native, sent, heard, generation, playouts>>
          BY <2>7 DEF Speaks
    <3>2. speech'.id \in Replies
          BY <2>1, <2>3, <3>1 DEF AudioTypes, Replies
    <3>3. \A t \in Replies : Later(t)'
          BY <2>2, <2>3, <3>1 DEF Later
    <3>4. sent[speech'.id] = 0 /\ Absent(speech'.id, tail, carry, native)
          BY <2>2, <2>3, <3>1, <3>2 DEF Later
    <3>5. Accounted(speech'.id, tail, carry, native, sent[speech'.id], heard[speech'.id])
          /\ Fresh(speech'.id, tail, generation)
          BY <2>1, <3>2, <3>4, NothingSent
    <3>6. Current'
          BY <3>1, <3>5 DEF Current
    <3> QED BY <3>1, <3>3, <3>6
  <2>8. CASE SendAudio
    <3>1. speech' = speech /\ speech.at = "speaking" /\ speech.id \in Replies /\ UNCHANGED generation
          BY <2>3, <2>8 DEF SendAudio
    <3>2. ASSUME NEW t \in Replies PROVE Later(t)'
      <4>1. CASE t > speech.id
        <5>1. t # speech.id
              BY <2>3, <4>1
        <5>2. Flows(t) /\ sent'[t] = sent[t]
              BY <2>1, <2>8, <5>1, SendingIs
        <5> QED BY <2>2, <3>1, <4>1, <5>2 DEF Later, Flows
      <4> QED BY <3>1, <4>1 DEF Later
    <3>3. Current'
      <4>1. Fresh(speech.id, tail, generation)
            /\ Accounted(speech.id, tail, carry, native, sent[speech.id], heard[speech.id])
            BY <2>2, <3>1 DEF Current
      <4>2. Fresh(speech.id, tail', generation)
            /\ Accounted(speech.id, tail', carry', native', sent'[speech.id], heard'[speech.id])
            BY <2>1, <2>8, <3>1, <4>1, SendingIs
      <4> QED BY <3>1, <4>2 DEF Current
    <3> QED BY <3>1, <3>2, <3>3
  <2>9. CASE EndPlayback
    <3>1. /\ speech' = [speech EXCEPT !.at = "ended"] /\ speech.at = "speaking"
          /\ UNCHANGED <<tail, carry, native, sent, heard, generation>>
          /\ playouts' = [playouts EXCEPT ![speech.id] =
                             [at |-> "tail", generation |-> generation, ahead |-> Len(tail)]]
          BY <2>9 DEF EndPlayback
    <3>2. speech'.id = speech.id /\ speech'.at = "ended"
          BY <2>1, <3>1 DEF AudioTypes
    <3>3. End'
      <4>1. playouts'[speech.id] = [at |-> "tail", generation |-> generation, ahead |-> Len(tail)]
            BY <2>3, <3>1
      <4> QED BY <3>1, <3>2, <4>1 DEF End, Ending
    <3> QED BY <2>5, <2>6, <3>1, <3>2, <3>3
  <2>10. CASE InterruptPlayback
    <3>1. speech' = [speech EXCEPT !.at = "over"] /\ UNCHANGED sent
          BY <2>10 DEF InterruptPlayback
    <3>2. speech'.id = speech.id /\ speech'.at = "over"
          BY <2>1, <3>1 DEF AudioTypes
    <3>3. \A t \in Replies : Later(t)'
          BY <2>1, <2>2, <2>10, <3>1, <3>2, ClearedIs DEF Later
    <3> QED BY <3>2, <3>3
  <2>11. CASE SessionMovesOn
    <3>1. speech' = [speech EXCEPT !.at = "over"] /\ UNCHANGED <<tail, carry, native, sent, heard, generation>>
          BY <2>11 DEF SessionMovesOn
    <3>2. speech'.id = speech.id /\ speech'.at = "over"
          BY <2>1, <3>1 DEF AudioTypes
    <3> QED BY <2>5, <2>6, <3>1, <3>2
  <2>12. ASSUME tail # <<>>, Head(tail).at \in {"queued", "capturing"}, UNCHANGED <<speech, generation>>,
                \/ LeavesTail
                \/ UNCHANGED playouts /\ Len(tail') = Len(tail),
                speech'.at = "ended"
         PROVE  End'
    <3>1. speech.id \in Replies /\ speech.at = "ended" /\ End
          BY <2>2, <2>3, <2>12
    <3> DEFINE p == playouts[speech.id]
    <3>2. p.generation = generation /\ p.at = "tail" /\ p.ahead = Len(tail) /\ Len(tail) > 0 /\ p \in Acks
          BY <2>3, <2>12, <3>1 DEF End, Ending
    <3>3. CASE LeavesTail
      <4>1. Len(tail') = Len(tail) - 1
            BY <2>3, <2>12, <3>3, HeadTailProperties DEF LeavesTail
      <4>2. playouts'[speech.id] = [p EXCEPT !.ahead = @ - 1]
            BY <3>1, <3>2, <3>3 DEF LeavesTail, Passes
      <4>3. playouts'[speech.id].at = "tail" /\ playouts'[speech.id].generation = generation
            /\ playouts'[speech.id].ahead = Len(tail) - 1
            BY <3>2, <4>2 DEF Acks
      <4> QED BY <2>12, <4>1, <4>3 DEF End, Ending
    <3>4. CASE UNCHANGED playouts /\ Len(tail') = Len(tail)
          BY <2>12, <3>2, <3>4 DEF End, Ending
    <3> QED BY <2>12, <3>3, <3>4
  <2>13. SkipStale \/ PublishBegins \/ CaptureFrame \/ Plays \/ (\E r \in Replies : AwaitPlayout(r))
            => \A t \in Replies : Flows(t)
         BY <2>1, AudioFlows
  <2>14. CASE SkipStale
    <3>1. /\ UNCHANGED <<speech, sent, generation>> /\ tail # <<>> /\ LeavesTail
          /\ Head(tail).at \in {"queued", "capturing"}
          BY <2>14 DEF SkipStale
    <3> QED BY <2>5, <2>12, <2>13, <2>14, <3>1
  <2>15. CASE PublishBegins
    <3>1. /\ UNCHANGED <<speech, sent, generation>> /\ tail # <<>>
          /\ Head(tail).at \in {"queued", "capturing"}
          /\ LeavesTail \/ (UNCHANGED playouts /\ Len(tail') = Len(tail))
      <4>1. \A c : Len([tail EXCEPT ![1] = c]) = Len(tail)
            BY <2>3
      <4> QED BY <2>15, <4>1 DEF PublishBegins
    <3> QED BY <2>5, <2>12, <2>13, <2>15, <3>1
  <2>16. CASE CaptureFrame
    <3>1. /\ UNCHANGED <<speech, sent, generation>> /\ tail # <<>>
          /\ Head(tail).at \in {"queued", "capturing"}
          /\ LeavesTail \/ (UNCHANGED playouts /\ Len(tail') = Len(tail))
      <4>1. \A c : Len([tail EXCEPT ![1] = c]) = Len(tail)
            BY <2>3
      <4> QED BY <2>16, <4>1 DEF CaptureFrame
    <3> QED BY <2>5, <2>12, <2>13, <2>16, <3>1
  <2>17. CASE Plays
    <3>1. UNCHANGED <<speech, sent, generation, playouts, tail, carry>>
          BY <2>17 DEF Plays
    <3>2. speech'.at = "ended" => End'
          BY <2>2, <3>1 DEF End, Ending
    <3> QED BY <2>5, <2>13, <2>17, <3>1, <3>2
  <2>18. ASSUME NEW r \in Replies, AwaitPlayout(r)
         PROVE  /\ \A t \in Replies : Later(t)'
                /\ speech'.at # "over" => Current'
                /\ speech'.at = "ended" => End'
    <3>1. UNCHANGED <<speech, sent, generation, tail>>
          BY <2>18 DEF AwaitPlayout
    <3>2. ASSUME speech'.at = "ended" PROVE End'
      <4> DEFINE t == speech.id
                 p == playouts[t]
      <4>1. t \in Replies /\ End /\ p \in Acks /\ playouts[r] \in Acks
            BY <2>2, <2>3, <3>1, <3>2
      <4>2. p.generation = generation
            BY <4>1 DEF End, Ending
      <4>3. carry' = carry \/ carry' = <<>>
            BY <2>18 DEF AwaitPlayout
      <4>4. CASE r # t
        <5>1. playouts'[t] = p
              BY <2>3, <2>18, <4>1, <4>4 DEF AwaitPlayout, At
        <5> QED BY <3>1, <4>1, <4>3, <5>1 DEF End, Ending
      <4>5. CASE r = t
        <5>1. p.at = "tail" /\ p.ahead = 0
              BY <2>18, <4>5 DEF AwaitPlayout
        <5>2. tail = <<>>
              BY <2>3, <4>1, <5>1 DEF End, Ending
        <5>3. carry' = <<>> /\ At(r, "playing")
              BY <2>18, <4>2, <4>5 DEF AwaitPlayout
        <5>4. playouts'[t].at = "playing" /\ playouts'[t].generation = generation
              BY <2>3, <4>1, <4>2, <4>5, <5>3 DEF At, Acks
        <5> QED BY <3>1, <5>2, <5>3, <5>4 DEF End, Ending
      <4> QED BY <4>4, <4>5
    <3> QED BY <2>5, <2>13, <2>18, <3>1, <3>2
  <2>19. ASSUME NEW r \in Replies, PlayoutEnds(r)
         PROVE  /\ \A t \in Replies : Later(t)'
                /\ speech'.at # "over" => Current'
                /\ speech'.at = "ended" => End'
    <3>1. /\ UNCHANGED <<sent, generation, tail, carry, native, heard>> /\ playouts[r].at = "playing"
          /\ \/ speech' = speech /\ ~(playouts[r].generation = generation /\ speech = [id |-> r, at |-> "ended"])
             \/ speech' = [speech EXCEPT !.at = "over"]
          /\ playouts' = [playouts EXCEPT ![r].at = IF playouts[r].generation # generation THEN "dropped" ELSE "complete"]
          BY <2>19 DEF PlayoutEnds, At
    <3>2. speech'.id = speech.id /\ (speech'.at # "over" => speech' = speech)
          BY <2>1, <3>1 DEF AudioTypes
    <3>3. ASSUME speech'.at = "ended" PROVE End'
      <4>1. speech' = speech /\ speech.id \in Replies /\ End /\ speech = [id |-> speech.id, at |-> "ended"]
            BY <2>1, <2>2, <2>3, <3>2, <3>3 DEF AudioTypes
      <4>2. playouts[speech.id].generation = generation
            BY <4>1 DEF End, Ending
      <4>3. r # speech.id
        <5>1. CASE speech' = speech /\ ~(playouts[r].generation = generation /\ speech = [id |-> r, at |-> "ended"])
              BY <4>1, <4>2, <5>1
        <5>2. CASE speech' = [speech EXCEPT !.at = "over"]
          <6>1. speech'.at = "over"
                BY <2>1, <5>2 DEF AudioTypes
          <6> QED BY <3>3, <6>1
        <5> QED BY <3>1, <5>1, <5>2
      <4>4. playouts'[speech.id] = playouts[speech.id]
            BY <2>3, <3>1, <4>1, <4>3
      <4> QED BY <3>1, <4>1, <4>4 DEF End, Ending
    <3> QED BY <2>5, <2>6, <3>1, <3>2, <3>3
  <2> QED BY <1>2, <2>7, <2>8, <2>9, <2>10, <2>11, <2>14, <2>15, <2>16, <2>17, <2>18, <2>19 DEF AudioNext
<1> QED BY <1>1, <1>2

\* The chain, what is left over and the source's queue together hold what was sent of the
\* turn that speaks and not yet played, for any turns, chunks and queue of the source.
THEOREM AudioInvariant == AudioSpec => []AudioInv
<1>1. AudioInit => AudioInv
  <2> SUFFICES ASSUME AudioInit PROVE AudioInv
      OBVIOUS
  <2>1. MaxReplyTurns \in Nat /\ Replies \subseteq Nat /\ \A t \in Replies : t >= 1
        BY AudioAssumption DEF Replies
  <2>2. <<>> \in Seq(Nat) /\ <<>> \in Seq(Seq(Nat)) /\ <<>> \in Seq(Chunks) /\ Len(<<>>) = 0
        OBVIOUS
  <2>3. NoPlayout \in Acks
        BY DEF NoPlayout, Acks
  <2>4. AudioTypes
        BY <2>1, <2>2, <2>3 DEF AudioInit, AudioTypes
  <2>5. ASSUME NEW t \in Replies PROVE sent[t] = 0 /\ Absent(t, tail, carry, native)
    <3>1. Halves(<<>>, t) = 0
      <4>1. \A i \in DOMAIN <<>> : <<>>[i] # t
            OBVIOUS
      <4> QED BY <2>2, <4>1, HalvesAre
    <3> QED BY <2>2, <3>1 DEF AudioInit, Absent
  <2> QED BY <2>4, <2>5 DEF AudioInit, AudioInv
<1>2. AudioInv /\ [AudioNext]_audioVars => AudioInv'
      BY AudioKeeps
<1> QED BY <1>1, <1>2, PTL DEF AudioSpec

\* The adapter says of no reply that it was played out while any of it is in the chain, left
\* over or with the source.
THEOREM CompleteStaysHeard == AudioSpec => CompleteMeansHeard
<1> DEFINE Complete == speech.at = "ended" /\ playouts[speech.id].at # "complete"
                          /\ playouts'[speech.id].at = "complete"
                       => heard[speech.id] >= sent[speech.id]
<1>1. AudioInv /\ [AudioNext]_audioVars => [Complete]_audioVars
  <2> SUFFICES ASSUME AudioInv, AudioNext, speech.at = "ended", playouts[speech.id].at # "complete",
                      playouts'[speech.id].at = "complete"
               PROVE  heard[speech.id] >= sent[speech.id]
      OBVIOUS
  <2> DEFINE t == speech.id
  <2>1. /\ t \in Replies /\ playouts \in [Replies -> Acks] /\ playouts[t] \in Acks
        /\ Ending(playouts[t], tail, carry, generation)
        /\ Accounted(t, tail, carry, native, sent[t], heard[t])
        BY AudioAssumption DEF AudioInv, AudioTypes, Replies
  <2>2. /\ tail \in Seq(Chunks) /\ native \in Seq(Seq(Nat)) /\ carry \in Seq(Nat)
        /\ heard[t] \in Nat /\ sent[t] \in Nat
        BY <2>1 DEF AudioInv, AudioTypes
  <2>3. LeavesTail => playouts'[t].at = playouts[t].at
    <3>1. Passes(playouts[t]).at = playouts[t].at
          BY <2>1 DEF Passes, Acks
    <3> QED BY <2>1, <3>1 DEF LeavesTail
  <2>4. \A r \in Replies : AwaitPlayout(r) => playouts'[t].at # "complete"
    <3> SUFFICES ASSUME NEW r \in Replies, AwaitPlayout(r) PROVE playouts'[t].at # "complete"
        OBVIOUS
    <3>1. PICK outcome \in {"dropped", "playing"} : At(r, outcome)
          BY DEF AwaitPlayout
    <3>2. playouts' = [playouts EXCEPT ![r] = [playouts[r] EXCEPT !.at = outcome]]
          BY <2>1, <3>1 DEF At
    <3>3. r = t => playouts'[t].at = outcome
          BY <2>1, <3>2 DEF Acks
    <3>4. r # t => playouts'[t] = playouts[t]
          BY <2>1, <3>2
    <3> QED BY <3>3, <3>4
  <2>5. PICK r \in Replies : PlayoutEnds(r)
        BY <2>3, <2>4 DEF AudioNext, Speaks, SendAudio, EndPlayback, InterruptPlayback, SessionMovesOn,
           SkipStale, PublishBegins, CaptureFrame, Plays
  <2>6. r = t
        BY <2>1, <2>5 DEF PlayoutEnds, At
  <2>7. native = <<>> /\ playouts[t].at = "playing"
        BY <2>5, <2>6 DEF PlayoutEnds
  <2>8. tail = <<>> /\ carry = <<>>
        BY <2>1, <2>7 DEF Ending
  <2>9. PICK m, k \in Int :
           /\ CountIs(Audios(tail), t, m) /\ CountIs(native, t, k)
           /\ heard[t] + k + m + (IF Capturing(tail) THEN 0 ELSE Halves(carry, t)) >= sent[t]
        BY <2>1 DEF Accounted
  <2>10. m = 0 /\ k = 0
    <3>1. Audios(tail) = <<>> /\ Audios(tail) \in Seq(Seq(Nat))
      <4>1. Audios(tail) \in Seq(Seq(Nat)) /\ Len(Audios(tail)) = 0
            BY <2>2, <2>8, AudiosAre
      <4> QED BY <4>1
    <3> QED BY <2>2, <2>7, <2>9, <3>1, HoldsNone
  <2>11. Halves(carry, t) = 0
    <3>1. <<>> \in Seq(Nat) /\ \A i \in DOMAIN <<>> : <<>>[i] # t
          OBVIOUS
    <3> QED BY <2>8, <3>1, HalvesAre
  <2> QED BY <2>2, <2>9, <2>10, <2>11
<1> QED BY <1>1, AudioInvariant, PTL DEF AudioSpec, CompleteMeansHeard
=============================================================================
