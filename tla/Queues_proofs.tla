---------------------------- MODULE Queues_proofs ----------------------------
(***************************************************************************)
(* The two bounded queues and what is folded from them.  The ending of a   *)
(* conversation is recorded whatever the queue before the store had to     *)
(* drop, for any sockets and limits; and what a segmenter calls an         *)
(* utterance is one stretch of what was heard, told of in order, however   *)
(* its windows, inferences, resets and late answers interleave, for any    *)
(* streams, frames and thresholds.                                         *)
(*                                                                         *)
(* What a queue, the rows or an assembler's samples become is a fold over  *)
(* a sequence; what it keeps is proved by induction on the part already    *)
(* folded, from the least element of a set of naturals (Inductive).        *)
(***************************************************************************)
EXTENDS GatewayServer, SpeechSegmenter, FiniteSetTheorems, SequenceTheorems,
        WellFoundedInduction, TLAPS

-----------------------------------------------------------------------------
(* Least elements, induction and folds.                                    *)

\* Every non-empty set of naturals has a least element.
LEMMA LeastNat ==
  ASSUME NEW T, T \subseteq Nat, T # {}
  PROVE  \E x \in T : \A y \in T : x <= y
<1> DEFINE R == OpToRel(<, Nat)
<1>1. IsWellFoundedOn(R, Nat)
      BY NatLessThanWellFounded
<1>2. \A x, y \in Nat : <<y, x>> \in R <=> y < x
      BY DEF OpToRel
<1> HIDE DEF R
<1>3. PICK x \in T : \A y \in T : ~(<<y, x>> \in R)
      BY <1>1, WFMin
<1>4. ASSUME NEW y \in T PROVE x <= y
  <2>1. ~(y < x)
        BY <1>2, <1>3
  <2> QED BY <2>1
<1> QED BY <1>4

\* Induction, for a set of naturals instead of a predicate.
LEMMA Inductive ==
  ASSUME NEW T, 0 \in T, \A n \in Nat : n \in T => n + 1 \in T
  PROVE  Nat \subseteq T
<1> SUFFICES ASSUME Nat \ T # {} PROVE FALSE
    OBVIOUS
<1>1. PICK x \in Nat \ T : \A y \in Nat \ T : x <= y
      BY LeastNat
<1>2. x - 1 \in Nat /\ x - 1 \in T
      BY <1>1
<1> QED BY <1>1, <1>2
\* A fold over a finite set, as MapThenFoldSet writes it: S is what is folded, pick the
\* element that is taken first, step what it makes of the rest.
Folds(g, S, base, pick, step) ==
    \A T \in SUBSET S : g[T] = IF T = {} THEN base ELSE step[<<pick[T], g[T \ {pick[T]}]>>]

\* Taking an element out makes a set smaller.
LEMMA Smaller ==
  ASSUME NEW S, IsFiniteSet(S), NEW T \in SUBSET S, NEW x \in T
  PROVE  /\ IsFiniteSet(T) /\ Cardinality(T) \in Nat /\ Cardinality(T) # 0
         /\ T \ {x} \in SUBSET S /\ Cardinality(T \ {x}) = Cardinality(T) - 1
  BY FS_Subset, FS_CardinalityType, FS_RemoveElement, FS_EmptySet

\* There is such a function.
LEMMA FoldExists ==
  ASSUME NEW S, IsFiniteSet(S), NEW V, NEW base \in V, NEW pick, NEW step,
         \A T \in SUBSET S : T # {} => pick[T] \in T,
         \A x \in S, v \in V : step[<<x, v>>] \in V
  PROVE  \E g \in [SUBSET S -> V] : Folds(g, S, base, pick, step)
<1> DEFINE Small(n) == {T \in SUBSET S : Cardinality(T) <= n}
           Next0(g, T) == IF T = {} THEN base ELSE step[<<pick[T], g[T \ {pick[T]}]>>]
           Defined == {n \in Nat : \E g \in [Small(n) -> V] : \A T \in Small(n) : g[T] = Next0(g, T)}
<1>1. \A T \in SUBSET S : T # {} => /\ pick[T] \in T /\ pick[T] \in S
                                    /\ Cardinality(T) \in Nat /\ Cardinality(T) # 0
                                    /\ T \ {pick[T]} \in SUBSET S
                                    /\ Cardinality(T \ {pick[T]}) = Cardinality(T) - 1
      BY Smaller
<1>2. 0 \in Defined
  <2>1. ASSUME NEW T \in Small(0) PROVE T = {}
    <3>1. CASE T # {}
      <4>1. Cardinality(T) \in Nat /\ Cardinality(T) # 0 /\ Cardinality(T) <= 0
            BY <1>1, <3>1
      <4> QED BY <4>1
    <3> QED BY <3>1
  <2>2. [T \in Small(0) |-> base] \in [Small(0) -> V]
        OBVIOUS
  <2> QED BY <2>1, <2>2
<1>3. ASSUME NEW n \in Nat, n \in Defined PROVE n + 1 \in Defined
  <2>1. PICK g \in [Small(n) -> V] : \A T \in Small(n) : g[T] = Next0(g, T)
        BY <1>3
  <2> DEFINE h == [T \in Small(n + 1) |-> Next0(g, T)]
  <2>2. \A T \in Small(n + 1) : T # {} => T \ {pick[T]} \in Small(n)
        BY <1>1
  <2>3. h \in [Small(n + 1) -> V]
    <3>1. ASSUME NEW T \in Small(n + 1), T # {} PROVE step[<<pick[T], g[T \ {pick[T]}]>>] \in V
          BY <1>1, <2>2, <3>1
    <3> QED BY <3>1
  <2>4. \A T \in Small(n) : T \in Small(n + 1) /\ h[T] = g[T]
    <3>1. ASSUME NEW T \in Small(n) PROVE T \in Small(n + 1)
      <4>1. T # {} => Cardinality(T) \in Nat
            BY <1>1
      <4>2. T = {} => Cardinality(T) = 0
            BY FS_EmptySet
      <4> QED BY <4>1, <4>2
    <3> QED BY <2>1, <3>1
  <2> HIDE DEF h
  <2>5. ASSUME NEW T \in Small(n + 1) PROVE h[T] = Next0(h, T)
    <3>1. h[T] = Next0(g, T)
          BY DEF h
    <3>2. CASE T # {}
      <4>1. h[T \ {pick[T]}] = g[T \ {pick[T]}]
            BY <2>2, <2>4, <3>2
      <4> QED BY <3>1, <4>1
    <3> QED BY <3>1, <3>2
  <2> HIDE DEF Small, Next0
  <2>6. \E f \in [Small(n + 1) -> V] : \A T \in Small(n + 1) : f[T] = Next0(f, T)
        BY <2>3, <2>5
  <2> QED BY <2>6
<1>4. Nat \subseteq Defined
  <2> HIDE DEF Defined
  <2> QED BY <1>2, <1>3, Inductive
<1>5. Cardinality(S) \in Nat /\ \A T \in SUBSET S : Cardinality(T) <= Cardinality(S)
      BY FS_Subset, FS_CardinalityType
<1>6. Small(Cardinality(S)) = SUBSET S
      BY <1>5
<1>7. PICK g \in [SUBSET S -> V] : \A T \in SUBSET S : g[T] = Next0(g, T)
  <2>1. Cardinality(S) \in Defined
        BY <1>4, <1>5
  <2> HIDE DEF Next0
  <2>2. \E g \in [Small(Cardinality(S)) -> V] : \A T \in Small(Cardinality(S)) : g[T] = Next0(g, T)
        BY <2>1
  <2> HIDE DEF Small
  <2> QED BY <1>6, <2>2
<1> QED BY <1>7 DEF Folds

\* What is not empty and lies in an interval has a greatest element.
LEMMA Greatest ==
  ASSUME NEW n \in Nat, NEW T \in SUBSET (1..n), T # {}
  PROVE  /\ Max(T) \in T /\ \A y \in T : y <= Max(T)
<1> DEFINE U == {n - x : x \in T}
<1>1. U \subseteq Nat /\ U # {}
  <2>1. \A x \in T : x \in Nat /\ x <= n
        OBVIOUS
  <2>2. \A x \in T : n - x \in Nat
        BY <2>1
  <2> QED BY <2>2
<1>2. PICK u \in U : \A v \in U : u <= v
      BY <1>1, LeastNat
<1>3. PICK x \in T : u = n - x
      BY <1>2
<1>4. ASSUME NEW y \in T PROVE x >= y
  <2>1. n - y \in U
        OBVIOUS
  <2>2. n - x <= n - y
        BY <1>2, <1>3, <2>1
  <2> QED BY <2>2
<1>5. \E m \in T : \A y \in T : m >= y
      BY <1>4
<1>6. Max(T) \in T /\ \A y \in T : Max(T) >= y
      BY <1>5 DEF Max
<1> QED BY <1>6

\* The greatest of an initial segment, and what is left without it.
LEMMA GreatestOf ==
  ASSUME NEW n \in Nat, n # 0
  PROVE  Max(1..n) = n /\ (1..n) \ {n} = 1..(n - 1)
<1>1. 1..n \in SUBSET (1..n) /\ 1..n # {} /\ n \in 1..n
      OBVIOUS
<1>2. Max(1..n) \in 1..n /\ n <= Max(1..n)
      BY <1>1, Greatest
<1> QED BY <1>2

\* Induction over the parts of a finite set, one element at a time.
LEMMA FiniteInductive ==
  ASSUME NEW S, IsFiniteSet(S), NEW R, {} \in R,
         \A T \in SUBSET S : T # {} => \E x \in T : T \ {x} \in R => T \in R
  PROVE  S \in R
<1> DEFINE Reached == {n \in Nat : \A T \in SUBSET S : Cardinality(T) <= n => T \in R}
<1>1. 0 \in Reached
  <2>1. ASSUME NEW T \in SUBSET S, Cardinality(T) <= 0 PROVE T = {}
    <3>1. IsFiniteSet(T) /\ Cardinality(T) \in Nat
          BY FS_Subset, FS_CardinalityType
    <3>2. Cardinality(T) = 0
          BY <2>1, <3>1
    <3> QED BY <3>1, <3>2, FS_EmptySet
  <2> QED BY <2>1
<1>2. ASSUME NEW n \in Nat, n \in Reached PROVE n + 1 \in Reached
  <2> SUFFICES ASSUME NEW T \in SUBSET S, Cardinality(T) <= n + 1 PROVE T \in R
      OBVIOUS
  <2>1. CASE T # {}
    <3>1. PICK x \in T : T \ {x} \in R => T \in R
          BY <2>1
    <3>2. /\ T \ {x} \in SUBSET S /\ Cardinality(T \ {x}) = Cardinality(T) - 1
          /\ Cardinality(T) \in Nat
          BY <2>1, Smaller
    <3> DEFINE U == T \ {x}
    <3> HIDE DEF U
    <3>3. Cardinality(U) <= n /\ U \in SUBSET S
          BY <3>2 DEF U
    <3>4. U \in R
          BY <1>2, <3>3
    <3> QED BY <3>1, <3>4 DEF U
  <2> QED BY <2>1
<1>3. Nat \subseteq Reached
  <2> HIDE DEF Reached
  <2> QED BY <1>1, <1>2, Inductive
<1>4. Cardinality(S) \in Nat /\ \A T \in SUBSET S : Cardinality(T) <= Cardinality(S)
      BY FS_Subset, FS_CardinalityType
<1> QED BY <1>3, <1>4

-----------------------------------------------------------------------------
(* The rows of the store.                                                  *)

RowRecords == [outcome : {"none", "active", "completed", "error", "abandoned"}, error : BOOLEAN]
Tables == [Sockets -> RowRecords]
Entries == [type : {"media", "event", "failure", "error", "finish"}, of : Sockets]

\* What a table of rows becomes, one operation of the queue after another.
LEMMA WriteKeeps ==
  ASSUME NEW r \in Tables, NEW o \in Entries
  PROVE  write(r, o) \in Tables
  BY DEF write, Tables, Entries, RowRecords

\* The rows after a queue is written: what each operation makes of the rows before it.
LEMMA WriteFolds ==
  ASSUME NEW r \in Tables, NEW q \in Seq(Entries)
  PROVE  \E h \in [0..Len(q) -> Tables] :
            /\ h[0] = r
            /\ \A k \in 1..Len(q) : h[k] = write(h[k - 1], q[k])
            /\ FoldLeft(write, r, q) = h[Len(q)]
<1> DEFINE S == 1..Len(q)
           pick == [T \in SUBSET S |-> Max(T)]
           step == [p \in S \X Tables |-> write(p[2], q[p[1]])]
<1>1. Len(q) \in Nat /\ DOMAIN q = S /\ \A i \in S : q[i] \in Entries
      OBVIOUS
<1>2. IsFiniteSet(S)
      BY <1>1, FS_Interval
<1>3. \A T \in SUBSET S : T # {} => pick[T] \in T
      BY <1>1, Greatest
<1>4. ASSUME NEW i \in S, NEW v \in Tables PROVE write(v, q[i]) \in Tables
      BY <1>1, WriteKeeps
<1>5. \A i \in S, v \in Tables : step[<<i, v>>] \in Tables
      BY <1>4
<1>6. PICK g \in [SUBSET S -> Tables] : Folds(g, S, r, pick, step)
  <2> HIDE DEF S, pick, step
  <2> QED BY <1>2, <1>3, <1>5, FoldExists
<1>7. ASSUME NEW T \in SUBSET S
      PROVE  g[T] = IF T = {} THEN r ELSE write(g[T \ {Max(T)}], q[Max(T)])
  <2>1. CASE T # {}
    <3>1. Max(T) \in S /\ g[T \ {Max(T)}] \in Tables
          BY <1>3, <2>1
    <3>2. g[T] = step[<<Max(T), g[T \ {Max(T)}]>>]
          BY <1>6, <2>1 DEF Folds
    <3> QED BY <2>1, <3>1, <3>2
  <2> QED BY <1>6, <2>1 DEF Folds
<1>8. g = [T \in SUBSET S |-> IF T = {} THEN r ELSE write(g[T \ {Max(T)}], q[Max(T)])]
      BY <1>7
<1> DEFINE it == CHOOSE f : f = [T \in SUBSET S |-> IF T = {} THEN r ELSE write(f[T \ {Max(T)}], q[Max(T)])]
<1>9. it = [T \in SUBSET S |-> IF T = {} THEN r ELSE write(it[T \ {Max(T)}], q[Max(T)])]
  <2> HIDE DEF S
  <2> QED BY <1>8
<1>10. FoldLeft(write, r, q) = it[S]
      BY <1>1 DEF FoldLeft, MapThenFoldSet
<1> DEFINE h == [k \in 0..Len(q) |-> it[1..k]]
           Typed == {k \in Nat : k <= Len(q) => h[k] \in Tables}
<1> HIDE DEF it
<1>11. h[0] = r
  <2>1. 1..0 = {} /\ {} \in SUBSET S /\ 0 \in 0..Len(q)
        BY <1>1
  <2>2. it[{}] = r
        BY <1>9
  <2> QED BY <2>1, <2>2
<1>12. ASSUME NEW k \in 1..Len(q) PROVE h[k] = write(h[k - 1], q[k])
  <2>1. 1..k \in SUBSET S /\ 1..k # {} /\ k \in 0..Len(q) /\ k - 1 \in 0..Len(q)
    <3>1. k \in Nat /\ k >= 1 /\ k <= Len(q) /\ Len(q) \in Nat
          BY <1>1
    <3>2. \A i \in 1..k : i \in 1..Len(q)
          BY <3>1
    <3>3. k \in 1..k /\ k \in 0..Len(q) /\ k - 1 \in 0..Len(q)
          BY <3>1
    <3> QED BY <3>2, <3>3
  <2>2. Max(1..k) = k /\ (1..k) \ {k} = 1..(k - 1)
        BY <1>1, GreatestOf
  <2>3. it[1..k] = write(it[(1..k) \ {Max(1..k)}], q[Max(1..k)])
    <3> HIDE DEF S
    <3> QED BY <1>9, <2>1
  <2> QED BY <2>1, <2>2, <2>3
<1> HIDE DEF h
<1>13. 0 \in Typed
      BY <1>11
<1>14. ASSUME NEW k \in Nat, k \in Typed PROVE k + 1 \in Typed
  <2> SUFFICES ASSUME k + 1 <= Len(q) PROVE h[k + 1] \in Tables
      OBVIOUS
  <2>1. k + 1 \in 1..Len(q) /\ (k + 1) - 1 = k /\ h[k] \in Tables
        BY <1>1, <1>14
  <2> QED BY <1>4, <1>12, <2>1
<1>15. \A k \in 0..Len(q) : h[k] \in Tables
  <2> HIDE DEF Typed
  <2>1. Nat \subseteq Typed
        BY <1>13, <1>14, Inductive
  <2> QED BY <1>1, <2>1 DEF Typed
<1>16. h \in [0..Len(q) -> Tables] /\ FoldLeft(write, r, q) = h[Len(q)]
      BY <1>1, <1>10, <1>15 DEF h
<1> QED BY <1>11, <1>12, <1>16

-----------------------------------------------------------------------------
(* The queue.                                                              *)

\* What is marked of a session: that it failed, that it is over.
Markers == [type : {"error", "finish"}, of : Sockets]
\* x comes before y.
After(q, x, y) == \E i, j \in DOMAIN q : i < j /\ q[i] = x /\ q[j] = y
Unique(q) == \A i, j \in DOMAIN q : q[i] \in Markers /\ q[i] = q[j] => i = j
Queues == {q \in Seq(Entries) : Len(q) <= MaxQueue /\ Unique(q)}

\* What p has of q: all of it but what is out, in its order.
Holds(p, q, out) ==
    /\ \A x \in Markers \ out : x \in ToSet(q) => x \in ToSet(p)
    /\ \A x, y \in Markers \ out : After(q, x, y) => After(p, x, y)

\* One sequence behind another.
LEMMA JoinIs ==
  ASSUME NEW a \in Seq(Entries), NEW b \in Seq(Entries)
  PROVE  /\ a \o b \in Seq(Entries) /\ Len(a \o b) = Len(a) + Len(b)
         /\ \A i \in 1..Len(a) : (a \o b)[i] = a[i]
         /\ \A i \in 1..Len(b) : (a \o b)[Len(a) + i] = b[i]
  OBVIOUS

\* A sequence without one of its entries.
LEMMA RemoveIs ==
  ASSUME NEW q \in Seq(Entries), NEW i \in DOMAIN q
  PROVE  /\ RemoveAt(q, i) \in Seq(Entries) /\ Len(RemoveAt(q, i)) = Len(q) - 1
         /\ \A j \in 1..(Len(q) - 1) : RemoveAt(q, i)[j] = IF j < i THEN q[j] ELSE q[j + 1]
<1> DEFINE a == SubSeq(q, 1, i - 1)
           b == SubSeq(q, i + 1, Len(q))
<1>1. i \in 1..Len(q) /\ Len(q) \in Nat
      OBVIOUS
<1>2. a \in Seq(Entries) /\ Len(a) = i - 1 /\ \A j \in 1..(i - 1) : a[j] = q[j]
      BY <1>1
<1>3. b \in Seq(Entries) /\ Len(b) = Len(q) - i /\ \A j \in 1..(Len(q) - i) : b[j] = q[i + j]
      BY <1>1
<1>4. RemoveAt(q, i) = a \o b
      BY DEF RemoveAt
<1> HIDE DEF a, b
<1>5. /\ a \o b \in Seq(Entries) /\ Len(a \o b) = Len(q) - 1
      /\ \A j \in 1..(i - 1) : (a \o b)[j] = a[j]
      /\ \A j \in 1..(Len(q) - i) : (a \o b)[(i - 1) + j] = b[j]
  <2>1. /\ a \o b \in Seq(Entries) /\ Len(a \o b) = Len(a) + Len(b)
        /\ \A j \in 1..Len(a) : (a \o b)[j] = a[j]
        /\ \A j \in 1..Len(b) : (a \o b)[Len(a) + j] = b[j]
        BY <1>2, <1>3, JoinIs
  <2>2. (i - 1) + (Len(q) - i) = Len(q) - 1
        BY <1>1
  <2> QED BY <1>2, <1>3, <2>1, <2>2
<1>6. ASSUME NEW j \in 1..(Len(q) - 1) PROVE (a \o b)[j] = IF j < i THEN q[j] ELSE q[j + 1]
  <2>1. CASE j < i
    <3>1. j \in 1..(i - 1)
          BY <1>1, <2>1
    <3> QED BY <1>2, <1>5, <2>1, <3>1
  <2>2. CASE ~(j < i)
    <3> DEFINE k == j - (i - 1)
    <3>1. k \in 1..(Len(q) - i) /\ (i - 1) + k = j /\ i + k = j + 1
          BY <1>1, <2>2
    <3> HIDE DEF k
    <3>2. (a \o b)[(i - 1) + k] = b[k] /\ b[k] = q[i + k]
          BY <1>3, <1>5, <3>1
    <3> QED BY <2>2, <3>1, <3>2
  <2> QED BY <2>1, <2>2
<1> QED BY <1>4, <1>5, <1>6

\* Taking one entry out leaves the others, in their order.
LEMMA RemoveHolds ==
  ASSUME NEW q \in Queues, NEW i \in DOMAIN q
  PROVE  /\ RemoveAt(q, i) \in Queues /\ Len(RemoveAt(q, i)) = Len(q) - 1
         /\ ToSet(RemoveAt(q, i)) \subseteq ToSet(q) /\ Holds(RemoveAt(q, i), q, {q[i]})
<1> DEFINE p == RemoveAt(q, i)
           n == Len(q)
           at(k) == IF k < i THEN k ELSE k + 1
           to(k) == IF k < i THEN k ELSE k - 1
<1>1. q \in Seq(Entries) /\ n \in Nat /\ n <= MaxQueue /\ MaxQueue \in Nat /\ i \in 1..n /\ DOMAIN q = 1..n
      BY ServerAssumption DEF Queues
<1>0. /\ p \in Seq(Entries) /\ Len(p) = Len(q) - 1
      /\ \A j \in 1..(Len(q) - 1) : p[j] = IF j < i THEN q[j] ELSE q[j + 1]
      BY <1>1, RemoveIs
<1> HIDE DEF p
<1>2. p \in Seq(Entries) /\ Len(p) = n - 1 /\ DOMAIN p = 1..(n - 1)
      BY <1>0
<1>3. ASSUME NEW k \in DOMAIN p PROVE at(k) \in DOMAIN q /\ p[k] = q[at(k)]
  <2>1. k \in 1..(Len(q) - 1)
        BY <1>2
  <2>2. at(k) \in DOMAIN q
        BY <1>1, <2>1
  <2> QED BY <1>0, <2>1, <2>2
<1>4. \A k \in DOMAIN q : k # i => to(k) \in DOMAIN p /\ p[to(k)] = q[k]
  <2> SUFFICES ASSUME NEW k \in DOMAIN q, k # i PROVE to(k) \in DOMAIN p /\ p[to(k)] = q[k]
      OBVIOUS
  <2>1. to(k) \in DOMAIN p /\ at(to(k)) = k
        BY <1>1, <1>2
  <2> QED BY <1>3, <2>1
<1>5. \A k, l \in DOMAIN p : at(k) = at(l) => k = l
      BY <1>1, <1>2
<1>6. \A k, l \in DOMAIN q : k # i /\ l # i /\ k < l => to(k) < to(l)
      BY <1>1
<1>7. Unique(q)
      BY DEF Queues
<1> HIDE DEF at, to
<1>8. Unique(p)
      BY <1>3, <1>5, <1>7 DEF Unique
<1>9. ToSet(p) \subseteq ToSet(q)
      BY <1>3 DEF ToSet
<1>10. ASSUME NEW x \in Markers \ {q[i]}, x \in ToSet(q) PROVE x \in ToSet(p)
      BY <1>4, <1>10 DEF ToSet
<1>11. ASSUME NEW x \in Markers \ {q[i]}, NEW y \in Markers \ {q[i]}, After(q, x, y) PROVE After(p, x, y)
      BY <1>4, <1>6, <1>11 DEF After
<1>12. p \in Queues /\ Len(p) = n - 1
      BY <1>1, <1>2, <1>8 DEF Queues
<1> QED BY <1>9, <1>10, <1>11, <1>12 DEF p, Holds

\* What is put behind the others.
LEMMA AppendHolds ==
  ASSUME NEW q \in Queues, NEW o \in Entries, Len(q) < MaxQueue, o \in Markers => o \notin ToSet(q)
  PROVE  /\ Append(q, o) \in Queues /\ ToSet(Append(q, o)) = ToSet(q) \union {o}
         /\ Holds(Append(q, o), q, {})
         /\ \A x \in ToSet(q) : After(Append(q, o), x, o)
<1> DEFINE p == Append(q, o)
           n == Len(q)
<1>1. q \in Seq(Entries) /\ n \in Nat /\ MaxQueue \in Nat /\ DOMAIN q = 1..n /\ Unique(q)
      BY ServerAssumption DEF Queues
<1>2. p \in Seq(Entries) /\ Len(p) = n + 1 /\ DOMAIN p = 1..(n + 1) /\ p[n + 1] = o
      BY <1>1
<1>3. \A k \in 1..n : k \in DOMAIN p /\ k < n + 1 /\ p[k] = q[k]
      BY <1>1
<1>4. \A k \in DOMAIN p : k = n + 1 \/ k \in 1..n
      BY <1>1, <1>2
<1>5. n + 1 \in DOMAIN p /\ Len(p) <= MaxQueue
      BY <1>1, <1>2
<1> HIDE DEF p, n
<1>6. Unique(p)
      BY <1>1, <1>2, <1>3, <1>4 DEF Unique, ToSet
<1>7. ToSet(p) = ToSet(q) \union {o}
      BY <1>1, <1>2, <1>3, <1>4, <1>5 DEF ToSet
<1>8. Holds(p, q, {})
      BY <1>1, <1>3, <1>7 DEF Holds, After
<1>9. \A x \in ToSet(q) : After(p, x, o)
      BY <1>1, <1>2, <1>3, <1>5 DEF After, ToSet
<1>10. p \in Queues
      BY <1>2, <1>5, <1>6 DEF Queues
<1> QED BY <1>7, <1>8, <1>9, <1>10 DEF p

\* A queue of nothing but markers has room for another one.
LEMMA RoomForMarkers ==
  ASSUME NEW q \in Queues, ToSet(q) \subseteq Markers, NEW o \in Markers, o \notin ToSet(q)
  PROVE  Len(q) < MaxQueue
<1> DEFINE n == Len(q)
           rest == Markers \ {o}
<1>1. q \in Seq(Entries) /\ n \in Nat /\ DOMAIN q = 1..n /\ Unique(q)
      BY DEF Queues
<1>2. /\ IsFiniteSet(Sockets) /\ MaxQueue \in Nat /\ MaxQueue >= 2 * Cardinality(Sockets)
      /\ Cardinality(Sockets) \in Nat
      BY ServerAssumption, FS_CardinalityType
<1> DEFINE kinds == {"error", "finish"}
           pairs == kinds \X Sockets
           asPair == [x \in Markers |-> <<x.type, x.of>>]
<1>3. IsFiniteSet(kinds) /\ Cardinality(kinds) = 2
  <2>1. IsFiniteSet({"error"}) /\ Cardinality({"error"}) = 1
        BY FS_Singleton
  <2>2. kinds = {"error"} \union {"finish"} /\ "finish" \notin {"error"}
        OBVIOUS
  <2>3. IsFiniteSet({"error"} \union {"finish"}) /\ Cardinality({"error"} \union {"finish"}) = 1 + 1
        BY <2>1, <2>2, FS_AddElement
  <2> QED BY <2>2, <2>3
<1>4. IsFiniteSet(pairs) /\ Cardinality(pairs) = 2 * Cardinality(Sockets)
  <2> HIDE DEF kinds
  <2> QED BY <1>2, <1>3, FS_Product
<1>5. asPair \in Injection(Markers, pairs)
  <2>1. asPair \in [Markers -> pairs]
        BY DEF Markers
  <2>2. ASSUME NEW x \in Markers, NEW y \in Markers, asPair[x] = asPair[y] PROVE x = y
        BY <2>2 DEF Markers
  <2> HIDE DEF asPair, pairs
  <2> QED BY <2>1, <2>2 DEF Injection, IsInjective
<1>6. IsFiniteSet(Markers) /\ Cardinality(Markers) <= 2 * Cardinality(Sockets)
  <2> HIDE DEF asPair, pairs
  <2> QED BY <1>4, <1>5, FS_Injection
<1>7. /\ IsFiniteSet(rest) /\ Cardinality(rest) = Cardinality(Markers) - 1
      /\ Cardinality(Markers) \in Nat
      BY <1>6, FS_RemoveElement, FS_CardinalityType
<1>8. q \in Injection(1..n, rest)
  <2>1. \A k \in 1..n : q[k] \in rest
        BY <1>1 DEF ToSet
  <2>2. \A k, l \in 1..n : q[k] = q[l] => k = l
        BY <1>1, <2>1 DEF Unique
  <2>3. q \in [1..n -> rest]
    <3>1. q = [k \in 1..n |-> q[k]]
          BY <1>1
    <3> HIDE DEF rest, n
    <3> QED BY <2>1, <3>1
  <2> HIDE DEF rest, n
  <2> QED BY <2>2, <2>3 DEF Injection, IsInjective
<1>9. Cardinality(1..n) = n
      BY <1>1, FS_Interval
<1>10. Cardinality(1..n) <= Cardinality(rest)
  <2> HIDE DEF rest, n
  <2> QED BY <1>7, <1>8, FS_Injection
<1> QED BY <1>1, <1>2, <1>6, <1>7, <1>9, <1>10

\* The least index of an event.
LEMMA Least ==
  ASSUME NEW T, T \subseteq Nat, T # {}
  PROVE  Min(T) \in T
<1>1. \E x \in T : \A y \in T : x <= y
      BY LeastNat
<1> QED BY <1>1 DEF Min

\* What the queue makes of one more entry.
LEMMA EnqueueKeeps ==
  ASSUME NEW q \in Queues, NEW o \in Entries, o \in Markers => o \notin ToSet(q)
  PROVE  /\ enqueue(q, o) \in Queues /\ ToSet(enqueue(q, o)) \subseteq ToSet(q) \union {o}
         /\ Holds(enqueue(q, o), q, {})
         /\ o \in Markers => /\ o \in ToSet(enqueue(q, o))
                             /\ \A x \in Markers : x \in ToSet(q) => After(enqueue(q, o), x, o)
<1> DEFINE media == {i \in DOMAIN q : q[i].type = "media"}
           events == {i \in DOMAIN q : q[i].type \in {"media", "event", "failure"}}
           victims == IF media # {} THEN media ELSE events
<1>1. q \in Seq(Entries) /\ Len(q) \in Nat /\ MaxQueue \in Nat /\ Len(q) <= MaxQueue
      BY ServerAssumption DEF Queues
<1>2. enqueue(q, o) = IF Len(q) < MaxQueue THEN Append(q, o)
                      ELSE IF o.type = "media" \/ victims = {} THEN q
                      ELSE Append(RemoveAt(q, Min(victims)), o)
      BY DEF enqueue, Indices, IsEvent
<1>3. victims \subseteq events /\ events \subseteq Nat
      BY <1>1
<1>4. \A i \in events : i \in DOMAIN q /\ q[i] \notin Markers
      BY DEF Markers
<1>5. victims = {} => ToSet(q) \subseteq Markers
  <2> SUFFICES ASSUME events = {} PROVE ToSet(q) \subseteq Markers
      OBVIOUS
  <2>1. \A i \in DOMAIN q : q[i] \in Entries /\ q[i].type \notin {"media", "event", "failure"}
        BY <1>1
  <2> QED BY <2>1 DEF ToSet, Entries, Markers
<1> HIDE DEF victims, events, media
<1>6. CASE Len(q) < MaxQueue
      BY <1>2, <1>6, AppendHolds DEF Markers
<1>7. CASE ~(Len(q) < MaxQueue) /\ (o.type = "media" \/ victims = {})
  <2>1. enqueue(q, o) = q
        BY <1>2, <1>7
  <2>2. o \notin Markers
        BY <1>5, <1>7, RoomForMarkers DEF Markers
  <2> QED BY <2>1, <2>2 DEF Holds
<1>8. CASE ~(Len(q) < MaxQueue) /\ ~(o.type = "media" \/ victims = {})
  <2> DEFINE i == Min(victims)
             p == RemoveAt(q, i)
  <2>1. i \in DOMAIN q /\ q[i] \notin Markers
        BY <1>3, <1>4, <1>8, Least
  <2> HIDE DEF i
  <2>2. p \in Queues /\ Len(p) = Len(q) - 1 /\ ToSet(p) \subseteq ToSet(q) /\ Holds(p, q, {q[i]})
        BY <2>1, RemoveHolds
  <2>3. enqueue(q, o) = Append(p, o)
        BY <1>2, <1>8 DEF i
  <2> HIDE DEF p
  <2>4. Len(p) < MaxQueue /\ (o \in Markers => o \notin ToSet(p))
        BY <1>1, <2>2
  <2>5. /\ Append(p, o) \in Queues /\ ToSet(Append(p, o)) = ToSet(p) \union {o}
        /\ Holds(Append(p, o), p, {}) /\ \A x \in ToSet(p) : After(Append(p, o), x, o)
        BY <2>2, <2>4, AppendHolds
  <2>6. Holds(Append(p, o), q, {})
        BY <2>1, <2>2, <2>5 DEF Holds
  <2> QED BY <2>1, <2>2, <2>3, <2>5, <2>6 DEF Holds
<1> QED BY <1>6, <1>7, <1>8

\* The queue stays a sequence of entries, whatever it was.
LEMMA ObserveKeeps ==
  ASSUME NEW q \in Seq(Entries), NEW o \in Entries
  PROVE  observe(q, o) \in Seq(Entries)
<1> DEFINE media == {i \in DOMAIN q : q[i].type = "media"}
           events == {i \in DOMAIN q : q[i].type \in {"media", "event", "failure"}}
           victims == IF media # {} THEN media ELSE events
<1>1. enqueue(q, o) = IF Len(q) < MaxQueue THEN Append(q, o)
                      ELSE IF o.type = "media" \/ victims = {} THEN q
                      ELSE Append(RemoveAt(q, Min(victims)), o)
      BY DEF enqueue, Indices, IsEvent
<1>2. victims \subseteq DOMAIN q /\ DOMAIN q \subseteq Nat
      OBVIOUS
<1> HIDE DEF victims
<1>3. victims # {} => Min(victims) \in DOMAIN q
      BY <1>2, Least
<1>4. victims # {} => RemoveAt(q, Min(victims)) \in Seq(Entries)
      BY <1>3, RemoveIs
<1> QED BY <1>1, <1>4 DEF observe

\* The operations of a step, one after the other.
LEMMA ObserveFolds ==
  ASSUME NEW r \in Seq(Entries), NEW q \in Seq(Entries)
  PROVE  \E h \in [0..Len(q) -> Seq(Entries)] :
            /\ h[0] = r
            /\ \A k \in 1..Len(q) : h[k] = observe(h[k - 1], q[k])
            /\ FoldLeft(observe, r, q) = h[Len(q)]
<1> DEFINE S == 1..Len(q)
           pick == [T \in SUBSET S |-> Max(T)]
           step == [p \in S \X Seq(Entries) |-> observe(p[2], q[p[1]])]
<1>1. Len(q) \in Nat /\ DOMAIN q = S /\ \A i \in S : q[i] \in Entries
      OBVIOUS
<1>2. IsFiniteSet(S)
      BY <1>1, FS_Interval
<1>3. \A T \in SUBSET S : T # {} => pick[T] \in T
      BY <1>1, Greatest
<1>4. ASSUME NEW i \in S, NEW v \in Seq(Entries) PROVE observe(v, q[i]) \in Seq(Entries)
      BY <1>1, ObserveKeeps
<1>5. \A i \in S, v \in Seq(Entries) : step[<<i, v>>] \in Seq(Entries)
      BY <1>4
<1>6. PICK g \in [SUBSET S -> Seq(Entries)] : Folds(g, S, r, pick, step)
  <2> HIDE DEF S, pick, step
  <2> QED BY <1>2, <1>3, <1>5, FoldExists
<1>7. ASSUME NEW T \in SUBSET S
      PROVE  g[T] = IF T = {} THEN r ELSE observe(g[T \ {Max(T)}], q[Max(T)])
  <2>1. CASE T # {}
    <3>1. Max(T) \in S /\ g[T \ {Max(T)}] \in Seq(Entries)
          BY <1>3, <2>1
    <3>2. g[T] = step[<<Max(T), g[T \ {Max(T)}]>>]
          BY <1>6, <2>1 DEF Folds
    <3> QED BY <2>1, <3>1, <3>2
  <2> QED BY <1>6, <2>1 DEF Folds
<1>8. g = [T \in SUBSET S |-> IF T = {} THEN r ELSE observe(g[T \ {Max(T)}], q[Max(T)])]
      BY <1>7
<1> DEFINE it == CHOOSE f : f = [T \in SUBSET S |-> IF T = {} THEN r ELSE observe(f[T \ {Max(T)}], q[Max(T)])]
<1>9. it = [T \in SUBSET S |-> IF T = {} THEN r ELSE observe(it[T \ {Max(T)}], q[Max(T)])]
  <2> HIDE DEF S
  <2> QED BY <1>8
<1>10. FoldLeft(observe, r, q) = it[S]
      BY <1>1 DEF FoldLeft, MapThenFoldSet
<1> DEFINE h == [k \in 0..Len(q) |-> it[1..k]]
           Typed == {k \in Nat : k <= Len(q) => h[k] \in Seq(Entries)}
<1> HIDE DEF it
<1>11. h[0] = r
  <2>1. 1..0 = {} /\ {} \in SUBSET S /\ 0 \in 0..Len(q)
        BY <1>1
  <2>2. it[{}] = r
        BY <1>9
  <2> QED BY <2>1, <2>2
<1>12. ASSUME NEW k \in 1..Len(q) PROVE h[k] = observe(h[k - 1], q[k])
  <2>1. 1..k \in SUBSET S /\ 1..k # {} /\ k \in 0..Len(q) /\ k - 1 \in 0..Len(q)
    <3>1. k \in Nat /\ k >= 1 /\ k <= Len(q) /\ Len(q) \in Nat
          BY <1>1
    <3>2. \A i \in 1..k : i \in 1..Len(q)
          BY <3>1
    <3>3. k \in 1..k /\ k \in 0..Len(q) /\ k - 1 \in 0..Len(q)
          BY <3>1
    <3> QED BY <3>2, <3>3
  <2>2. Max(1..k) = k /\ (1..k) \ {k} = 1..(k - 1)
        BY <1>1, GreatestOf
  <2>3. it[1..k] = observe(it[(1..k) \ {Max(1..k)}], q[Max(1..k)])
    <3> HIDE DEF S
    <3> QED BY <1>9, <2>1
  <2> QED BY <2>1, <2>2, <2>3
<1> HIDE DEF h
<1>13. 0 \in Typed
      BY <1>11
<1>14. ASSUME NEW k \in Nat, k \in Typed PROVE k + 1 \in Typed
  <2> SUFFICES ASSUME k + 1 <= Len(q) PROVE h[k + 1] \in Seq(Entries)
      OBVIOUS
  <2>1. k + 1 \in 1..Len(q) /\ (k + 1) - 1 = k /\ h[k] \in Seq(Entries)
        BY <1>1, <1>14
  <2> QED BY <1>4, <1>12, <2>1
<1>15. \A k \in 0..Len(q) : h[k] \in Seq(Entries)
  <2> HIDE DEF Typed
  <2>1. Nat \subseteq Typed
        BY <1>13, <1>14, Inductive
  <2> QED BY <1>1, <2>1 DEF Typed
<1>16. h \in [0..Len(q) -> Seq(Entries)] /\ FoldLeft(observe, r, q) = h[Len(q)]
      BY <1>1, <1>10, <1>15 DEF h
<1> QED BY <1>11, <1>12, <1>16

\* What a step's operations make of the queue: a marker is neither lost nor doubled, and
\* what was marked first comes first.
LEMMA ObservesKeep ==
  ASSUME NEW q \in Queues, NEW ops \in Seq(Entries), Unique(ops),
         \A x \in Markers : x \in ToSet(ops) => x \notin ToSet(q)
  PROVE  LET p == FoldLeft(observe, q, ops) IN
         /\ p \in Queues /\ Holds(p, q, {})
         /\ \A x \in ToSet(p) : x \in ToSet(q) \/ (x \in ToSet(ops) /\ IsObserved(x))
         /\ \A x \in Markers : x \in ToSet(ops) /\ IsObserved(x) => x \in ToSet(p)
         /\ \A x, y \in Markers : After(ops, x, y) /\ IsObserved(x) /\ IsObserved(y) => After(p, x, y)
         /\ (\A i \in DOMAIN ops : ~IsObserved(ops[i])) => p = q
<1> DEFINE n == Len(ops)
           Heard(k) == {ops[i] : i \in {j \in 1..k : IsObserved(ops[j])}}
           Good(k, p) ==
             /\ p \in Queues /\ Holds(p, q, {})
             /\ \A x \in ToSet(p) : x \in ToSet(q) \/ x \in Heard(k)
             /\ \A x \in Markers : x \in Heard(k) => x \in ToSet(p)
             /\ \A i, j \in 1..k : /\ i < j /\ ops[i] \in Markers /\ ops[j] \in Markers
                                   /\ IsObserved(ops[i]) /\ IsObserved(ops[j])
                                   => After(p, ops[i], ops[j])
             /\ Heard(k) = {} => p = q
<1>1. n \in Nat /\ DOMAIN ops = 1..n /\ \A i \in 1..n : ops[i] \in Entries
      OBVIOUS
<1>2. q \in Seq(Entries)
      BY DEF Queues
<1>3. PICK h \in [0..n -> Seq(Entries)] :
            /\ h[0] = q
            /\ \A k \in 1..n : h[k] = observe(h[k - 1], ops[k])
            /\ FoldLeft(observe, q, ops) = h[n]
      BY <1>2, ObserveFolds
<1> DEFINE Done == {k \in Nat : k <= n => Good(k, h[k])}
<1>4. 0 \in Done
  <2>1. 1..0 = {}
        OBVIOUS
  <2>2. Good(0, q)
        BY <2>1 DEF Holds
  <2> QED BY <1>3, <2>2
<1>5. ASSUME NEW k \in Nat, k \in Done PROVE k + 1 \in Done
  <2> HIDE DEF Good
  <2> SUFFICES ASSUME k + 1 <= n PROVE Good(k + 1, h[k + 1])
      OBVIOUS
  <2> DEFINE o == ops[k + 1]
             p == h[k]
  <2>1. k + 1 \in 1..n /\ (k + 1) - 1 = k /\ Good(k, p) /\ o \in Entries
    <3>1. k + 1 \in 1..n /\ (k + 1) - 1 = k /\ k <= n
          BY <1>1
    <3> HIDE DEF n
    <3> QED BY <1>1, <1>5, <3>1
  <2> USE DEF Good
  <2>2. h[k + 1] = observe(p, o)
        BY <1>3, <2>1
  <2>3. \A i \in 1..(k + 1) : i = k + 1 \/ (i \in 1..k /\ i # k + 1)
        BY <1>5
  <2>4. 1..k \subseteq 1..(k + 1) /\ 1..k \subseteq 1..n /\ k + 1 \in 1..(k + 1)
        BY <1>1, <2>1
  <2> HIDE DEF o, p, n
  <2>5. CASE ~IsObserved(o)
    <3>1. h[k + 1] = p
          BY <2>2, <2>5 DEF observe
    <3>2. Heard(k + 1) = Heard(k)
          BY <2>3, <2>4, <2>5 DEF o
    <3>3. \A i, j \in 1..(k + 1) : IsObserved(ops[i]) /\ IsObserved(ops[j]) => i \in 1..k /\ j \in 1..k
          BY <2>3, <2>5 DEF o
    <3> HIDE DEF Heard
    <3> QED BY <2>1, <3>1, <3>2, <3>3
  <2>6. CASE IsObserved(o)
    <3>1. h[k + 1] = enqueue(p, o)
          BY <2>2, <2>6 DEF observe
    <3>2. Heard(k + 1) = Heard(k) \union {o}
          BY <2>3, <2>4, <2>6 DEF o
    <3>3. o \in Markers => o \notin Heard(k) /\ o \notin ToSet(q)
      <4> SUFFICES ASSUME o \in Markers PROVE o \notin Heard(k) /\ o \notin ToSet(q)
          OBVIOUS
      <4>1. \A i \in 1..k : ops[i] # o
            BY <1>1, <2>1, <2>3, <2>4 DEF Unique, o, n
      <4>2. o \in ToSet(ops)
            BY <1>1, <2>1 DEF ToSet, o
      <4> QED BY <4>1, <4>2
    <3> HIDE DEF Heard
    <3>4. o \in Markers => o \notin ToSet(p)
          BY <2>1, <3>3
    <3>5. /\ enqueue(p, o) \in Queues /\ ToSet(enqueue(p, o)) \subseteq ToSet(p) \union {o}
          /\ Holds(enqueue(p, o), p, {})
          /\ o \in Markers => /\ o \in ToSet(enqueue(p, o))
                              /\ \A x \in Markers : x \in ToSet(p) => After(enqueue(p, o), x, o)
          BY <2>1, <3>4, EnqueueKeeps
    <3>6. Holds(enqueue(p, o), q, {})
          BY <2>1, <3>5 DEF Holds
    <3>7. \A x \in ToSet(enqueue(p, o)) : x \in ToSet(q) \/ x \in Heard(k + 1)
          BY <2>1, <3>2, <3>5
    <3>8. \A x \in Markers : x \in Heard(k + 1) => x \in ToSet(enqueue(p, o))
          BY <2>1, <3>2, <3>5 DEF Holds
    <3>9. ASSUME NEW i \in 1..(k + 1), NEW j \in 1..(k + 1), i < j, ops[i] \in Markers, ops[j] \in Markers,
                 IsObserved(ops[i]), IsObserved(ops[j])
          PROVE  After(enqueue(p, o), ops[i], ops[j])
      <4>1. i \in 1..k
            BY <2>3, <3>9
      <4>2. CASE j = k + 1
        <5>1. ops[i] \in Heard(k)
              BY <3>9, <4>1 DEF Heard
        <5>2. ops[i] \in ToSet(p)
              BY <2>1, <3>9, <5>1
        <5> QED BY <3>5, <3>9, <4>2, <5>2 DEF o
      <4>3. CASE j # k + 1
        <5>1. After(p, ops[i], ops[j])
              BY <2>1, <2>3, <3>9, <4>1, <4>3
        <5> QED BY <3>5, <3>9, <5>1 DEF Holds
      <4> QED BY <4>2, <4>3
    <3>10. Heard(k + 1) # {}
          BY <3>2
    <3> QED BY <3>1, <3>5, <3>6, <3>7, <3>8, <3>9, <3>10
  <2> QED BY <2>5, <2>6
<1>6. Good(n, h[n])
  <2> HIDE DEF Done, Good
  <2>1. Nat \subseteq Done
        BY <1>4, <1>5, Inductive
  <2> QED BY <1>1, <2>1 DEF Done
<1>7. \A x : x \in Heard(n) <=> x \in ToSet(ops) /\ IsObserved(x)
      BY <1>1 DEF ToSet
<1>8. (\A i \in DOMAIN ops : ~IsObserved(ops[i])) => Heard(n) = {}
      BY <1>1
<1>9. ASSUME NEW x \in Markers, NEW y \in Markers, After(ops, x, y), IsObserved(x), IsObserved(y)
      PROVE  After(h[n], x, y)
      BY <1>1, <1>6, <1>9 DEF After
<1> HIDE DEF Heard, n
<1> QED BY <1>3, <1>6, <1>7, <1>8, <1>9

-----------------------------------------------------------------------------
(* The rows.                                                               *)

\* What the operations of the queue make of one conversation's row.
LEMMA WritesKeep ==
  ASSUME NEW r \in Tables, NEW q \in Seq(Entries), NEW s \in Sockets
  PROVE  LET w == FoldLeft(write, r, q) IN
         /\ w \in Tables
         /\ r[s].outcome # "active" \/ Observed("finish", s) \notin ToSet(q) => w[s].outcome = r[s].outcome
         /\ r[s].outcome = "active" /\ Observed("finish", s) \in ToSet(q) =>
               /\ w[s].outcome \in {"completed", "error"}
               /\ w[s].outcome = "completed" /\ Unique(q) => ~After(q, Observed("error", s), Observed("finish", s))
<1> DEFINE n == Len(q)
           f == Observed("finish", s)
           e == Observed("error", s)
           Good(k, v) ==
             /\ r[s].outcome # "active" => v.outcome = r[s].outcome
             /\ (\A j \in 1..k : q[j] # f) => v.outcome = r[s].outcome
             /\ r[s].outcome = "active" =>
                  /\ (\E j \in 1..k : q[j] = f) => v.outcome \in {"completed", "error"}
                  /\ v.outcome = "active" /\ (\E j \in 1..k : q[j] = e) => v.error
                  /\ v.outcome = "completed" => \E j \in 1..k : q[j] = f /\ \A i \in 1..k : i < j => q[i] # e
<1>1. n \in Nat /\ DOMAIN q = 1..n /\ \A i \in 1..n : q[i] \in Entries
      OBVIOUS
<1>2. PICK h \in [0..n -> Tables] :
            /\ h[0] = r
            /\ \A k \in 1..n : h[k] = write(h[k - 1], q[k])
            /\ FoldLeft(write, r, q) = h[n]
      BY WriteFolds
<1> DEFINE Done == {k \in Nat : k <= n => Good(k, h[k][s])}
<1>3. 0 \in Done
  <2>1. 1..0 = {}
        OBVIOUS
  <2>2. Good(0, r[s])
        BY <2>1
  <2> HIDE DEF Good
  <2> QED BY <1>2, <2>2
<1>4. ASSUME NEW k \in Nat, k \in Done PROVE k + 1 \in Done
  <2> HIDE DEF Good
  <2> SUFFICES ASSUME k + 1 <= n PROVE Good(k + 1, h[k + 1][s])
      OBVIOUS
  <2> DEFINE o == q[k + 1]
             v == h[k]
             u == h[k + 1]
  <2>1. k + 1 \in 1..n /\ k \in 0..n /\ (k + 1) - 1 = k /\ k <= n
        BY <1>1
  <2>2. Good(k, v[s]) /\ o \in Entries /\ v \in Tables
    <3> HIDE DEF n
    <3> QED BY <1>1, <1>4, <2>1
  <2>3. u = write(v, o)
        BY <1>2, <2>1
  <2>4. \A i \in 1..(k + 1) : i = k + 1 \/ (i \in 1..k /\ i # k + 1)
        BY <1>4
  <2>5. 1..k \subseteq 1..(k + 1) /\ k + 1 \in 1..(k + 1) /\ (\A i \in 1..k : i < k + 1) /\ (\A i \in 1..k : ~(k + 1 < i))
        BY <1>4
  <2> HIDE DEF o, v, u, n, f, e
  <2> SUFFICES Good(k + 1, u[s])
      BY DEF u
  <2>6. /\ o = f /\ v[s].outcome = "active" =>
             u[s].outcome = IF v[s].error THEN "error" ELSE "completed"
        /\ o = f /\ v[s].outcome # "active" => u[s] = v[s]
        /\ o = e => u[s].error = TRUE /\ u[s].outcome = v[s].outcome
        /\ o # f => u[s].outcome = v[s].outcome
        /\ v[s].error => u[s].error
        /\ e # f
        BY <2>2, <2>3 DEF write, Observed, Tables, RowRecords, Entries, e, f
  <2>7. v[s] \in RowRecords /\ u[s] \in RowRecords
        BY <2>2, <2>3, WriteKeeps DEF Tables
  <2> USE DEF Good
  <2>8. CASE o = f
    <3>1. q[k + 1] = f /\ \E j \in 1..(k + 1) : q[j] = f
          BY <2>5, <2>8 DEF o
    <3>2. CASE r[s].outcome # "active"
      <4>1. u[s].outcome = r[s].outcome
            BY <2>2, <2>6, <2>8, <3>2
      <4> QED BY <3>1, <3>2, <4>1
    <3>3. CASE r[s].outcome = "active" /\ v[s].outcome # "active"
      <4>1. u[s] = v[s]
            BY <2>6, <2>8, <3>3
      <4>2. \E j \in 1..k : q[j] = f
            BY <2>2, <3>3
      <4>3. v[s].outcome \in {"completed", "error"}
            BY <2>2, <3>3, <4>2
      <4>4. ASSUME v[s].outcome = "completed"
            PROVE  \E j \in 1..(k + 1) : q[j] = f /\ \A i \in 1..(k + 1) : i < j => q[i] # e
        <5>1. PICK j \in 1..k : q[j] = f /\ \A i \in 1..k : i < j => q[i] # e
              BY <2>2, <3>3, <4>4
        <5>2. \A i \in 1..(k + 1) : i < j => q[i] # e
              BY <2>4, <2>5, <5>1
        <5> QED BY <2>5, <5>1, <5>2
      <4> QED BY <3>1, <3>3, <4>1, <4>3, <4>4
    <3>4. CASE r[s].outcome = "active" /\ v[s].outcome = "active"
      <4>1. u[s].outcome = IF v[s].error THEN "error" ELSE "completed"
            BY <2>6, <2>8, <3>4
      <4>2. ASSUME u[s].outcome = "completed"
            PROVE  \A i \in 1..(k + 1) : i < k + 1 => q[i] # e
        <5>1. ~v[s].error
              BY <4>1, <4>2
        <5>2. \A i \in 1..k : q[i] # e
              BY <2>2, <3>4, <5>1
        <5> QED BY <2>4, <5>2
      <4> QED BY <2>5, <3>1, <3>4, <4>1, <4>2
    <3> QED BY <3>2, <3>3, <3>4
  <2>9. CASE o # f
    <3>1. u[s].outcome = v[s].outcome
          BY <2>6, <2>9
    <3>2. \A j \in 1..(k + 1) : q[j] = f => j \in 1..k
          BY <2>4, <2>9 DEF o
    <3>3. ASSUME r[s].outcome = "active", u[s].outcome = "active", \E j \in 1..(k + 1) : q[j] = e
          PROVE  u[s].error
      <4>1. CASE o = e
            BY <2>6, <4>1
      <4>2. CASE o # e
        <5>1. \E j \in 1..k : q[j] = e
              BY <2>4, <3>3, <4>2 DEF o
        <5>2. v[s].error
              BY <2>2, <3>1, <3>3, <5>1
        <5> QED BY <2>6, <5>2
      <4> QED BY <4>1, <4>2
    <3>4. ASSUME r[s].outcome = "active", u[s].outcome = "completed"
          PROVE  \E j \in 1..(k + 1) : q[j] = f /\ \A i \in 1..(k + 1) : i < j => q[i] # e
      <4>1. PICK j \in 1..k : q[j] = f /\ \A i \in 1..k : i < j => q[i] # e
            BY <2>2, <3>1, <3>4
      <4>2. \A i \in 1..(k + 1) : i < j => q[i] # e
            BY <2>4, <2>5, <4>1
      <4> QED BY <2>5, <4>1, <4>2
    <3>5. (\E j \in 1..(k + 1) : q[j] = f) => \E j \in 1..k : q[j] = f
          BY <3>2
    <3>6. (\A j \in 1..(k + 1) : q[j] # f) => \A j \in 1..k : q[j] # f
          BY <2>5
    <3> QED BY <2>2, <3>1, <3>3, <3>4, <3>5, <3>6
  <2> QED BY <2>8, <2>9
<1>5. Good(n, h[n][s]) /\ h[n] \in Tables
  <2> HIDE DEF Done, Good
  <2>1. Nat \subseteq Done
        BY <1>3, <1>4, Inductive
  <2>2. n \in 0..n /\ n <= n /\ n \in Done
        BY <1>1, <2>1
  <2> QED BY <2>2 DEF Done
<1>6. f \in ToSet(q) <=> \E j \in 1..n : q[j] = f
      BY <1>1 DEF ToSet
<1>7. ASSUME r[s].outcome = "active", h[n][s].outcome = "completed", Unique(q), After(q, e, f) PROVE FALSE
  <2>1. PICK j \in 1..n : q[j] = f /\ \A i \in 1..n : i < j => q[i] # e
        BY <1>5, <1>7
  <2>2. PICK i \in 1..n, l \in 1..n : i < l /\ q[i] = e /\ q[l] = f
        BY <1>1, <1>7 DEF After
  <2>3. f \in Markers
        BY DEF Markers, Observed
  <2>4. j = l
        BY <1>1, <1>7, <2>1, <2>2, <2>3 DEF Unique
  <2> QED BY <2>1, <2>2, <2>4
<1> HIDE DEF n, f, e
<1>8. r[s].outcome # "active" \/ f \notin ToSet(q) => h[n][s].outcome = r[s].outcome
      BY <1>5, <1>6
<1>9. r[s].outcome = "active" /\ f \in ToSet(q) => h[n][s].outcome \in {"completed", "error"}
      BY <1>5, <1>6
<1> QED BY <1>2, <1>5, <1>7, <1>8, <1>9 DEF f, e

\* What a session that stops puts into the queue, after the events of the same step.
LEMMA EndingIs ==
  ASSUME NEW before \in Seq(Entries), ToSet(before) \intersect Markers = {}, NEW s \in Sockets,
         NEW reason \in {"stopped", "failed", "crashed"}
  PROVE  LET ops == before \o Ending(s, reason) IN
         /\ ops \in Seq(Entries) /\ Unique(ops)
         /\ \A x \in Markers : x \in ToSet(ops) => x.of = s
         /\ Observed("finish", s) \in ToSet(ops)
         /\ reason = "failed" => After(ops, Observed("error", s), Observed("finish", s))
<1> DEFINE ops == before \o Ending(s, reason)
           m == Len(before)
           e == Observed("error", s)
           f == Observed("finish", s)
<1>1. e \in Markers /\ f \in Markers /\ e # f /\ e.of = s /\ f.of = s /\ e \in Entries /\ f \in Entries
      BY DEF Observed, Markers, Entries
<1>2. m \in Nat /\ DOMAIN before = 1..m /\ \A i \in 1..m : before[i] \in Entries /\ before[i] \notin Markers
      BY DEF ToSet
<1> HIDE DEF e, f
<1>3. CASE reason = "failed"
  <2> DEFINE last == <<e>> \o <<f>>
  <2>0. Ending(s, reason) = last
        BY <1>3 DEF Ending, e, f
  <2>1. last \in Seq(Entries) /\ Len(last) = 2 /\ last[1] = e /\ last[2] = f
        BY <1>1
  <2> HIDE DEF last
  <2>2. /\ ops \in Seq(Entries) /\ Len(ops) = m + 2 /\ \A i \in 1..m : ops[i] = before[i]
        /\ ops[m + 1] = e /\ ops[m + 2] = f
    <3>1. ops = before \o last /\ 1 \in 1..2 /\ 2 \in 1..2
          BY <2>0
    <3>2. /\ before \o last \in Seq(Entries) /\ Len(before \o last) = m + Len(last)
          /\ \A i \in 1..m : (before \o last)[i] = before[i]
          /\ \A i \in 1..Len(last) : (before \o last)[m + i] = last[i]
          BY <2>1, JoinIs
    <3> QED BY <2>1, <3>1, <3>2
  <2>3. DOMAIN ops = 1..(m + 2) /\ \A i \in 1..(m + 2) : i \in 1..m \/ i = m + 1 \/ i = m + 2
        BY <1>2, <2>2
  <2>4. m + 1 \in 1..(m + 2) /\ m + 2 \in 1..(m + 2) /\ m + 1 < m + 2
        BY <1>2
  <2> HIDE DEF ops, m
  <2>5. Unique(ops)
        BY <1>1, <1>2, <2>2, <2>3 DEF Unique
  <2>6. \A x \in Markers : x \in ToSet(ops) => x.of = s
        BY <1>1, <1>2, <2>2, <2>3 DEF ToSet
  <2>7. f \in ToSet(ops) /\ After(ops, e, f)
        BY <2>2, <2>3, <2>4 DEF ToSet, After
  <2> QED BY <2>2, <2>5, <2>6, <2>7 DEF ops, e, f
<1>4. CASE reason # "failed"
  <2>1. Ending(s, reason) = <<>> \o <<f>> /\ <<>> \o <<f>> = <<f>>
        BY <1>1, <1>4 DEF Ending, f
  <2>2. /\ ops \in Seq(Entries) /\ Len(ops) = m + 1 /\ \A i \in 1..m : ops[i] = before[i]
        /\ ops[m + 1] = f
        BY <1>1, <1>2, <2>1
  <2>3. DOMAIN ops = 1..(m + 1) /\ \A i \in 1..(m + 1) : i \in 1..m \/ i = m + 1
        BY <1>2, <2>2
  <2>4. m + 1 \in 1..(m + 1)
        BY <1>2
  <2> HIDE DEF ops, m
  <2>5. Unique(ops)
        BY <1>1, <1>2, <2>2, <2>3 DEF Unique
  <2>6. \A x \in Markers : x \in ToSet(ops) => x.of = s
        BY <1>1, <1>2, <2>2, <2>3 DEF ToSet
  <2>7. f \in ToSet(ops)
        BY <2>2, <2>3, <2>4 DEF ToSet
  <2> QED BY <1>4, <2>2, <2>5, <2>6, <2>7 DEF ops, f
<1> QED BY <1>3, <1>4

\* What stop() puts into the queue: one ending of each session that ran.
LEMMA EndingsAre ==
  ASSUME IsFiniteSet(Running)
  PROVE  LET ops == FoldSet(LAMBDA s, l : l \o Ending(s, "stopped"), <<>>, Running) IN
         /\ ops \in Seq(Entries) /\ Unique(ops)
         /\ \A x : x \in ToSet(ops) <=> \E s \in Running : x = Observed("finish", s)
<1> DEFINE S == Running
           pick == [T \in SUBSET S |-> CHOOSE x \in T : TRUE]
           step == [p \in S \X Seq(Entries) |-> p[2] \o Ending(p[1], "stopped")]
<1>1. S \subseteq Sockets /\ IsFiniteSet(S)
      BY DEF Running
<1>2. \A T \in SUBSET S : T # {} => pick[T] \in T
      OBVIOUS
<1>3. ASSUME NEW s \in S, NEW l \in Seq(Entries)
      PROVE  /\ l \o Ending(s, "stopped") = Append(l, Observed("finish", s))
             /\ Observed("finish", s) \in Entries /\ l \o Ending(s, "stopped") \in Seq(Entries)
  <2> DEFINE f == Observed("finish", s)
  <2>1. f \in Entries
        BY <1>1 DEF Observed, Entries
  <2>2. Ending(s, "stopped") = <<>> \o <<f>>
        BY DEF Ending
  <2> HIDE DEF f
  <2>3. <<>> \o <<f>> = <<f>>
        BY <2>1
  <2>4. l \o <<f>> = Append(l, f) /\ Append(l, f) \in Seq(Entries)
        BY <2>1
  <2> QED BY <2>1, <2>2, <2>3, <2>4 DEF f
<1>4. \A s \in S, l \in Seq(Entries) : step[<<s, l>>] \in Seq(Entries)
      BY <1>3
<1>5. PICK g \in [SUBSET S -> Seq(Entries)] : Folds(g, S, <<>>, pick, step)
  <2>1. <<>> \in Seq(Entries)
        OBVIOUS
  <2> HIDE DEF S, pick, step
  <2> QED BY <1>1, <1>2, <1>4, <2>1, FoldExists
<1>6. ASSUME NEW T \in SUBSET S
      PROVE  g[T] = IF T = {} THEN <<>> ELSE g[T \ {CHOOSE x \in T : TRUE}] \o Ending(CHOOSE x \in T : TRUE, "stopped")
  <2>1. CASE T # {}
    <3>1. pick[T] \in S /\ g[T \ {pick[T]}] \in Seq(Entries)
          BY <1>2, <2>1
    <3>2. g[T] = step[<<pick[T], g[T \ {pick[T]}]>>]
          BY <1>5, <2>1 DEF Folds
    <3> QED BY <2>1, <3>1, <3>2
  <2> QED BY <1>5, <2>1 DEF Folds
<1>7. g = [T \in SUBSET S |-> IF T = {} THEN <<>> ELSE g[T \ {CHOOSE x \in T : TRUE}] \o Ending(CHOOSE x \in T : TRUE, "stopped")]
      BY <1>6
<1> DEFINE it == CHOOSE f : f = [T \in SUBSET S |-> IF T = {} THEN <<>>
                                    ELSE f[T \ {CHOOSE x \in T : TRUE}] \o Ending(CHOOSE x \in T : TRUE, "stopped")]
<1>8. it = [T \in SUBSET S |-> IF T = {} THEN <<>>
                               ELSE it[T \ {CHOOSE x \in T : TRUE}] \o Ending(CHOOSE x \in T : TRUE, "stopped")]
  <2> HIDE DEF S
  <2> QED BY <1>7
<1>9. FoldSet(LAMBDA s, l : l \o Ending(s, "stopped"), <<>>, S) = it[S]
      BY DEF FoldSet, MapThenFoldSet
<1> HIDE DEF it
<1> DEFINE Good(T) == /\ it[T] \in Seq(Entries) /\ Unique(it[T])
                      /\ \A x : x \in ToSet(it[T]) <=> \E s \in T : x = Observed("finish", s)
           R == {T \in SUBSET S : Good(T)}
<1>10. {} \in R
  <2>1. it[{}] = <<>>
        BY <1>8
  <2>2. DOMAIN <<>> = {} /\ <<>> \in Seq(Entries)
        OBVIOUS
  <2> QED BY <2>1, <2>2 DEF Unique, ToSet
<1>11. ASSUME NEW T \in SUBSET S, T # {} PROVE \E x \in T : T \ {x} \in R => T \in R
  <2> DEFINE x == CHOOSE y \in T : TRUE
             l == it[T \ {x}]
  <2>1. x \in T /\ x \in S
        BY <1>11
  <2> SUFFICES ASSUME T \ {x} \in R PROVE Good(T)
      BY <2>1
  <2>2. it[T] = l \o Ending(x, "stopped") /\ l \in Seq(Entries) /\ Good(T \ {x})
    <3> HIDE DEF Good
    <3>1. it[T] = l \o Ending(x, "stopped")
      <4> HIDE DEF S
      <4> QED BY <1>8, <1>11
    <3>2. Good(T \ {x})
          OBVIOUS
    <3> USE DEF Good
    <3> QED BY <3>1, <3>2
  <2> DEFINE f == Observed("finish", x)
             n == Len(l)
  <2> HIDE DEF x, l
  <2>3. it[T] = Append(l, f) /\ f \in Entries
        BY <1>3, <2>1, <2>2
  <2>4. \A y : y \in ToSet(l) => y # f
    <3>1. ASSUME NEW s \in T \ {x} PROVE Observed("finish", s) # f
          BY DEF Observed
    <3> QED BY <2>2, <3>1 DEF l
  <2>5. n \in Nat /\ DOMAIN l = 1..n /\ Unique(l)
        BY <2>2 DEF l
  <2> HIDE DEF f, n
  <2>6. /\ Append(l, f) \in Seq(Entries) /\ DOMAIN Append(l, f) = 1..(n + 1) /\ Append(l, f)[n + 1] = f
        /\ \A k \in 1..n : Append(l, f)[k] = l[k]
        BY <2>2, <2>3, <2>5 DEF n
  <2>7. \A k \in 1..(n + 1) : k = n + 1 \/ k \in 1..n
        BY <2>5
  <2>8. 1..n \subseteq 1..(n + 1) /\ n + 1 \in 1..(n + 1)
        BY <2>5
  <2>9. Unique(Append(l, f))
        BY <2>4, <2>5, <2>6, <2>7 DEF Unique, ToSet
  <2>10. ToSet(Append(l, f)) = ToSet(l) \union {f}
        BY <2>5, <2>6, <2>7, <2>8 DEF ToSet
  <2>11. \A y : y \in ToSet(l) <=> \E s \in T \ {x} : y = Observed("finish", s)
        BY <2>2 DEF l
  <2>12. \A y : y \in ToSet(Append(l, f)) <=> \E s \in T : y = Observed("finish", s)
        BY <2>1, <2>10, <2>11 DEF f
  <2> QED BY <2>3, <2>6, <2>9, <2>12
<1>12. S \in R
  <2> HIDE DEF S, R, Good, pick, step
  <2>1. \A T \in SUBSET S : T # {} => \E x \in T : T \ {x} \in R => T \in R
        BY <1>11
  <2>2. IsFiniteSet(S) /\ {} \in R
        BY <1>1, <1>10
  <2> HIDE DEF it
  <2> QED BY ONLY <2>1, <2>2, FiniteInductive
<1> QED BY <1>9, <1>12

-----------------------------------------------------------------------------
(* The gateway's invariant.                                                *)

ServerSpec == ServerInit /\ [][ServerNext]_serverVars

Done(s) == life[s] \in {"stopping", "over"}

\* Who was claimed, who has ended, and who still may start.
ClaimsPart ==
    \A s \in Sockets :
        /\ rows[s].outcome # "none" => s \in traced
        /\ s \in traced => life[s] # "none"
        /\ why[s] # "none" => Done(s)
        /\ door[s] = "resolving" => life[s] = "none"
        /\ phase = "down" => life[s] \in {"none", "over"}

\* What is in the queue: no marker twice, and those only of sessions that have stopped.
QueuePart ==
    /\ queue \in Queues
    /\ StoreIsClosed => queue = <<>>
    /\ queue # <<>> => armed
    /\ \A x \in Markers : x \in ToSet(queue) => Done(x.of)

\* What the rows and the queue say together; a failure is marked before the ending.
EndingsPart ==
    \A s \in Sockets \ lost :
        /\ rows[s].outcome = "active" /\ Done(s) /\ ~StoreIsClosed => Observed("finish", s) \in ToSet(queue)
        /\ rows[s].outcome \notin {"none", "active"} => Done(s)
        /\ rows[s].outcome = "completed" => why[s] # "failed"
        /\ rows[s].outcome = "active" /\ why[s] = "failed" /\ ~StoreIsClosed =>
              After(queue, Observed("error", s), Observed("finish", s))

ServerInv == ServerTypeOK /\ ClaimsPart /\ QueuePart /\ EndingsPart

\* A step that puts something into the queue, and stops at most the sessions it marks.
LEMMA EnqueuesKeep ==
  ASSUME ServerInv, NEW ops \in Seq(Entries), Unique(ops), Enqueues(ops), UNCHANGED <<traced, rows, lost>>,
         phase' = phase \/ (phase = "up" /\ phase' = "draining"),
         \A x \in Markers : x \in ToSet(ops) => life[x.of] = "running" /\ life'[x.of] \in {"stopping", "over"},
         \A s \in Sockets :
            \/ life'[s] = life[s] /\ why'[s] = why[s]
            \/ life[s] = "stopping" /\ life'[s] = "over" /\ why'[s] = why[s]
            \/ /\ life[s] = "running" /\ life'[s] \in {"stopping", "over"}
               /\ Observed("finish", s) \in ToSet(ops)
               /\ why'[s] = "failed" => After(ops, Observed("error", s), Observed("finish", s))
  PROVE  QueuePart' /\ EndingsPart'
<1> DEFINE f(s) == Observed("finish", s)
           e(s) == Observed("error", s)
<1>1. /\ queue \in Queues /\ (StoreIsClosed => queue = <<>>) /\ (queue # <<>> => armed)
      /\ \A x \in Markers : x \in ToSet(queue) => x.of \in Sockets /\ Done(x.of)
      BY DEF ServerInv, QueuePart, Markers
<1>2. \A x \in Markers : x \in ToSet(ops) => x \notin ToSet(queue)
      BY <1>1 DEF Done
<1>3. queue' = FoldLeft(observe, queue, ops) /\ (armed' = (armed \/ \E i \in DOMAIN ops : IsObserved(ops[i])))
      BY DEF Enqueues
<1>4. /\ queue' \in Queues /\ Holds(queue', queue, {})
      /\ \A x \in ToSet(queue') : x \in ToSet(queue) \/ (x \in ToSet(ops) /\ IsObserved(x))
      /\ \A x \in Markers : x \in ToSet(ops) /\ IsObserved(x) => x \in ToSet(queue')
      /\ \A x, y \in Markers : After(ops, x, y) /\ IsObserved(x) /\ IsObserved(y) => After(queue', x, y)
      /\ (\A i \in DOMAIN ops : ~IsObserved(ops[i])) => queue' = queue
      BY <1>1, <1>2, <1>3, ObservesKeep
<1>5. StoreIsClosed' <=> StoreIsClosed
      BY DEF StoreIsClosed
<1>6. StoreIsClosed => queue' = queue
      BY <1>4 DEF IsObserved
<1>7. \A s \in Sockets : f(s) \in Markers /\ e(s) \in Markers /\ f(s).of = s /\ e(s).of = s
      BY DEF Markers, Observed
<1>8. \A s \in Sockets : Done(s) => Done(s)'
      BY DEF Done
<1>9. queue' # <<>> => armed'
      BY <1>1, <1>3, <1>4
<1>10. ASSUME NEW x \in Markers, x \in ToSet(queue') PROVE Done(x.of)'
  <2>1. CASE x \in ToSet(queue)
        BY <1>1, <1>8, <2>1
  <2>2. CASE x \in ToSet(ops)
        BY <2>2 DEF Done
  <2> QED BY <1>4, <1>10, <2>1, <2>2
<1>11. QueuePart'
      BY <1>1, <1>4, <1>5, <1>6, <1>9, <1>10 DEF QueuePart
<1>12. ASSUME NEW s \in Sockets \ lost
       PROVE  /\ rows[s].outcome = "active" /\ Done(s)' /\ ~StoreIsClosed => f(s) \in ToSet(queue')
              /\ rows[s].outcome \notin {"none", "active"} => Done(s)'
              /\ rows[s].outcome = "completed" => why'[s] # "failed"
              /\ rows[s].outcome = "active" /\ why'[s] = "failed" /\ ~StoreIsClosed => After(queue', e(s), f(s))
  <2>1. /\ rows[s].outcome = "active" /\ Done(s) /\ ~StoreIsClosed => f(s) \in ToSet(queue)
        /\ rows[s].outcome \notin {"none", "active"} => Done(s)
        /\ rows[s].outcome = "completed" => why[s] # "failed"
        /\ rows[s].outcome = "active" /\ why[s] = "failed" /\ ~StoreIsClosed => After(queue, e(s), f(s))
        /\ rows[s].outcome # "none" => s \in traced
        /\ why[s] # "none" => Done(s)
        BY DEF ServerInv, EndingsPart, ClaimsPart
  <2> HIDE DEF f, e
  <2>2. CASE why'[s] = why[s] /\ (Done(s)' => Done(s))
        BY <1>4, <1>7, <1>8, <2>1, <2>2 DEF Holds
  <2>3. CASE /\ life[s] = "running" /\ f(s) \in ToSet(ops)
             /\ why'[s] = "failed" => After(ops, e(s), f(s))
    <3>1. rows[s].outcome \in {"none", "active"}
          BY <2>1, <2>3 DEF Done
    <3>2. rows[s].outcome = "active" /\ ~StoreIsClosed => IsObserved(f(s)) /\ IsObserved(e(s))
          BY <1>7, <2>1 DEF IsObserved
    <3> QED BY <1>4, <1>7, <2>3, <3>1, <3>2
  <2> QED BY <2>2, <2>3 DEF Done, f, e
<1>13. EndingsPart'
      BY <1>5, <1>12 DEF EndingsPart
<1> QED BY <1>11, <1>13

\* A session stops: what its step puts into the queue, and what becomes of the others.
LEMMA StopsKeeps ==
  ASSUME ServerInv, NEW s \in Sockets, NEW reason \in {"stopped", "failed", "crashed"},
         NEW before \in Seq(Entries), ToSet(before) \intersect Markers = {},
         NEW next \in {"stopping", "over"}, Stops(s, reason, before, next),
         UNCHANGED <<phase, traced, rows, lost>>
  PROVE  /\ QueuePart' /\ EndingsPart' /\ armed' \in BOOLEAN
         /\ life' \in [Sockets -> {"none", "running", "stopping", "over"}]
         /\ why' \in [Sockets -> {"none", "stopped", "failed", "crashed"}]
         /\ \A u \in Sockets : /\ life'[u] = life[u] \/ (life[u] = "running" /\ life'[u] = next)
                               /\ why'[u] # "none" => Done(u)'
<1>1. /\ life \in [Sockets -> {"none", "running", "stopping", "over"}] /\ armed \in BOOLEAN
      /\ why \in [Sockets -> {"none", "stopped", "failed", "crashed"}]
      /\ \A u \in Sockets : why[u] # "none" => Done(u)
      BY DEF ServerInv, ServerTypeOK, ClaimsPart
<1>2. CASE life[s] = "running"
  <2> DEFINE ops == before \o Ending(s, reason)
  <2>1. /\ ops \in Seq(Entries) /\ Unique(ops)
        /\ \A x \in Markers : x \in ToSet(ops) => x.of = s
        /\ Observed("finish", s) \in ToSet(ops)
        /\ reason = "failed" => After(ops, Observed("error", s), Observed("finish", s))
        BY EndingIs
  <2>2. /\ life' = [life EXCEPT ![s] = next] /\ why' = [why EXCEPT ![s] = reason] /\ Enqueues(ops)
        BY <1>2 DEF Stops
  <2> HIDE DEF ops
  <2>3. QueuePart' /\ EndingsPart'
        BY <1>1, <1>2, <2>1, <2>2, EnqueuesKeep
  <2>4. armed' \in BOOLEAN
        BY <1>1, <2>2 DEF Enqueues
  <2> QED BY <1>1, <1>2, <2>2, <2>3, <2>4 DEF Done
<1>3. CASE life[s] # "running"
  <2>1. Enqueues(before) /\ UNCHANGED <<life, why>>
        BY <1>3 DEF Stops
  <2>2. Unique(before) /\ \A x \in Markers : x \notin ToSet(before)
        BY DEF Unique, ToSet
  <2>3. QueuePart' /\ EndingsPart'
        BY <2>1, <2>2, EnqueuesKeep
  <2>4. armed' \in BOOLEAN
        BY <1>1, <2>1 DEF Enqueues
  <2> QED BY <1>1, <2>1, <2>3, <2>4 DEF Done
<1> QED BY <1>2, <1>3

\* The queue is written, or lost.
LEMMA FlushesKeep ==
  ASSUME ServerInv, Flushes, phase \in {"up", "draining"}, phase' \in {phase, "closed"},
         UNCHANGED <<life, why, traced>>
  PROVE  /\ QueuePart' /\ EndingsPart' /\ armed' \in BOOLEAN
         /\ rows' \in Tables /\ lost' \subseteq Sockets /\ trouble' \in 0..MaxTrouble
         /\ \A s \in Sockets : rows'[s].outcome # "none" => rows[s].outcome # "none"
<1> DEFINE f(s) == Observed("finish", s)
           e(s) == Observed("error", s)
           \* What became of the rows of those that lost nothing.
           Written(s) ==
             /\ rows[s].outcome # "active" \/ f(s) \notin ToSet(queue) => rows'[s].outcome = rows[s].outcome
             /\ rows[s].outcome = "active" /\ f(s) \in ToSet(queue) /\ s \notin lost' =>
                   /\ rows'[s].outcome \in {"completed", "error"}
                   /\ rows'[s].outcome = "completed" => ~After(queue, e(s), f(s))
<1>1. /\ rows \in Tables /\ lost \subseteq Sockets /\ trouble \in 0..MaxTrouble /\ MaxTrouble \in Nat
      /\ queue \in Queues /\ queue \in Seq(Entries) /\ Unique(queue)
      BY ServerAssumption DEF ServerInv, ServerTypeOK, QueuePart, Queues, Tables, RowRecords
<1>2. \A s \in Sockets : f(s) \in Markers /\ e(s) \in Markers /\ f(s).of = s /\ e(s).of = s
      BY DEF Markers, Observed
<1>3. \A x \in Markers : Marker(x)
      BY DEF Markers, Marker
<1>4. ASSUME NEW s \in Sockets, rows' = FoldLeft(write, rows, queue), lost' = lost
      PROVE  rows' \in Tables /\ Written(s)
      BY <1>1, <1>4, WritesKeep
<1>5. ASSUME NEW s \in Sockets, NEW i \in DOMAIN queue, rows' = FoldLeft(write, rows, RemoveAt(queue, i)),
             lost' = lost \union MarkedIn(<<queue[i]>>)
      PROVE  rows' \in Tables /\ Written(s)
  <2> DEFINE p == RemoveAt(queue, i)
             x == queue[i]
  <2>1. p \in Queues /\ ToSet(p) \subseteq ToSet(queue) /\ Holds(p, queue, {x})
        BY <1>1, RemoveHolds
  <2>2. p \in Seq(Entries) /\ Unique(p)
        BY <2>1 DEF Queues
  <2> HIDE DEF p
  <2>3. /\ rows' \in Tables
        /\ rows[s].outcome # "active" \/ f(s) \notin ToSet(p) => rows'[s].outcome = rows[s].outcome
        /\ rows[s].outcome = "active" /\ f(s) \in ToSet(p) =>
              /\ rows'[s].outcome \in {"completed", "error"}
              /\ rows'[s].outcome = "completed" => ~After(p, e(s), f(s))
        BY <1>1, <1>5, <2>2, WritesKeep DEF p
  <2>4. s \notin lost' => x # f(s) /\ x # e(s)
    <3> SUFFICES ASSUME x = f(s) \/ x = e(s) PROVE s \in MarkedIn(<<x>>)
        BY <1>5
    <3>1. Marker(x) /\ x.of = s
          BY <1>2, <1>3
    <3> HIDE DEF x
    <3>2. 1 \in Indices(<<x>>, Marker) /\ <<x>>[1] = x
          BY <3>1 DEF Indices
    <3> QED BY <3>1, <3>2 DEF MarkedIn
  <2> HIDE DEF x
  <2>5. s \notin lost' => (f(s) \in ToSet(queue) => f(s) \in ToSet(p))
                          /\ (After(queue, e(s), f(s)) => After(p, e(s), f(s)))
        BY <1>2, <2>1, <2>4 DEF Holds
  <2> HIDE DEF f, e
  <2> QED BY <2>1, <2>3, <2>5
<1>6. ASSUME NEW s \in Sockets, rows' = rows, lost' = lost \union MarkedIn(queue)
      PROVE  rows' \in Tables /\ Written(s)
  <2>1. f(s) \in ToSet(queue) => s \in lost'
    <3> SUFFICES ASSUME f(s) \in ToSet(queue) PROVE s \in MarkedIn(queue)
        BY <1>6
    <3>1. PICK i \in DOMAIN queue : queue[i] = f(s)
          BY DEF ToSet
    <3> HIDE DEF f
    <3>2. i \in Indices(queue, Marker) /\ queue[i].of = s
          BY <1>2, <1>3, <3>1 DEF Indices
    <3> QED BY <3>2 DEF MarkedIn
  <2> QED BY <1>1, <1>6, <2>1
<1>7. /\ queue' = <<>> /\ armed' = FALSE
      /\ \/ rows' = FoldLeft(write, rows, queue) /\ UNCHANGED <<lost, trouble>>
         \/ /\ trouble < MaxTrouble /\ trouble' = trouble + 1
            /\ \/ \E i \in DOMAIN queue :
                     /\ rows' = FoldLeft(write, rows, RemoveAt(queue, i))
                     /\ lost' = lost \union MarkedIn(<<queue[i]>>)
               \/ UNCHANGED rows /\ lost' = lost \union MarkedIn(queue)
      BY DEF Flushes
<1>8. ASSUME NEW s \in Sockets PROVE rows' \in Tables /\ Written(s)
  <2> HIDE DEF Written
  <2> QED BY <1>4, <1>5, <1>6, <1>7
<1>9. rows' \in Tables
  <2>1. CASE Sockets = {}
    <3>1. rows' = rows \/ \E q \in Seq(Entries) : rows' = FoldLeft(write, rows, q)
      <4>1. \A i \in DOMAIN queue : RemoveAt(queue, i) \in Seq(Entries)
            BY <1>1, RemoveIs
      <4> QED BY <1>1, <1>7, <4>1
    <3>2. \A q \in Seq(Entries) : FoldLeft(write, rows, q) \in Tables
      <4> SUFFICES ASSUME NEW q \in Seq(Entries) PROVE FoldLeft(write, rows, q) \in Tables
          OBVIOUS
      <4>1. PICK h \in [0..Len(q) -> Tables] : FoldLeft(write, rows, q) = h[Len(q)]
            BY <1>1, WriteFolds
      <4> QED BY <4>1
    <3> QED BY <1>1, <3>1, <3>2
  <2>2. CASE Sockets # {}
    <3> HIDE DEF Written
    <3> QED BY <1>8, <2>2
  <2> QED BY <2>1, <2>2
<1>10. \A i \in DOMAIN queue : queue[i] \in Entries
      BY <1>1
<1>11. lost' \subseteq Sockets
  <2>1. MarkedIn(queue) \subseteq Sockets
        BY <1>10 DEF MarkedIn, Indices, Entries
  <2>2. ASSUME NEW i \in DOMAIN queue PROVE MarkedIn(<<queue[i]>>) \subseteq Sockets
    <3> DEFINE x == queue[i]
    <3>1. x.of \in Sockets
          BY <1>10 DEF Entries
    <3> HIDE DEF x
    <3>2. \A j \in DOMAIN <<x>> : <<x>>[j] = x
          OBVIOUS
    <3>3. MarkedIn(<<x>>) \subseteq Sockets
          BY <3>1, <3>2 DEF MarkedIn, Indices
    <3> QED BY <3>3 DEF x
  <2> QED BY <1>1, <1>7, <2>1, <2>2
<1>12. trouble' \in 0..MaxTrouble /\ lost \subseteq lost'
  <2>1. trouble' = trouble \/ (trouble < MaxTrouble /\ trouble' = trouble + 1)
        BY <1>7
  <2>2. lost \subseteq lost'
        BY <1>7
  <2> QED BY <1>1, <2>1, <2>2
<1>13. QueuePart'
  <2>1. <<>> \in Queues /\ ToSet(<<>>) = {}
    <3>1. <<>> \in Seq(Entries) /\ Len(<<>>) = 0 /\ DOMAIN <<>> = {}
          OBVIOUS
    <3> QED BY <3>1, ServerAssumption DEF Queues, Unique, ToSet
  <2> QED BY <1>7, <2>1 DEF QueuePart
<1>14. ASSUME NEW s \in Sockets \ lost'
       PROVE  /\ rows'[s].outcome = "active" => ~Done(s)
              /\ rows'[s].outcome \notin {"none", "active"} => Done(s)
              /\ rows'[s].outcome = "completed" => why[s] # "failed"
              /\ rows'[s].outcome = "active" => why[s] # "failed"
  <2>1. ~StoreIsClosed /\ s \notin lost
        BY <1>12 DEF StoreIsClosed
  <2>2. /\ rows[s].outcome = "active" /\ Done(s) => f(s) \in ToSet(queue)
        /\ rows[s].outcome \notin {"none", "active"} => Done(s)
        /\ rows[s].outcome = "completed" => why[s] # "failed"
        /\ rows[s].outcome = "active" /\ why[s] = "failed" => After(queue, e(s), f(s))
        /\ why[s] # "none" => Done(s)
        /\ \A x \in Markers : x \in ToSet(queue) => Done(x.of)
        BY <2>1 DEF ServerInv, EndingsPart, ClaimsPart, QueuePart
  <2>3. f(s) \in ToSet(queue) => Done(s)
        BY <1>2, <2>2
  <2>4. Written(s)
        BY <1>8
  <2> HIDE DEF f, e
  <2> QED BY <2>2, <2>3, <2>4
<1>15. EndingsPart'
  <2>1. \A s \in Sockets : Done(s)' <=> Done(s)
        BY DEF Done
  <2> QED BY <1>14, <2>1 DEF EndingsPart
<1>16. \A s \in Sockets : rows'[s].outcome # "none" => rows[s].outcome # "none"
  <2> HIDE DEF f, e
  <2> QED BY <1>8
<1> QED BY <1>7, <1>9, <1>11, <1>12, <1>13, <1>15, <1>16

\* A step that leaves the queue, the rows and how a session ended as they are.
LEMMA QuietKeeps ==
  ASSUME ServerInv, UNCHANGED <<phase, queue, armed, rows, lost, why, traced>>,
         \A s \in Sockets : Done(s)' <=> Done(s)
  PROVE  QueuePart' /\ EndingsPart'
<1>1. \A x \in Markers : x.of \in Sockets
      BY DEF Markers
<1>2. QueuePart'
      BY <1>1 DEF ServerInv, QueuePart, StoreIsClosed
<1>3. EndingsPart'
      BY DEF ServerInv, EndingsPart, StoreIsClosed
<1> QED BY <1>2, <1>3

\* One socket's steps.
LEMMA SocketKeeps ==
  ASSUME ServerInv, NEW s \in Sockets,
         \/ FirstCommand(s) \/ Refused(s) \/ Started(s) \/ StartFails(s) \/ Ends(s)
         \/ LoopFails(s) \/ LoopEnds(s) \/ SocketCloses(s)
         \/ \E agent \in BOOLEAN : Creates(s, agent)
         \/ \E type \in {"media", "event"} : Emits(s, type)
  PROVE  ServerInv'
<1>1. /\ phase \in {"up", "draining", "closed", "down"} /\ armed \in BOOLEAN
      /\ door \in [Sockets -> {"idle", "resolving", "starting", "in"}] /\ hungUp \subseteq Sockets
      /\ life \in [Sockets -> {"none", "running", "stopping", "over"}]
      /\ why \in [Sockets -> {"none", "stopped", "failed", "crashed"}]
      /\ traced \subseteq Sockets /\ lost \subseteq Sockets /\ trouble \in 0..MaxTrouble
      /\ emitted \in [Sockets -> 0..MaxEmitted] /\ rows \in Tables
      BY DEF ServerInv, ServerTypeOK, Tables, RowRecords
<1>2. MaxEmitted \in Nat /\ MaxTrouble \in Nat
      BY ServerAssumption
<1>3. \A u \in Sockets : /\ rows[u].outcome # "none" => u \in traced
                         /\ u \in traced => life[u] # "none"
                         /\ why[u] # "none" => Done(u)
                         /\ door[u] = "resolving" => life[u] = "none"
                         /\ phase = "down" => life[u] \in {"none", "over"}
      BY DEF ServerInv, ClaimsPart
<1>4. /\ <<Observed("event", s)>> \in Seq(Entries) /\ ToSet(<<Observed("event", s)>>) \intersect Markers = {}
      /\ <<Observed("media", s)>> \in Seq(Entries) /\ ToSet(<<Observed("media", s)>>) \intersect Markers = {}
      /\ <<Observed("failure", s)>> \in Seq(Entries) /\ ToSet(<<Observed("failure", s)>>) \intersect Markers = {}
      /\ <<>> \in Seq(Entries) /\ ToSet(<<>>) \intersect Markers = {}
  <2>1. ASSUME NEW type \in {"event", "media", "failure"}
        PROVE  <<Observed(type, s)>> \in Seq(Entries) /\ ToSet(<<Observed(type, s)>>) \intersect Markers = {}
    <3> DEFINE x == Observed(type, s)
    <3>1. x \in Entries /\ x \notin Markers
          BY DEF Observed, Entries, Markers
    <3> HIDE DEF x
    <3>2. <<x>> \in Seq(Entries) /\ \A i \in DOMAIN <<x>> : <<x>>[i] = x
          BY <3>1
    <3>3. ToSet(<<x>>) \intersect Markers = {}
          BY <3>1, <3>2 DEF ToSet
    <3> QED BY <3>2, <3>3 DEF x
  <2>2. <<>> \in Seq(Entries) /\ DOMAIN <<>> = {}
        OBVIOUS
  <2> QED BY <2>1, <2>2 DEF ToSet
\* Plain events put no marker into the queue.
<1>5. ASSUME NEW before \in Seq(Entries), ToSet(before) \intersect Markers = {}, Enqueues(before),
             UNCHANGED <<phase, traced, rows, lost, why>>,
             \A u \in Sockets : life'[u] = life[u] \/ (life[u] = "stopping" /\ life'[u] = "over")
      PROVE  QueuePart' /\ EndingsPart' /\ armed' \in BOOLEAN
  <2>1. Unique(before) /\ \A x \in Markers : x \notin ToSet(before)
        BY <1>5 DEF Unique, ToSet
  <2>2. QueuePart' /\ EndingsPart'
        BY <1>5, <2>1, EnqueuesKeep
  <2>3. armed' \in BOOLEAN
        BY <1>1, <1>5 DEF Enqueues
  <2> QED BY <2>2, <2>3
<1>6. ASSUME QueuePart', armed' \in BOOLEAN, phase' \in {"up", "draining", "closed", "down"},
             door' \in [Sockets -> {"idle", "resolving", "starting", "in"}], hungUp' \subseteq Sockets,
             life' \in [Sockets -> {"none", "running", "stopping", "over"}],
             why' \in [Sockets -> {"none", "stopped", "failed", "crashed"}],
             traced' \subseteq Sockets, lost' \subseteq Sockets, trouble' \in 0..MaxTrouble,
             emitted' \in [Sockets -> 0..MaxEmitted], rows' \in Tables
      PROVE  ServerTypeOK'
      BY <1>6 DEF ServerTypeOK, QueuePart, Queues, Tables, RowRecords
<1>7. CASE FirstCommand(s)
  <2>1. /\ door[s] = "idle" /\ life[s] = "none" /\ door' = [door EXCEPT ![s] = "resolving"]
        /\ UNCHANGED <<phase, hungUp, life, why, traced, emitted, rows, lost, trouble, queue, armed>>
        BY <1>7 DEF FirstCommand, sessions, store
  <2>2. QueuePart' /\ EndingsPart'
        BY <2>1, QuietKeeps DEF Done
  <2>3. ServerTypeOK'
        BY <1>1, <1>6, <2>1, <2>2
  <2>4. ClaimsPart'
        BY <1>1, <1>3, <2>1 DEF ClaimsPart, Done
  <2> QED BY <2>2, <2>3, <2>4 DEF ServerInv
<1>8. CASE Refused(s) \/ SocketCloses(s)
  <2>1. /\ door' = [door EXCEPT ![s] = "idle"] \/ door' = door
        /\ hungUp' = hungUp \union {s} \/ hungUp' = hungUp
        /\ UNCHANGED <<phase, life, why, traced, emitted, rows, lost, trouble, queue, armed>>
        BY <1>1, <1>8 DEF Refused, SocketCloses, sessions, store
  <2>2. QueuePart' /\ EndingsPart'
        BY <2>1, QuietKeeps DEF Done
  <2>3. ServerTypeOK'
        BY <1>1, <1>6, <2>1, <2>2
  <2>4. ClaimsPart'
        BY <1>1, <1>3, <2>1 DEF ClaimsPart, Done
  <2> QED BY <2>2, <2>3, <2>4 DEF ServerInv
<1>9. CASE LoopEnds(s)
  <2>1. /\ life[s] = "stopping" /\ life' = [life EXCEPT ![s] = "over"]
        /\ UNCHANGED <<phase, door, hungUp, why, traced, emitted, rows, lost, trouble, queue, armed>>
        BY <1>9 DEF LoopEnds, sockets, store
  <2>2. QueuePart' /\ EndingsPart'
        BY <1>1, <2>1, QuietKeeps DEF Done
  <2>3. ServerTypeOK'
        BY <1>1, <1>6, <2>1, <2>2
  <2>4. ClaimsPart'
        BY <1>1, <1>3, <2>1 DEF ClaimsPart, Done
  <2> QED BY <2>2, <2>3, <2>4 DEF ServerInv
<1>10. CASE \E type \in {"media", "event"} : Emits(s, type)
  <2>1. PICK type \in {"media", "event"} : Emits(s, type)
        BY <1>10
  <2>2. /\ Enqueues(<<Observed(type, s)>>) /\ emitted[s] < MaxEmitted
        /\ emitted' = [emitted EXCEPT ![s] = @ + 1]
        /\ UNCHANGED <<phase, door, hungUp, life, why, traced, rows, lost, trouble>>
        BY <2>1 DEF Emits, sockets, store
  <2>3. QueuePart' /\ EndingsPart' /\ armed' \in BOOLEAN
        BY <1>4, <1>5, <2>2
  <2>4. emitted' \in [Sockets -> 0..MaxEmitted]
        BY <1>1, <1>2, <2>2
  <2>5. ServerTypeOK'
        BY <1>1, <1>6, <2>2, <2>3, <2>4
  <2>6. ClaimsPart'
        BY <1>3, <2>2 DEF ClaimsPart, Done
  <2> QED BY <2>3, <2>5, <2>6 DEF ServerInv
\* A step that stops the session, or may.
<1>11. ASSUME NEW reason \in {"stopped", "failed", "crashed"}, NEW before \in Seq(Entries),
              ToSet(before) \intersect Markers = {}, NEW next \in {"stopping", "over"},
              Stops(s, reason, before, next), phase # "down",
              UNCHANGED <<phase, hungUp, traced, emitted, rows, lost, trouble>>,
              door' \in [Sockets -> {"idle", "resolving", "starting", "in"}],
              \A u \in Sockets : door'[u] = "resolving" => door[u] = "resolving"
       PROVE  ServerInv'
  <2>1. /\ QueuePart' /\ EndingsPart' /\ armed' \in BOOLEAN
        /\ life' \in [Sockets -> {"none", "running", "stopping", "over"}]
        /\ why' \in [Sockets -> {"none", "stopped", "failed", "crashed"}]
        /\ \A u \in Sockets : /\ life'[u] = life[u] \/ (life[u] = "running" /\ life'[u] = next)
                              /\ why'[u] # "none" => Done(u)'
        BY <1>11, StopsKeeps
  <2>2. ServerTypeOK'
        BY <1>1, <1>6, <1>11, <2>1
  <2>3. ClaimsPart'
        BY <1>3, <1>11, <2>1 DEF ClaimsPart
  <2> QED BY <2>1, <2>2, <2>3 DEF ServerInv
<1>12. CASE Started(s)
  <2>1. /\ phase # "down" /\ door' = [door EXCEPT ![s] = "in"]
        /\ IF s \in hungUp THEN Stops(s, "stopped", <<>>, "stopping")
           ELSE Enqueues(<<Observed("event", s)>>) /\ UNCHANGED <<life, why>>
        /\ UNCHANGED <<phase, hungUp, traced, emitted, rows, lost, trouble>>
        BY <1>12 DEF Started, Serving, store
  <2>2. /\ door' \in [Sockets -> {"idle", "resolving", "starting", "in"}]
        /\ \A u \in Sockets : door'[u] = "resolving" => door[u] = "resolving"
        BY <1>1, <2>1
  <2>3. CASE s \in hungUp
        BY <1>4, <1>11, <2>1, <2>2, <2>3
  <2>4. CASE s \notin hungUp
    <3>1. QueuePart' /\ EndingsPart' /\ armed' \in BOOLEAN
          BY <1>4, <1>5, <2>1, <2>4
    <3>2. ServerTypeOK'
          BY <1>1, <1>6, <2>1, <2>2, <2>4, <3>1
    <3>3. ClaimsPart'
          BY <1>3, <2>1, <2>2, <2>4 DEF ClaimsPart, Done
    <3> QED BY <3>1, <3>2, <3>3 DEF ServerInv
  <2> QED BY <2>3, <2>4
<1>13. CASE StartFails(s)
  <2>1. /\ phase # "down" /\ door' = [door EXCEPT ![s] = "in"]
        /\ Stops(s, "failed", <<Observed("event", s)>>, "over")
        /\ UNCHANGED <<phase, hungUp, traced, emitted, rows, lost, trouble>>
        BY <1>13 DEF StartFails, Serving, store
  <2>2. /\ door' \in [Sockets -> {"idle", "resolving", "starting", "in"}]
        /\ \A u \in Sockets : door'[u] = "resolving" => door[u] = "resolving"
        BY <1>1, <2>1
  <2> QED BY <1>4, <1>11, <2>1, <2>2
<1>14. CASE Ends(s)
  <2>1. /\ phase # "down" /\ Stops(s, "stopped", <<>>, "stopping")
        /\ UNCHANGED <<phase, door, hungUp, traced, emitted, rows, lost, trouble>>
        BY <1>14 DEF Ends, Serving, sockets, store
  <2> QED BY <1>1, <1>4, <1>11, <2>1
<1>15. CASE LoopFails(s)
  <2>1. /\ phase # "down" /\ life[s] \in {"running", "stopping"}
        /\ IF life[s] = "running" THEN Stops(s, "crashed", <<Observed("failure", s)>>, "over")
           ELSE /\ Enqueues(<<Observed("failure", s)>>)
                /\ life' = [life EXCEPT ![s] = "over"] /\ UNCHANGED why
        /\ UNCHANGED <<phase, door, hungUp, traced, emitted, rows, lost, trouble>>
        BY <1>15 DEF LoopFails, Serving, sockets, store
  <2>2. CASE life[s] = "running"
        BY <1>1, <1>4, <1>11, <2>1, <2>2
  <2>3. CASE life[s] = "stopping"
    <3>1. /\ Enqueues(<<Observed("failure", s)>>) /\ UNCHANGED why
          /\ life' = [life EXCEPT ![s] = "over"]
          BY <2>1, <2>3
    <3>2. /\ life' \in [Sockets -> {"none", "running", "stopping", "over"}]
          /\ \A u \in Sockets : life'[u] = life[u] \/ (life[u] = "stopping" /\ life'[u] = "over")
          BY <1>1, <2>3, <3>1
    <3>3. QueuePart' /\ EndingsPart' /\ armed' \in BOOLEAN
          BY <1>4, <1>5, <2>1, <3>1, <3>2
    <3>4. ServerTypeOK'
          BY <1>1, <1>6, <2>1, <3>1, <3>2, <3>3
    <3>5. ClaimsPart'
          BY <1>3, <2>1, <3>1, <3>2 DEF ClaimsPart, Done
    <3> QED BY <3>3, <3>4, <3>5 DEF ServerInv
  <2> QED BY <2>1, <2>2, <2>3
<1>16. CASE \E agent \in BOOLEAN : Creates(s, agent)
  <2>1. /\ phase # "down" /\ door[s] = "resolving"
        /\ door' = [door EXCEPT ![s] = "starting"] /\ life' = [life EXCEPT ![s] = "running"]
        /\ \/ /\ traced' = traced \union {s} /\ rows' = [rows EXCEPT ![s].outcome = "active"]
              /\ UNCHANGED trouble
           \/ trouble < MaxTrouble /\ trouble' = trouble + 1 /\ UNCHANGED <<traced, rows>>
           \/ UNCHANGED <<traced, rows, trouble>>
        /\ UNCHANGED <<phase, hungUp, why, emitted, lost, queue, armed>>
        BY <1>16 DEF Creates, Serving
  <2>2. life[s] = "none" /\ why[s] = "none" /\ ~Done(s)
        BY <1>3, <2>1 DEF Done
  <2>3. /\ life' \in [Sockets -> {"none", "running", "stopping", "over"}]
        /\ door' \in [Sockets -> {"idle", "resolving", "starting", "in"}]
        /\ life'[s] = "running" /\ door'[s] = "starting"
        /\ \A u \in Sockets \ {s} : life'[u] = life[u] /\ door'[u] = door[u]
        BY <1>1, <2>1
  <2>4. /\ rows' \in Tables /\ (rows'[s].outcome # "none" => s \in traced')
        /\ rows'[s].outcome \in {rows[s].outcome, "active"}
        /\ \A u \in Sockets \ {s} : rows'[u] = rows[u]
        /\ traced' \subseteq Sockets /\ traced' \in {traced, traced \union {s}}
        BY <1>1, <1>3, <2>1 DEF Tables, RowRecords
  <2>5. trouble' \in 0..MaxTrouble
        BY <1>1, <1>2, <2>1
  <2>6. \A u \in Sockets : Done(u)' <=> Done(u)
        BY <2>2, <2>3 DEF Done
  <2>7. QueuePart'
    <3>1. \A x \in Markers : x.of \in Sockets
          BY DEF Markers
    <3> QED BY <2>1, <2>6, <3>1 DEF ServerInv, QueuePart, StoreIsClosed
  <2>8. EndingsPart'
    <3> SUFFICES ASSUME NEW u \in Sockets \ lost
                 PROVE  /\ rows'[u].outcome = "active" /\ Done(u)' /\ ~StoreIsClosed' => Observed("finish", u) \in ToSet(queue)
                        /\ rows'[u].outcome \notin {"none", "active"} => Done(u)'
                        /\ rows'[u].outcome = "completed" => why[u] # "failed"
                        /\ rows'[u].outcome = "active" /\ why[u] = "failed" /\ ~StoreIsClosed' =>
                              After(queue, Observed("error", u), Observed("finish", u))
        BY <2>1 DEF EndingsPart
    <3>1. CASE u = s
          BY <2>2, <2>4, <2>6, <3>1 DEF ServerInv, EndingsPart
    <3>2. CASE u # s
          BY <2>1, <2>4, <2>6, <3>2 DEF ServerInv, EndingsPart, StoreIsClosed
    <3> QED BY <3>1, <3>2
  <2>9. ServerTypeOK'
        BY <1>1, <1>6, <2>1, <2>3, <2>4, <2>5, <2>7
  <2>10. ClaimsPart'
    <3> SUFFICES ASSUME NEW u \in Sockets
                 PROVE  /\ rows'[u].outcome # "none" => u \in traced'
                        /\ u \in traced' => life'[u] # "none"
                        /\ why'[u] # "none" => Done(u)'
                        /\ door'[u] = "resolving" => life'[u] = "none"
                        /\ phase' = "down" => life'[u] \in {"none", "over"}
        BY DEF ClaimsPart
    <3>1. CASE u = s
          BY <2>1, <2>2, <2>3, <2>4, <3>1
    <3>2. CASE u # s
          BY <1>3, <2>1, <2>3, <2>4, <2>6, <3>2
    <3> QED BY <3>1, <3>2
  <2> QED BY <2>7, <2>8, <2>9, <2>10 DEF ServerInv
<1> QED BY <1>7, <1>8, <1>9, <1>10, <1>12, <1>13, <1>14, <1>15, <1>16

\* The steps of the process.
LEMMA ProcessKeeps ==
  ASSUME ServerInv, FlushTraces \/ Shutdown \/ Drained \/ Exit \/ Crash \/ Restart
  PROVE  ServerInv'
<1>1. /\ phase \in {"up", "draining", "closed", "down"} /\ armed \in BOOLEAN
      /\ door \in [Sockets -> {"idle", "resolving", "starting", "in"}] /\ hungUp \subseteq Sockets
      /\ life \in [Sockets -> {"none", "running", "stopping", "over"}]
      /\ why \in [Sockets -> {"none", "stopped", "failed", "crashed"}]
      /\ traced \subseteq Sockets /\ lost \subseteq Sockets /\ trouble \in 0..MaxTrouble
      /\ emitted \in [Sockets -> 0..MaxEmitted] /\ rows \in Tables
      BY DEF ServerInv, ServerTypeOK, Tables, RowRecords
<1>2. MaxEmitted \in Nat /\ MaxTrouble \in Nat
      BY ServerAssumption
<1>3. \A u \in Sockets : /\ rows[u].outcome # "none" => u \in traced
                         /\ u \in traced => life[u] # "none"
                         /\ why[u] # "none" => Done(u)
                         /\ door[u] = "resolving" => life[u] = "none"
                         /\ phase = "down" => life[u] \in {"none", "over"}
      BY DEF ServerInv, ClaimsPart
<1>4. ASSUME QueuePart', armed' \in BOOLEAN, phase' \in {"up", "draining", "closed", "down"},
             door' \in [Sockets -> {"idle", "resolving", "starting", "in"}], hungUp' \subseteq Sockets,
             life' \in [Sockets -> {"none", "running", "stopping", "over"}],
             why' \in [Sockets -> {"none", "stopped", "failed", "crashed"}],
             traced' \subseteq Sockets, lost' \subseteq Sockets, trouble' \in 0..MaxTrouble,
             emitted' \in [Sockets -> 0..MaxEmitted], rows' \in Tables
      PROVE  ServerTypeOK'
      BY <1>4 DEF ServerTypeOK, QueuePart, Queues, Tables, RowRecords
<1>5. CASE FlushTraces \/ Drained
  <2>1. /\ Flushes /\ phase \in {"up", "draining"} /\ phase' \in {phase, "closed"}
        /\ UNCHANGED <<door, hungUp, life, why, traced, emitted>>
        BY <1>5 DEF FlushTraces, Drained, sockets, sessions
  <2>2. /\ QueuePart' /\ EndingsPart' /\ armed' \in BOOLEAN
        /\ rows' \in Tables /\ lost' \subseteq Sockets /\ trouble' \in 0..MaxTrouble
        /\ \A s \in Sockets : rows'[s].outcome # "none" => rows[s].outcome # "none"
        BY <2>1, FlushesKeep
  <2>3. ServerTypeOK'
        BY <1>1, <1>4, <2>1, <2>2
  <2>4. ClaimsPart'
        BY <1>3, <2>1, <2>2 DEF ClaimsPart, Done
  <2> QED BY <2>2, <2>3, <2>4 DEF ServerInv
<1>6. CASE Shutdown
  <2> DEFINE ops == FoldSet(LAMBDA s, l : l \o Ending(s, "stopped"), <<>>, Running)
  <2>1. /\ phase = "up" /\ phase' = "draining" /\ Enqueues(ops)
        /\ life' = [s \in Sockets |-> IF s \in Running THEN "stopping" ELSE life[s]]
        /\ why' = [s \in Sockets |-> IF s \in Running THEN "stopped" ELSE why[s]]
        /\ UNCHANGED <<door, hungUp, traced, emitted, rows, lost, trouble>>
        BY <1>6 DEF Shutdown, sockets, store
  <2>2. IsFiniteSet(Running)
        BY ServerAssumption, FS_Subset DEF Running
  <2>3. /\ ops \in Seq(Entries) /\ Unique(ops)
        /\ \A x : x \in ToSet(ops) <=> \E s \in Running : x = Observed("finish", s)
        BY <2>2, EndingsAre
  <2> HIDE DEF ops
  <2>4. \A s \in Sockets : /\ s \in Running <=> life[s] = "running"
                           /\ s \in Running => life'[s] = "stopping" /\ why'[s] = "stopped"
                           /\ s \notin Running => life'[s] = life[s] /\ why'[s] = why[s]
        BY <2>1 DEF Running
  <2>5. \A s \in Running : s \in Sockets /\ Observed("finish", s).of = s
        BY DEF Running, Observed
  <2>6. \A x \in Markers : x \in ToSet(ops) => life[x.of] = "running" /\ life'[x.of] \in {"stopping", "over"}
        BY <2>3, <2>4, <2>5
  <2>7. \A s \in Sockets :
            \/ life'[s] = life[s] /\ why'[s] = why[s]
            \/ /\ life[s] = "running" /\ life'[s] \in {"stopping", "over"}
               /\ Observed("finish", s) \in ToSet(ops)
               /\ why'[s] = "failed" => After(ops, Observed("error", s), Observed("finish", s))
        BY <2>3, <2>4
  <2>8. QueuePart' /\ EndingsPart'
        BY <2>1, <2>3, <2>6, <2>7, EnqueuesKeep
  <2>9. /\ life' \in [Sockets -> {"none", "running", "stopping", "over"}]
        /\ why' \in [Sockets -> {"none", "stopped", "failed", "crashed"}] /\ armed' \in BOOLEAN
        BY <1>1, <2>1 DEF Enqueues
  <2>10. ServerTypeOK'
        BY <1>1, <1>4, <2>1, <2>8, <2>9
  <2>11. ClaimsPart'
        BY <1>3, <2>1, <2>4 DEF ClaimsPart, Done
  <2> QED BY <2>8, <2>10, <2>11 DEF ServerInv
<1>7. CASE Exit \/ Crash
  <2>1. /\ phase' = "down" /\ queue' = <<>> /\ armed' = FALSE
        /\ life' = [s \in Sockets |-> IF life[s] = "none" THEN "none" ELSE "over"]
        /\ why' = [s \in Sockets |-> IF why[s] = "none" /\ life[s] # "none" THEN "crashed" ELSE why[s]]
        /\ hungUp' = Sockets /\ door' = [s \in Sockets |-> "in"]
        /\ UNCHANGED <<traced, emitted, rows, lost>>
        /\ trouble' = trouble \/ (trouble < MaxTrouble /\ trouble' = trouble + 1)
        BY <1>7 DEF Exit, Crash, Dies
  <2>2. QueuePart'
    <3>1. <<>> \in Seq(Entries) /\ Len(<<>>) = 0 /\ DOMAIN <<>> = {}
          OBVIOUS
    <3>2. <<>> \in Queues /\ ToSet(<<>>) = {}
          BY <3>1, ServerAssumption DEF Queues, Unique, ToSet
    <3> QED BY <2>1, <3>2 DEF QueuePart
  <2>3. /\ life' \in [Sockets -> {"none", "running", "stopping", "over"}]
        /\ why' \in [Sockets -> {"none", "stopped", "failed", "crashed"}]
        /\ door' \in [Sockets -> {"idle", "resolving", "starting", "in"}]
        /\ hungUp' \subseteq Sockets /\ armed' \in BOOLEAN
        BY <1>1, <2>1
  <2>4. trouble' \in 0..MaxTrouble
        BY <1>1, <1>2, <2>1
  <2>5. ServerTypeOK'
        BY <1>1, <1>4, <2>1, <2>2, <2>3, <2>4
  <2>6. \A s \in Sockets : /\ life'[s] = IF life[s] = "none" THEN "none" ELSE "over"
                           /\ why'[s] = IF why[s] = "none" /\ life[s] # "none" THEN "crashed" ELSE why[s]
                           /\ door'[s] = "in"
        BY <2>1
  <2>7. ClaimsPart'
        BY <1>1, <1>3, <2>1, <2>6 DEF ClaimsPart, Done
  <2>8. EndingsPart'
    <3>1. StoreIsClosed'
          BY <2>1 DEF StoreIsClosed
    <3>2. \A s \in Sockets : Done(s) => Done(s)'
          BY <2>6 DEF Done
    <3>3. \A s \in Sockets : rows[s].outcome = "completed" /\ s \notin lost => Done(s) /\ why[s] # "failed"
          BY DEF ServerInv, EndingsPart
    <3>4. \A s \in Sockets : why'[s] = "failed" => why[s] = "failed"
          BY <2>6
    <3> QED BY <2>1, <3>1, <3>2, <3>3, <3>4 DEF ServerInv, EndingsPart
  <2> QED BY <2>2, <2>5, <2>7, <2>8 DEF ServerInv
<1>8. CASE Restart
  <2>1. /\ phase = "down" /\ phase' = "up"
        /\ rows' = [s \in Sockets |-> IF rows[s].outcome = "active"
                                      THEN [rows[s] EXCEPT !.outcome = "abandoned"] ELSE rows[s]]
        /\ UNCHANGED <<door, hungUp, life, why, traced, emitted, queue, armed, lost, trouble>>
        BY <1>8 DEF Restart, sockets, sessions
  <2>2. rows' \in Tables
        BY <1>1, <2>1 DEF Tables, RowRecords
  <2>3. \A s \in Sockets : rows'[s].outcome = IF rows[s].outcome = "active" THEN "abandoned" ELSE rows[s].outcome
        BY <1>1, <2>1 DEF Tables, RowRecords
  <2>4. QueuePart'
    <3>1. \A x \in Markers : x.of \in Sockets
          BY DEF Markers
    <3> QED BY <2>1, <3>1 DEF ServerInv, QueuePart, StoreIsClosed, Done
  <2>5. ServerTypeOK'
        BY <1>1, <1>4, <2>1, <2>2, <2>4
  <2>6. ClaimsPart'
        BY <1>3, <2>1, <2>3 DEF ClaimsPart, Done
  <2>7. ASSUME NEW s \in Sockets \ lost
        PROVE  /\ rows'[s].outcome # "active"
               /\ rows'[s].outcome # "none" => Done(s)'
               /\ rows'[s].outcome = "completed" => why[s] # "failed"
    <3>1. /\ rows[s].outcome \notin {"none", "active"} => Done(s)
          /\ rows[s].outcome = "completed" => why[s] # "failed"
          BY DEF ServerInv, EndingsPart
    <3>2. rows[s].outcome = "active" => Done(s)
          BY <1>3, <2>1 DEF Done
    <3>3. Done(s)' <=> Done(s)
          BY <2>1 DEF Done
    <3> QED BY <2>3, <3>1, <3>2, <3>3
  <2>8. EndingsPart'
        BY <2>1, <2>7 DEF EndingsPart
  <2> QED BY <2>4, <2>5, <2>6, <2>8 DEF ServerInv
<1> QED BY <1>5, <1>6, <1>7, <1>8

\* A process that has just started.
LEMMA ServerStarts ==
  ASSUME ServerInit
  PROVE  ServerInv
<1>1. <<>> \in Queues /\ ToSet(<<>>) = {}
  <2>1. <<>> \in Seq(Entries) /\ Len(<<>>) = 0 /\ DOMAIN <<>> = {}
        OBVIOUS
  <2> QED BY <2>1, ServerAssumption DEF Queues, Unique, ToSet
<1>2. QueuePart
      BY <1>1 DEF ServerInit, QueuePart
<1>3. EndingsPart /\ ClaimsPart
      BY DEF ServerInit, EndingsPart, ClaimsPart, Done
<1>4. ServerTypeOK
  <2>1. Len(<<>>) = 0 /\ 0 \in 0..MaxEmitted /\ 0 \in 0..MaxTrouble /\ 0 <= MaxQueue
        BY ServerAssumption
  <2>2. rows \in Tables
        BY DEF ServerInit, Tables, RowRecords
  <2> QED BY <2>1, <2>2 DEF ServerInit, ServerTypeOK, Tables, RowRecords
<1> QED BY <1>2, <1>3, <1>4 DEF ServerInv

\* What the gateway keeps about its conversations, for any number of sockets and any
\* ceiling of the queue that has room for their markers.
THEOREM ServerInvariant == ServerSpec => []ServerInv
<1>1. ASSUME ServerInv, ServerNext PROVE ServerInv'
      BY <1>1, SocketKeeps, ProcessKeeps DEF ServerNext
<1>2. ASSUME ServerInv, UNCHANGED serverVars PROVE ServerInv'
  <2>1. UNCHANGED <<phase, door, hungUp, life, why, traced, emitted, rows, lost, trouble, queue, armed>>
        BY <1>2 DEF serverVars, sockets, sessions, store
  <2>2. QueuePart' /\ EndingsPart'
        BY <1>2, <2>1, QuietKeeps DEF Done
  <2>3. ServerTypeOK' /\ ClaimsPart'
        BY <1>2, <2>1 DEF ServerInv, ServerTypeOK, ClaimsPart, Done
  <2> QED BY <2>2, <2>3 DEF ServerInv
<1> QED BY <1>1, <1>2, ServerStarts, PTL DEF ServerSpec

\* The ending of every conversation is recorded, however much the queue had to drop: it
\* waits there until the row has it, and a session marked as failed is never recorded as
\* completed.
THEOREM EndingsAlwaysRecorded == ServerSpec => []EndingsAreRecorded
<1>1. ServerInv => EndingsAreRecorded
      BY DEF ServerInv, QueuePart, EndingsPart, EndingsAreRecorded, Done
<1> QED BY <1>1, ServerInvariant, PTL

-----------------------------------------------------------------------------
(* The invariant of the segmenters.                                        *)

Items == {i \in [from : Nat, to : Nat] : i.from <= i.to}
Frames == {i \in Items : Size(i) \in FrameSizes}
Assemblers == [pre : Seq(Items), speech : Seq(Items), speaking : BOOLEAN, confirmed : BOOLEAN,
               voiced : Nat, silence : Nat]
Plain == [type : {"start", "confirmed"}, at : Items]
Cuts == [type : {"end", "dropped"}, at : Items, samples : Seq(Items)]
Events == [event : Plain \union Cuts, since : Nat]
Segmenters == [at : {"idle", "windows", "inferring", "answered", "ended"}, anchor : Nat \union {Never},
               consumed : Nat, fed : Nat, taken : Nat, on : BOOLEAN, asm : Assemblers, out : Seq(Events),
               stale : BOOLEAN, since : Nat, mixed : BOOLEAN]
Jobs == [of : Streams, item : Items, context : Nat, state : Nat \union {Never}]

SegmenterTypes ==
    /\ ear \in [Streams -> [queue : Seq(Frames), clock : Nat]]
    /\ vad \in [Streams -> {"none", "asked", "preferred", "silero", "energy", "failed"}]
    /\ seg \in [Streams -> Segmenters]
    /\ net \in [Streams -> [context : Nat, state : Nat]]
    /\ backend \in [at : {"none", "loading", "ready"}, line : Seq(Jobs)]
    /\ utterance \in [Streams -> {"none", "started", "confirmed"}]

\* An inference in line is awaited, by whom it is of, and there is one.
LineHolds ==
    /\ \A n \in DOMAIN backend.line : seg[backend.line[n].of].at = "inferring"
    /\ \A m, n \in DOMAIN backend.line : backend.line[m].of = backend.line[n].of => m = n
    /\ \A s \in Streams : seg[s].at = "inferring" => \E n \in DOMAIN backend.line : backend.line[n].of = s

\* Items that follow each other, from a on and up to b.
Chain(items, a, b) ==
    /\ items = <<>> => a = b
    /\ items # <<>> => items[1].from = a /\ items[Len(items)].to = b
    /\ \A n \in 1..(Len(items) - 1) : items[n + 1].from = items[n].to

\* How far an assembler has heard.
Judged(g) == IF g.at = "inferring" THEN g.taken - WindowSize ELSE g.taken

\* An assembler holds what was last heard: the utterance, or what may become of one.
Gathered(a, since, upto) ==
    \E from \in since..upto :
        /\ Chain(IF a.speaking THEN a.speech ELSE a.pre, from, upto)
        /\ IF a.speaking THEN upto - from < MaxSpeech ELSE upto - from <= PreRoll

\* What the loop is told of an utterance, ...
Stage(a) == IF ~a.speaking THEN "none" ELSE IF a.confirmed THEN "confirmed" ELSE "started"
\* ... and what it has to know before.
Before(type) == CASE type = "confirmed" -> "started" [] type = "end" -> "confirmed"
                  [] type = "dropped" -> "started" [] OTHER -> "none"
Leads(p, events, q) ==
    /\ q = IF events = <<>> THEN p ELSE Told(p, events[Len(events)])
    /\ \A n \in DOMAIN events : Before(events[n].event.type) = IF n = 1 THEN p ELSE Told(p, events[n - 1])

\* The network was last given what it last made a state of.
NetHolds(s) ==
    /\ ~seg[s].mixed
    /\ seg[s].at # "inferring" => net[s].context = net[s].state
    /\ \A n \in DOMAIN backend.line :
          LET job == backend.line[n] IN
          job.of = s => /\ job.item = [from |-> seg[s].taken - WindowSize, to |-> seg[s].taken]
                        /\ net[s].context = job.item.to
                        /\ job.context = IF job.state = Never THEN net[s].state ELSE job.state

\* What is thrown away may be anything.
SegmentHolds(s) ==
    LET g == seg[s] IN
    ~g.stale /\ g.at # "ended" =>
        /\ Judged(g) \in Nat /\ Gathered(g.asm, g.since, Judged(g))
        /\ Leads(utterance[s], g.out, Stage(g.asm))
        /\ \A n \in DOMAIN g.out : g.out[n].event.type = "end" => Whole(g.out[n])
        /\ NetHolds(s)

StagesHold(s) ==
    /\ vad[s] # "silero" => seg[s].fed = seg[s].taken
    /\ seg[s].at \in {"windows", "inferring"} => vad[s] = "silero"
    /\ seg[s].at = "idle" => seg[s].out = <<>> /\ ~seg[s].stale
    /\ seg[s].stale => utterance[s] = "none"

SegmenterInv == SegmenterTypes /\ LineHolds /\ \A s \in Streams : SegmentHolds(s) /\ StagesHold(s)

SegmenterSpec == SegmenterInit /\ [][SegmenterNext]_segmenterVars

-----------------------------------------------------------------------------
(* Sequences of items.                                                     *)

\* A total, item by item.
LEMMA TotalFolds ==
  ASSUME NEW q \in Seq(Items)
  PROVE  \E h \in [0..Len(q) -> Nat] :
            /\ h[0] = 0
            /\ \A k \in 1..Len(q) : h[k] = h[k - 1] + Size(q[k])
            /\ Total(q) = h[Len(q)]
<1> DEFINE S == 1..Len(q)
           pick == [T \in SUBSET S |-> Max(T)]
           step == [p \in S \X Nat |-> p[2] + Size(q[p[1]])]
<1>1. Len(q) \in Nat /\ DOMAIN q = S /\ \A i \in S : q[i] \in Items
      OBVIOUS
<1>2. IsFiniteSet(S)
      BY <1>1, FS_Interval
<1>3. \A T \in SUBSET S : T # {} => pick[T] \in T
      BY <1>1, Greatest
<1>4. ASSUME NEW i \in S, NEW v \in Nat PROVE v + Size(q[i]) \in Nat
      BY <1>1 DEF Items, Size
<1>5. \A i \in S, v \in Nat : step[<<i, v>>] \in Nat
      BY <1>4
<1>6. PICK g \in [SUBSET S -> Nat] : Folds(g, S, 0, pick, step)
  <2> HIDE DEF S, pick, step
  <2> QED BY <1>2, <1>3, <1>5, FoldExists
<1>7. ASSUME NEW T \in SUBSET S
      PROVE  g[T] = IF T = {} THEN 0 ELSE g[T \ {Max(T)}] + Size(q[Max(T)])
  <2>1. CASE T # {}
    <3>1. Max(T) \in S /\ g[T \ {Max(T)}] \in Nat
          BY <1>3, <2>1
    <3>2. g[T] = step[<<Max(T), g[T \ {Max(T)}]>>]
          BY <1>6, <2>1 DEF Folds
    <3> QED BY <2>1, <3>1, <3>2
  <2> QED BY <1>6, <2>1 DEF Folds
<1>8. g = [T \in SUBSET S |-> IF T = {} THEN 0 ELSE g[T \ {Max(T)}] + Size(q[Max(T)])]
      BY <1>7
<1> DEFINE it == CHOOSE f : f = [T \in SUBSET S |-> IF T = {} THEN 0 ELSE f[T \ {Max(T)}] + Size(q[Max(T)])]
<1>9. it = [T \in SUBSET S |-> IF T = {} THEN 0 ELSE it[T \ {Max(T)}] + Size(q[Max(T)])]
  <2> HIDE DEF S
  <2> QED BY <1>8
<1>10. Total(q) = it[S]
      BY <1>1 DEF Total, FoldLeft, MapThenFoldSet
<1> DEFINE h == [k \in 0..Len(q) |-> it[1..k]]
           Typed == {k \in Nat : k <= Len(q) => h[k] \in Nat}
<1> HIDE DEF it
<1>11. h[0] = 0
  <2>1. 1..0 = {} /\ {} \in SUBSET S /\ 0 \in 0..Len(q)
        BY <1>1
  <2>2. it[{}] = 0
        BY <1>9
  <2> QED BY <2>1, <2>2
<1>12. ASSUME NEW k \in 1..Len(q) PROVE h[k] = h[k - 1] + Size(q[k])
  <2>1. 1..k \in SUBSET S /\ 1..k # {} /\ k \in 0..Len(q) /\ k - 1 \in 0..Len(q)
    <3>1. k \in Nat /\ k >= 1 /\ k <= Len(q) /\ Len(q) \in Nat
          BY <1>1
    <3>2. \A i \in 1..k : i \in 1..Len(q)
          BY <3>1
    <3>3. k \in 1..k /\ k \in 0..Len(q) /\ k - 1 \in 0..Len(q)
          BY <3>1
    <3> QED BY <3>2, <3>3
  <2>2. Max(1..k) = k /\ (1..k) \ {k} = 1..(k - 1)
        BY <1>1, GreatestOf
  <2>3. it[1..k] = it[(1..k) \ {Max(1..k)}] + Size(q[Max(1..k)])
    <3> HIDE DEF S
    <3> QED BY <1>9, <2>1
  <2> QED BY <2>1, <2>2, <2>3
<1> HIDE DEF h
<1>13. 0 \in Typed
      BY <1>11
<1>14. ASSUME NEW k \in Nat, k \in Typed PROVE k + 1 \in Typed
  <2> SUFFICES ASSUME k + 1 <= Len(q) PROVE h[k + 1] \in Nat
      OBVIOUS
  <2>1. k + 1 \in 1..Len(q) /\ (k + 1) - 1 = k /\ h[k] \in Nat
        BY <1>1, <1>14
  <2> QED BY <1>4, <1>12, <2>1
<1>15. \A k \in 0..Len(q) : h[k] \in Nat
  <2> HIDE DEF Typed
  <2>1. Nat \subseteq Typed
        BY <1>13, <1>14, Inductive
  <2> QED BY <1>1, <2>1 DEF Typed
<1>16. h \in [0..Len(q) -> Nat] /\ Total(q) = h[Len(q)]
      BY <1>1, <1>10, <1>15 DEF h
<1> QED BY <1>11, <1>12, <1>16

\* Items that follow each other are as long as from where they begin to where they end.
LEMMA ChainIs ==
  ASSUME NEW q \in Seq(Items), NEW a \in Nat, NEW b \in Nat, Chain(q, a, b)
  PROVE  Total(q) = b - a /\ a <= b /\ \A n \in 1..Len(q) : a <= q[n].from
<1>1. PICK h \in [0..Len(q) -> Nat] : /\ h[0] = 0
                                     /\ \A k \in 1..Len(q) : h[k] = h[k - 1] + Size(q[k])
                                     /\ Total(q) = h[Len(q)]
      BY TotalFolds
<1> DEFINE Up == {k \in Nat : k < Len(q) => q[k + 1].from = a + h[k]}
<1>2. Len(q) \in Nat /\ \A k \in 1..Len(q) : q[k] \in Items /\ q[k].from \in Nat /\ q[k].to \in Nat
      BY DEF Items
<1>3. 0 \in Up
      BY <1>1, <1>2 DEF Chain
<1>4. ASSUME NEW k \in Nat, k \in Up PROVE k + 1 \in Up
  <2> SUFFICES ASSUME k + 1 < Len(q) PROVE q[k + 2].from = a + h[k + 1]
      OBVIOUS
  <2>1. k + 1 \in 1..Len(q) /\ k + 1 \in 1..(Len(q) - 1) /\ k \in 0..Len(q) /\ (k + 1) - 1 = k /\ (k + 1) + 1 = k + 2
        BY <1>2
  <2>2. q[k + 2].from = q[k + 1].to
        BY <2>1 DEF Chain
  <2>3. h[k + 1] = h[k] + Size(q[k + 1]) /\ q[k + 1].from = a + h[k] /\ h[k] \in Nat
        BY <1>1, <1>4, <2>1
  <2>4. q[k + 1].from \in Nat /\ q[k + 1].to \in Nat
        BY <1>2, <2>1
  <2> QED BY <2>2, <2>3, <2>4 DEF Size
<1>5. Nat \subseteq Up
  <2> HIDE DEF Up
  <2> QED BY <1>3, <1>4, Inductive
<1>6. ASSUME NEW n \in 1..Len(q) PROVE a <= q[n].from /\ q[n].from = a + h[n - 1]
  <2>1. n - 1 \in Nat /\ n - 1 < Len(q) /\ (n - 1) + 1 = n /\ n - 1 \in 0..Len(q)
        BY <1>2
  <2>2. n - 1 \in Up
        BY <1>5, <2>1
  <2>3. q[n].from = a + h[n - 1]
        BY <2>1, <2>2
  <2>4. h[n - 1] \in Nat
        BY <1>1, <2>1
  <2> QED BY <2>3, <2>4
<1>7. Total(q) = b - a
  <2>1. CASE q = <<>>
        BY <1>1, <2>1 DEF Chain
  <2>2. CASE q # <<>>
    <3>1. Len(q) \in 1..Len(q) /\ Len(q) - 1 \in 0..Len(q)
          BY <1>2, <2>2
    <3>2. q[Len(q)].from = a + h[Len(q) - 1] /\ h[Len(q)] = h[Len(q) - 1] + Size(q[Len(q)]) /\ h[Len(q) - 1] \in Nat
          BY <1>1, <1>6, <3>1
    <3> QED BY <1>1, <1>2, <2>2, <3>1, <3>2 DEF Chain, Size
  <2> QED BY <2>1, <2>2
<1>8. Total(q) \in Nat
  <2>1. Len(q) \in 0..Len(q)
        BY <1>2
  <2> QED BY <1>1, <2>1
<1> QED BY <1>6, <1>7, <1>8

\* A total is a number, and that of nothing is none.
LEMMA TotalIs ==
  /\ \A q \in Seq(Items) : Total(q) \in Nat
  /\ Total(<<>>) = 0
<1>1. ASSUME NEW q \in Seq(Items) PROVE Total(q) \in Nat
  <2>1. Len(q) \in Nat
        OBVIOUS
  <2> QED BY <2>1, TotalFolds
<1>2. ASSUME NEW q \in Seq(Items), q = <<>> PROVE Total(q) = 0
  <2>1. 1..(Len(q) - 1) = {}
        BY <1>2
  <2>2. Chain(q, 0, 0)
        BY <1>2, <2>1 DEF Chain
  <2>3. Total(q) = 0 - 0
        BY <2>2, ChainIs
  <2> QED BY <2>3
<1>3. <<>> \in Seq(Items)
      OBVIOUS
<1> QED BY <1>1, <1>2, <1>3

\* The latest that fit are the end of what there is.
LEMMA LatestIs ==
  ASSUME NEW q \in Seq(Items), NEW limit \in Nat
  PROVE  \E n \in 1..(Len(q) + 1) : Latest(q, limit) = SubSeq(q, n, Len(q)) /\ Total(Latest(q, limit)) <= limit
<1> DEFINE from(n) == SubSeq(q, n, Len(q))
           T == {n \in 1..(Len(q) + 1) : Total(from(n)) <= limit}
<1>1. Len(q) \in Nat
      OBVIOUS
<1>2. \A n \in 1..(Len(q) + 1) : from(n) \in Seq(Items) /\ Total(from(n)) \in Nat
  <2>1. \A n \in 1..(Len(q) + 1) : from(n) \in Seq(Items)
        BY <1>1
  <2> HIDE DEF from
  <2> QED BY <2>1, TotalIs
<1>3. Len(q) + 1 \in T
  <2>1. from(Len(q) + 1) = <<>>
        BY <1>1
  <2>2. Len(q) + 1 \in 1..(Len(q) + 1)
        BY <1>1
  <2> HIDE DEF from
  <2> QED BY <2>1, <2>2, TotalIs
<1>4. T \subseteq Nat
      BY <1>1
<1> HIDE DEF from
<1>5. PICK n \in T : \A m \in T : n <= m
      BY <1>3, <1>4, LeastNat
<1>6. \E n0 \in 1..(Len(q) + 1) : Total(from(n0)) <= limit /\ \A m \in 1..(n0 - 1) : Total(from(m)) > limit
  <2>1. ASSUME NEW m \in 1..(n - 1) PROVE Total(from(m)) > limit
    <3>1. m \in 1..(Len(q) + 1) /\ m < n
          BY <1>1
    <3>2. m \notin T
          BY <1>1, <1>5, <3>1
    <3> QED BY <1>2, <3>1, <3>2
  <2> QED BY <2>1
<1> DEFINE c == CHOOSE n0 \in 1..(Len(q) + 1) : Total(from(n0)) <= limit /\ \A m \in 1..(n0 - 1) : Total(from(m)) > limit
<1>7. c \in 1..(Len(q) + 1) /\ Total(from(c)) <= limit
      BY <1>6
<1>8. Latest(q, limit) = from(c)
      BY DEF Latest, from
<1> HIDE DEF c
<1> QED BY <1>7, <1>8 DEF from

\* They are items as well, and follow each other if all of them do.
LEMMA LatestKeeps ==
  ASSUME NEW q \in Seq(Items), NEW limit \in Nat
  PROVE  /\ Latest(q, limit) \in Seq(Items)
         /\ \A T \in SUBSET Items : q \in Seq(T) => Latest(q, limit) \in Seq(T)
         /\ \A a, b \in Nat : Chain(q, a, b) =>
               \E c \in a..b : Chain(Latest(q, limit), c, b) /\ b - c <= limit
<1> DEFINE p == Latest(q, limit)
<1>1. PICK n \in 1..(Len(q) + 1) : p = SubSeq(q, n, Len(q)) /\ Total(p) <= limit
      BY LatestIs
<1> HIDE DEF p
<1>2. /\ Len(q) \in Nat /\ Len(p) = (Len(q) + 1) - n
      /\ \A i \in 1..Len(p) : p[i] = q[n + i - 1]
      BY <1>1
<1>3. p \in Seq(Items) /\ \A T \in SUBSET Items : q \in Seq(T) => p \in Seq(T)
      BY <1>1
<1>4. ASSUME NEW a \in Nat, NEW b \in Nat, Chain(q, a, b)
      PROVE  \E c \in a..b : Chain(p, c, b) /\ b - c <= limit
  <2>1. CASE p = <<>>
    <3>1. Chain(p, b, b)
          BY <2>1 DEF Chain
    <3>2. a <= b
          BY <1>4, ChainIs
    <3> QED BY <3>1, <3>2
  <2>2. CASE p # <<>>
    <3>1. Len(p) \in Nat /\ 1 \in 1..Len(p) /\ Len(p) \in 1..Len(p) /\ n \in 1..Len(q)
          BY <1>2, <1>3, <2>2
    <3>2. p[1] = q[n] /\ p[Len(p)] = q[Len(q)] /\ q # <<>>
      <4>1. n + 1 - 1 = n /\ n + Len(p) - 1 = Len(q)
            BY <1>2, <3>1
      <4> QED BY <1>2, <3>1, <4>1
    <3>3. ASSUME NEW i \in 1..(Len(p) - 1) PROVE p[i + 1].from = p[i].to
      <4>1. /\ i \in 1..Len(p) /\ i + 1 \in 1..Len(p) /\ n + i - 1 \in 1..(Len(q) - 1)
            /\ n + (i + 1) - 1 = (n + i - 1) + 1
            BY <1>2, <3>1
      <4>2. q[(n + i - 1) + 1].from = q[n + i - 1].to
            BY <1>4, <4>1 DEF Chain
      <4> QED BY <1>2, <4>1, <4>2
    <3> DEFINE c == q[n].from
    <3>4. c \in Nat /\ a <= c
      <4>1. q[n] \in Items
            BY <3>1
      <4> QED BY <1>4, <3>1, <4>1, ChainIs DEF Items
    <3>5. Chain(p, c, b)
          BY <1>4, <2>2, <3>2, <3>3 DEF Chain
    <3> HIDE DEF c
    <3>6. Total(p) = b - c /\ c <= b
          BY <1>3, <3>4, <3>5, ChainIs
    <3> QED BY <1>1, <3>4, <3>5, <3>6
  <2> QED BY <2>1, <2>2
<1> QED BY <1>3, <1>4 DEF p

-----------------------------------------------------------------------------
(* What an assembler makes of an item.                                     *)

\* The loop keeps what it was told last.
LEMMA ToldIs ==
  ASSUME NEW p, NEW q \in Seq(Events)
  PROVE  FoldLeft(Told, p, q) = IF q = <<>> THEN p ELSE Told(p, q[Len(q)])
<1> DEFINE S == 1..Len(q)
           last(T) == CASE q[Max(T)].event.type = "start" -> "started"
                        [] q[Max(T)].event.type = "confirmed" -> "confirmed"
                        [] OTHER -> "none"
           it == CHOOSE f : f = [T \in SUBSET S |-> IF T = {} THEN p ELSE last(T)]
<1>1. Len(q) \in Nat /\ DOMAIN q = S
      OBVIOUS
<1>2. FoldLeft(Told, p, q) = it[S]
      BY <1>1 DEF FoldLeft, MapThenFoldSet, Told
<1>3. it = [T \in SUBSET S |-> IF T = {} THEN p ELSE last(T)]
      OBVIOUS
<1> HIDE DEF it
<1>4. S \in SUBSET S
      OBVIOUS
<1>5. it[S] = IF S = {} THEN p ELSE last(S)
  <2> HIDE DEF S, last
  <2> QED BY <1>3, <1>4
<1>6. CASE q = <<>>
  <2>1. S = {}
        BY <1>6
  <2> QED BY <1>2, <1>5, <1>6, <2>1
<1>7. CASE q # <<>>
  <2>1. Max(S) = Len(q) /\ S # {}
        BY <1>1, <1>7, GreatestOf
  <2> QED BY <1>2, <1>5, <1>7, <2>1 DEF Told
<1> QED BY <1>6, <1>7

\* A finite set of numbers has a bound among them.
LEMMA FiniteGreatest ==
  ASSUME NEW T \in SUBSET Nat, IsFiniteSet(T), T # {}
  PROVE  \E x \in T : \A y \in T : y <= x
<1> DEFINE R == {U \in SUBSET T : U # {} => \E x \in U : \A y \in U : y <= x}
<1>1. {} \in R
      OBVIOUS
<1>2. ASSUME NEW U \in SUBSET T, U # {} PROVE \E x \in U : U \ {x} \in R => U \in R
  <2>1. PICK x \in U : TRUE
        BY <1>2
  <2>2. ASSUME U \ {x} \in R PROVE \E z \in U : \A y \in U : y <= z
    <3>1. CASE U \ {x} = {}
      <4>1. \A y \in U : y = x
            BY <3>1
      <4>2. x \in Nat
            OBVIOUS
      <4> QED BY <2>1, <4>1, <4>2
    <3>2. CASE U \ {x} # {}
      <4>1. PICK z \in U \ {x} : \A y \in U \ {x} : y <= z
            BY <2>2, <3>2
      <4>2. x \in Nat /\ z \in Nat
            OBVIOUS
      <4>3. CASE x <= z
            BY <4>1, <4>3
      <4>4. CASE z <= x
        <5>1. \A y \in U : y \in Nat /\ (y = x \/ y <= z)
              BY <4>1
        <5>2. \A y \in U : y <= x
              BY <4>2, <4>4, <5>1
        <5> QED BY <2>1, <5>2
      <4> QED BY <4>2, <4>3, <4>4
    <3> QED BY <3>1, <3>2
  <2> QED BY <2>1, <2>2
<1>3. T \in R
  <2> HIDE DEF R
  <2> QED BY <1>1, <1>2, FiniteInductive
<1> QED BY <1>3

\* No item is longer than the longest.
LEMMA LongestIs ==
  LongestItem \in Nat /\ WindowSize <= LongestItem /\ \A n \in FrameSizes : n <= LongestItem
<1> DEFINE sizes == {WindowSize} \union FrameSizes
<1>1. sizes \in SUBSET Nat /\ sizes # {} /\ IsFiniteSet(sizes)
      BY SegmenterAssumption, FS_Singleton, FS_Union
<1>2. \E n \in sizes : \A m \in sizes : m <= n
      BY <1>1, FiniteGreatest
<1>3. LongestItem \in sizes /\ \A m \in sizes : m <= LongestItem
      BY <1>2 DEF LongestItem
<1> QED BY <1>1, <1>3

\* What an utterance goes through, from event to event.
LEMMA LeadsOn ==
  ASSUME NEW p, NEW q, NEW r, NEW e \in Seq(Events), NEW f \in Seq(Events), Leads(p, e, q), Leads(q, f, r)
  PROVE  Leads(p, e \o f, r)
<1> DEFINE g == e \o f
<1>1. /\ Len(e) \in Nat /\ Len(f) \in Nat /\ Len(g) = Len(e) + Len(f) /\ g \in Seq(Events)
      /\ DOMAIN e = 1..Len(e) /\ DOMAIN f = 1..Len(f) /\ DOMAIN g = 1..Len(g)
      /\ \A n \in 1..Len(e) : g[n] = e[n]
      /\ \A n \in 1..Len(f) : g[Len(e) + n] = f[n]
      OBVIOUS
<1> HIDE DEF g
<1>2. \A x, y, h : Told(x, h) = Told(y, h)
      BY DEF Told
<1>3. r = IF g = <<>> THEN p ELSE Told(p, g[Len(g)])
  <2>1. CASE f = <<>>
    <3>1. r = q /\ Len(f) = 0 /\ Len(g) = Len(e)
          BY <1>1, <2>1 DEF Leads
    <3>2. CASE e = <<>>
          BY <1>1, <3>1, <3>2 DEF Leads
    <3>3. CASE e # <<>>
      <4>1. Len(e) \in 1..Len(e) /\ g # <<>>
            BY <1>1, <3>1, <3>3
      <4> QED BY <1>1, <3>1, <3>3, <4>1 DEF Leads
    <3> QED BY <3>2, <3>3
  <2>2. CASE f # <<>>
    <3>1. Len(f) \in 1..Len(f) /\ g # <<>>
          BY <1>1, <2>2
    <3>2. r = Told(q, f[Len(f)])
          BY <2>2 DEF Leads
    <3> QED BY <1>1, <1>2, <3>1, <3>2
  <2> QED BY <2>1, <2>2
<1>4. ASSUME NEW n \in DOMAIN g PROVE Before(g[n].event.type) = IF n = 1 THEN p ELSE Told(p, g[n - 1])
  <2>1. CASE n \in 1..Len(e)
    <3>1. g[n] = e[n] /\ (n # 1 => g[n - 1] = e[n - 1])
          BY <1>1, <2>1
    <3> QED BY <1>1, <2>1, <3>1 DEF Leads
  <2>2. CASE n \notin 1..Len(e)
    <3> DEFINE m == n - Len(e)
    <3>1. m \in 1..Len(f) /\ n = Len(e) + m /\ n \in Nat
          BY <1>1, <2>2
    <3> HIDE DEF m
    <3>2. g[n] = f[m] /\ Before(f[m].event.type) = IF m = 1 THEN q ELSE Told(q, f[m - 1])
          BY <1>1, <3>1 DEF Leads
    <3>3. CASE m # 1
      <4>1. m - 1 \in 1..Len(f) /\ n - 1 = Len(e) + (m - 1) /\ n # 1
            BY <1>1, <3>1, <3>3
      <4>2. g[n - 1] = f[m - 1]
            BY <1>1, <4>1
      <4> QED BY <1>2, <3>2, <3>3, <4>1, <4>2
    <3>4. CASE m = 1 /\ e = <<>>
      <4>1. n = 1 /\ q = p
            BY <3>1, <3>4 DEF Leads
      <4> QED BY <3>2, <3>4, <4>1
    <3>5. CASE m = 1 /\ e # <<>>
      <4>1. n - 1 = Len(e) /\ n # 1 /\ n - 1 \in 1..Len(e)
            BY <1>1, <3>1, <3>5
      <4>2. q = Told(p, e[Len(e)])
            BY <3>5 DEF Leads
      <4> QED BY <1>1, <3>2, <3>5, <4>1, <4>2
    <3> QED BY <3>3, <3>4, <3>5
  <2> QED BY <2>1, <2>2
<1> QED BY <1>3, <1>4 DEF Leads, g

\* One item more.
LEMMA ChainOn ==
  ASSUME NEW q \in Seq(Items), NEW item \in Items, NEW a \in Nat, Chain(q, a, item.from)
  PROVE  Append(q, item) \in Seq(Items) /\ Append(q, item) # <<>> /\ Chain(Append(q, item), a, item.to)
<1> DEFINE p == Append(q, item)
<1>1. /\ p \in Seq(Items) /\ Len(q) \in Nat /\ Len(p) = Len(q) + 1 /\ p[Len(q) + 1] = item /\ p # <<>>
      /\ \A n \in 1..Len(q) : p[n] = q[n]
      OBVIOUS
<1> HIDE DEF p
<1>2. p[1].from = a
  <2>1. CASE q = <<>>
    <3>1. p[1] = item
          BY <1>1, <2>1
    <3> QED BY <2>1, <3>1 DEF Chain
  <2>2. CASE q # <<>>
    <3>1. 1 \in 1..Len(q)
          BY <1>1, <2>2
    <3> QED BY <1>1, <2>2, <3>1 DEF Chain
  <2> QED BY <2>1, <2>2
<1>3. ASSUME NEW n \in 1..(Len(p) - 1) PROVE p[n + 1].from = p[n].to
  <2>1. CASE n = Len(q)
    <3>1. Len(q) \in 1..Len(q) /\ q # <<>>
          BY <1>1, <2>1
    <3> QED BY <1>1, <2>1, <3>1 DEF Chain
  <2>2. CASE n # Len(q)
    <3>1. n \in 1..(Len(q) - 1) /\ n \in 1..Len(q) /\ n + 1 \in 1..Len(q)
          BY <1>1, <2>2
    <3> QED BY <1>1, <3>1 DEF Chain
  <2> QED BY <2>1, <2>2
<1> QED BY <1>1, <1>2, <1>3 DEF p, Chain

\* What append makes of an utterance: it goes on, perhaps confirmed, or is cut.
LEMMA AppendIs ==
  ASSUME NEW a \in Assemblers, NEW item \in Items, NEW voiced \in BOOLEAN, a.speaking
  PROVE  LET r == append(a, item, voiced)
             longer == Append(a.speech, item)
             told == [type |-> "confirmed", at |-> item]
             cut(type) == [type |-> type, at |-> item, samples |-> longer] IN
         /\ r.asm \in Assemblers
         /\ \/ r.asm = Silent /\ ~a.confirmed /\ r.events = <<cut("dropped")>>
            \/ r.asm = Silent /\ ~a.confirmed /\ r.events = <<told, cut("end")>>
            \/ r.asm = Silent /\ a.confirmed /\ r.events = <<cut("end")>>
            \/ /\ r.asm.speaking /\ r.asm.speech = longer /\ ~(Total(longer) >= MaxSpeech)
               /\ \/ ~a.confirmed /\ r.asm.confirmed /\ r.events = <<told>>
                  \/ r.asm.confirmed = a.confirmed /\ r.events = <<>>
<1> DEFINE r == append(a, item, voiced)
           told == [type |-> "confirmed", at |-> item]
           confirms == ~a.confirmed /\ a.voiced + (IF voiced THEN Size(item) ELSE 0) >= MinSpeech
           longer == [a EXCEPT !.speech = Append(@, item), !.confirmed = @ \/ confirms,
                               !.voiced = IF voiced THEN @ + Size(item) ELSE @,
                               !.silence = IF voiced THEN 0 ELSE @ + Size(item)]
           over == Total(longer.speech) >= MaxSpeech \/ longer.silence >= Silence
           ending == [type |-> IF longer.confirmed THEN "end" ELSE "dropped", at |-> item, samples |-> longer.speech]
<1>1. r = [asm |-> IF over THEN Silent ELSE longer,
           events |-> (IF confirms THEN <<told>> ELSE <<>>) \o (IF over THEN <<ending>> ELSE <<>>)]
      BY DEF append
<1>2. Size(item) \in Nat
      BY DEF Items, Size
<1>3. Append(a.speech, item) \in Seq(Items) /\ a.confirmed \in BOOLEAN /\ confirms \in BOOLEAN
      BY DEF Assemblers
<1> HIDE DEF confirms
<1>4. /\ longer \in Assemblers /\ longer.speaking /\ longer.speech = Append(a.speech, item)
      /\ longer.confirmed = (a.confirmed \/ confirms)
  <2>1. /\ a \in [pre : Seq(Items), speech : Seq(Items), speaking : BOOLEAN, confirmed : BOOLEAN,
                   voiced : Nat, silence : Nat]
        /\ a.voiced \in Nat /\ a.silence \in Nat
        BY DEF Assemblers
  <2> DEFINE loud == IF voiced THEN a.voiced + Size(item) ELSE a.voiced
             still == IF voiced THEN 0 ELSE a.silence + Size(item)
             known == a.confirmed \/ confirms
  <2>2. loud \in Nat /\ still \in Nat /\ known \in BOOLEAN
        BY <1>2, <1>3, <2>1
  <2>3. longer = [a EXCEPT !.speech = Append(a.speech, item), !.confirmed = known,
                           !.voiced = loud, !.silence = still]
        OBVIOUS
  <2> HIDE DEF loud, still, known, longer
  <2>4. longer \in Assemblers /\ longer.speaking /\ longer.speech = Append(a.speech, item) /\ longer.confirmed = known
        BY <1>3, <2>1, <2>2, <2>3 DEF Assemblers
  <2> QED BY <2>4 DEF known
<1>5. Silent \in Assemblers
      BY DEF Silent, Assemblers
<1>6. confirms => ~a.confirmed
      BY DEF confirms
<1> HIDE DEF r, longer
<1>7. over \in BOOLEAN /\ (~over => ~(Total(longer.speech) >= MaxSpeech))
      OBVIOUS
<1> HIDE DEF over
<1>8. \A x, y : <<x>> \o <<>> = <<x>> /\ <<x>> \o <<y>> = <<x, y>> /\ <<>> \o <<y>> = <<y>>
  <2> TAKE x, y
  <2>1. <<x>> \in Seq({x, y}) /\ <<y>> \in Seq({x, y}) /\ <<>> \in Seq({x, y})
        OBVIOUS
  <2>2. <<x>> \o <<>> = <<x>> /\ <<>> \o <<y>> = <<y>>
        BY <2>1
  <2>3. <<x>> \o <<y>> = <<x, y>>
    <3> DEFINE p == <<x>> \o <<y>>
    <3>1. p \in Seq({x, y}) /\ Len(p) = 2 /\ p[1] = x /\ p[2] = y
          BY <2>1
    <3>2. <<x, y>> \in Seq({x, y}) /\ Len(<<x, y>>) = 2
          OBVIOUS
    <3> HIDE DEF p
    <3>3. \A i \in 1..2 : p[i] = <<x, y>>[i]
          BY <3>1
    <3>4. p = <<x, y>>
      <4> DEFINE u == <<x, y>>
      <4>1. u \in Seq({x, y}) /\ Len(u) = 2 /\ \A i \in 1..2 : p[i] = u[i]
            BY <3>2, <3>3
      <4> HIDE DEF u
      <4>2. p = u
            BY <3>1, <4>1
      <4> QED BY <4>2 DEF u
    <3> QED BY <3>4 DEF p
  <2> QED BY <2>2, <2>3
<1>9. <<>> \o <<>> = <<>>
  <2>1. <<>> \in Seq(Nat)
        OBVIOUS
  <2> QED BY <2>1
<1> HIDE DEF told
<1>10. CASE over /\ confirms
  <2>1. r.asm = Silent /\ r.events = <<told, ending>> /\ ending.type = "end"
        BY <1>1, <1>4, <1>8, <1>10
  <2> QED BY <1>4, <1>5, <1>6, <1>10, <2>1 DEF r, told
<1>11. CASE over /\ ~confirms
  <2>1. r.asm = Silent /\ r.events = <<ending>> /\ ending.type = IF a.confirmed THEN "end" ELSE "dropped"
        BY <1>1, <1>4, <1>8, <1>11
  <2> QED BY <1>3, <1>4, <1>5, <1>11, <2>1 DEF r
<1>12. CASE ~over /\ confirms
  <2>1. r.asm = longer /\ r.events = <<told>>
        BY <1>1, <1>8, <1>12
  <2> QED BY <1>4, <1>6, <1>7, <1>12, <2>1 DEF r, told
<1>13. CASE ~over /\ ~confirms
  <2>1. r.asm = longer /\ r.events = <<>>
        BY <1>1, <1>9, <1>13
  <2> QED BY <1>3, <1>4, <1>7, <1>13, <2>1 DEF r
<1> QED BY <1>3, <1>7, <1>10, <1>11, <1>12, <1>13

\* One sequence behind another.
LEMMA JoinedAre ==
  ASSUME NEW T, NEW a \in Seq(T), NEW b \in Seq(T)
  PROVE  /\ a \o b \in Seq(T) /\ Len(a \o b) = Len(a) + Len(b)
         /\ \A i \in 1..Len(a) : (a \o b)[i] = a[i]
         /\ \A i \in 1..Len(b) : (a \o b)[Len(a) + i] = b[i]
  OBVIOUS

\* Events, with what was known of the last reset or the last utterance.
Heard(events, since) == [n \in DOMAIN events |-> [event |-> events[n], since |-> since]]
Closes(events) == \E n \in DOMAIN events : events[n].type \in {"end", "dropped"}

\* They are as many, and follow each other as before.
LEMMA HeardAre ==
  ASSUME NEW e \in Seq(Plain \union Cuts), NEW since \in Nat
  PROVE  /\ Heard(e, since) \in Seq(Events) /\ Len(Heard(e, since)) = Len(e)
         /\ \A n \in 1..Len(e) : Heard(e, since)[n].event = e[n] /\ Heard(e, since)[n].since = since
         /\ \A f \in Seq(Plain \union Cuts) : Heard(e \o f, since) = Heard(e, since) \o Heard(f, since)
<1>1. ASSUME NEW d \in Seq(Plain \union Cuts)
      PROVE  /\ Heard(d, since) \in Seq(Events) /\ Len(Heard(d, since)) = Len(d)
             /\ \A n \in 1..Len(d) : Heard(d, since)[n] = [event |-> d[n], since |-> since]
  <2>1. Len(d) \in Nat /\ DOMAIN d = 1..Len(d) /\ \A n \in 1..Len(d) : [event |-> d[n], since |-> since] \in Events
        BY DEF Events
  <2> QED BY <2>1 DEF Heard
<1>2. ASSUME NEW f \in Seq(Plain \union Cuts) PROVE Heard(e \o f, since) = Heard(e, since) \o Heard(f, since)
  <2> DEFINE s == Heard(e \o f, since)
             t == Heard(e, since) \o Heard(f, since)
  <2>1. /\ e \o f \in Seq(Plain \union Cuts) /\ Len(e \o f) = Len(e) + Len(f)
        /\ \A n \in 1..Len(e) : (e \o f)[n] = e[n]
        /\ \A n \in 1..Len(f) : (e \o f)[Len(e) + n] = f[n]
        /\ Len(e) \in Nat /\ Len(f) \in Nat
        OBVIOUS
  <2>2. s \in Seq(Events) /\ Len(s) = Len(e) + Len(f) /\ \A n \in 1..Len(s) : s[n] = [event |-> (e \o f)[n], since |-> since]
        BY <1>1, <2>1
  <2> HIDE DEF s
  <2>3. /\ t \in Seq(Events) /\ Len(t) = Len(e) + Len(f)
        /\ \A n \in 1..Len(e) : t[n] = [event |-> e[n], since |-> since]
        /\ \A n \in 1..Len(f) : t[Len(e) + n] = [event |-> f[n], since |-> since]
    <3> DEFINE x == Heard(e, since)
               y == Heard(f, since)
    <3>1. /\ x \in Seq(Events) /\ Len(x) = Len(e) /\ \A n \in 1..Len(e) : x[n] = [event |-> e[n], since |-> since]
          /\ y \in Seq(Events) /\ Len(y) = Len(f) /\ \A n \in 1..Len(f) : y[n] = [event |-> f[n], since |-> since]
          BY <1>1
    <3> HIDE DEF x, y
    <3>2. /\ x \o y \in Seq(Events) /\ Len(x \o y) = Len(x) + Len(y)
          /\ \A n \in 1..Len(x) : (x \o y)[n] = x[n]
          /\ \A n \in 1..Len(y) : (x \o y)[Len(x) + n] = y[n]
      <4>1. x \in Seq(Events) /\ y \in Seq(Events)
            BY <3>1
      <4> QED BY ONLY <4>1
    <3> QED BY <3>1, <3>2 DEF x, y
  <2> HIDE DEF t
  <2>4. ASSUME NEW n \in 1..(Len(e) + Len(f)) PROVE s[n] = t[n]
    <3>1. CASE n \in 1..Len(e)
          BY <2>1, <2>2, <2>3, <3>1
    <3>2. CASE n \notin 1..Len(e)
      <4> DEFINE m == n - Len(e)
      <4>1. m \in 1..Len(f) /\ n = Len(e) + m
            BY <2>1, <3>2
      <4> HIDE DEF m
      <4> QED BY <2>1, <2>2, <2>3, <4>1
    <3> QED BY <3>1, <3>2
  <2>5. s = t
        BY <2>2, <2>3, <2>4, SeqEqual
  <2> QED BY <2>5 DEF s, t
<1>3. /\ Heard(e, since) \in Seq(Events) /\ Len(Heard(e, since)) = Len(e)
      /\ \A n \in 1..Len(e) : Heard(e, since)[n] = [event |-> e[n], since |-> since]
      BY <1>1
<1>4. \A n \in 1..Len(e) : Heard(e, since)[n].event = e[n] /\ Heard(e, since)[n].since = since
  <2> TAKE n \in 1..Len(e)
  <2> DEFINE u == Heard(e, since)[n]
  <2>1. u = [event |-> e[n], since |-> since]
        BY <1>3
  <2> HIDE DEF u
  <2>2. u.event = e[n] /\ u.since = since
        BY <2>1
  <2> QED BY <2>2 DEF u
<1> QED BY <1>2, <1>3, <1>4

\* What each event has to follow, ...
LEMMA BeforeIs ==
  Before("confirmed") = "started" /\ Before("end") = "confirmed" /\ Before("dropped") = "started"
BY DEF Before

\* ... and what is known after it.
LEMMA AfterConfirmed ==
  ASSUME NEW p, NEW heard, heard.event.type = "confirmed" PROVE Told(p, heard) = "confirmed"
BY DEF Told

\* After the end of an utterance there is none.
LEMMA AfterCut ==
  ASSUME NEW p, NEW heard, heard.event.type \in {"end", "dropped"} PROVE Told(p, heard) = "none"
BY DEF Told

\* None, one and two of them.
LEMMA LeadsShort ==
  ASSUME NEW p, NEW w \in Seq(Events)
  PROVE  /\ Len(w) = 0 => Leads(p, w, p)
         /\ Len(w) = 1 /\ Before(w[1].event.type) = p => Leads(p, w, Told(p, w[1]))
         /\ Len(w) = 2 /\ Before(w[1].event.type) = p /\ Before(w[2].event.type) = Told(p, w[1]) =>
               Leads(p, w, Told(p, w[2]))
<1>1. DOMAIN w = 1..Len(w)
      OBVIOUS
<1>2. ASSUME Len(w) = 0 PROVE Leads(p, w, p)
  <2>1. w = <<>> /\ DOMAIN w = {}
        BY <1>1, <1>2
  <2> QED BY <2>1 DEF Leads
<1>3. ASSUME Len(w) = 1, Before(w[1].event.type) = p PROVE Leads(p, w, Told(p, w[1]))
  <2>1. w # <<>> /\ \A n \in DOMAIN w : n = 1
        BY <1>1, <1>3
  <2> QED BY <1>3, <2>1 DEF Leads
<1>4. ASSUME Len(w) = 2, Before(w[1].event.type) = p, Before(w[2].event.type) = Told(p, w[1])
      PROVE  Leads(p, w, Told(p, w[2]))
  <2>1. w # <<>>
    <3>1. w = <<>> => Len(w) = 0
          OBVIOUS
    <3> QED BY <1>4, <3>1
  <2>4. \A n \in DOMAIN w : n = 1 \/ n = 2
    <3>1. 1..2 = {1, 2}
          OBVIOUS
    <3> QED BY <1>1, <1>4, <3>1
  <2>2. 2 - 1 = 1 /\ 2 # 1
        OBVIOUS
  <2> QED BY <1>4, <2>1, <2>2, <2>4 DEF Leads
<1> QED BY <1>2, <1>3, <1>4

\* Its events take an utterance from where it was to where it is.
LEMMA AppendLeads ==
  ASSUME NEW a \in Assemblers, NEW item \in Items, NEW voiced \in BOOLEAN, a.speaking, NEW since \in Nat
  PROVE  LET r == append(a, item, voiced) IN
         /\ r.asm \in Assemblers /\ r.events \in Seq(Plain \union Cuts)
         /\ Leads(Stage(a), Heard(r.events, since), Stage(r.asm))
<1> DEFINE r == append(a, item, voiced)
           told == [type |-> "confirmed", at |-> item]
           cut(type) == [type |-> type, at |-> item, samples |-> Append(a.speech, item)]
<1>1. /\ r.asm \in Assemblers
      /\ \/ r.asm = Silent /\ ~a.confirmed /\ r.events = <<cut("dropped")>>
         \/ r.asm = Silent /\ ~a.confirmed /\ r.events = <<told, cut("end")>>
         \/ r.asm = Silent /\ a.confirmed /\ r.events = <<cut("end")>>
         \/ r.asm.speaking /\ ~a.confirmed /\ r.asm.confirmed /\ r.events = <<told>>
         \/ r.asm.speaking /\ r.asm.confirmed = a.confirmed /\ r.events = <<>>
      BY AppendIs
<1> HIDE DEF r
<1>2. told \in Plain /\ cut("end") \in Cuts /\ cut("dropped") \in Cuts
      BY DEF Plain, Cuts, Assemblers
<1>3. told.type = "confirmed" /\ \A t \in {"end", "dropped"} : cut(t).type = t
      OBVIOUS
<1> HIDE DEF told, cut
<1>4. r.events \in Seq(Plain \union Cuts)
  <2>1. \A x, y \in Plain \union Cuts : <<>> \in Seq(Plain \union Cuts) /\ <<x>> \in Seq(Plain \union Cuts)
                                       /\ <<x, y>> \in Seq(Plain \union Cuts)
        OBVIOUS
  <2>2. told \in Plain \union Cuts /\ cut("end") \in Plain \union Cuts /\ cut("dropped") \in Plain \union Cuts
        BY <1>2
  <2> QED BY <1>1, <2>1, <2>2
<1> DEFINE w == Heard(r.events, since)
<1>5. /\ w \in Seq(Events) /\ Len(w) = Len(r.events)
      /\ \A n \in 1..Len(r.events) : w[n].event = r.events[n]
      BY <1>4, HeardAre
<1> HIDE DEF w
<1>6. Stage(Silent) = "none" /\ (r.asm.speaking => Stage(r.asm) = IF r.asm.confirmed THEN "confirmed" ELSE "started")
      BY DEF Stage, Silent
<1>7. Stage(a) = IF a.confirmed THEN "confirmed" ELSE "started"
      BY DEF Stage
<1>8. ASSUME r.asm = Silent /\ ~a.confirmed /\ r.events = <<cut("dropped")>>
     PROVE  Leads(Stage(a), w, Stage(r.asm))
  <2>1. Len(r.events) = 1 /\ 1 \in 1..Len(r.events) /\ r.events[1] = cut("dropped")
        BY <1>8
  <2>2. Len(w) = 1 /\ w[1].event.type = "dropped"
        BY <1>3, <1>5, <2>1
  <2>3. Before("dropped") = "started" /\ Told(Stage(a), w[1]) = "none"
        BY <2>2, BeforeIs, AfterConfirmed, AfterCut
  <2> QED BY <1>5, <1>6, <1>7, <1>8, <2>2, <2>3, LeadsShort
<1>9. ASSUME r.asm = Silent /\ ~a.confirmed /\ r.events = <<told, cut("end")>>
     PROVE  Leads(Stage(a), w, Stage(r.asm))
  <2>1. Len(r.events) = 2 /\ 1 \in 1..Len(r.events) /\ 2 \in 1..Len(r.events)
        BY <1>9
  <2>2. r.events[1] = told /\ r.events[2] = cut("end")
        BY <1>9
  <2>3. Len(w) = 2 /\ w[1].event.type = "confirmed" /\ w[2].event.type = "end"
        BY <1>3, <1>5, <2>1, <2>2
  <2>4. /\ Before("confirmed") = "started" /\ Told(Stage(a), w[1]) = "confirmed"
        /\ Before("end") = "confirmed" /\ Told(Stage(a), w[2]) = "none"
        BY <2>3, BeforeIs, AfterConfirmed, AfterCut
  <2> QED BY <1>5, <1>6, <1>7, <1>9, <2>3, <2>4, LeadsShort
<1>10. ASSUME r.asm = Silent /\ a.confirmed /\ r.events = <<cut("end")>>
     PROVE  Leads(Stage(a), w, Stage(r.asm))
  <2>1. Len(r.events) = 1 /\ 1 \in 1..Len(r.events) /\ r.events[1] = cut("end")
        BY <1>10
  <2>2. Len(w) = 1 /\ w[1].event.type = "end"
        BY <1>3, <1>5, <2>1
  <2>3. Before("end") = "confirmed" /\ Told(Stage(a), w[1]) = "none"
        BY <2>2, BeforeIs, AfterConfirmed, AfterCut
  <2> QED BY <1>5, <1>6, <1>7, <1>10, <2>2, <2>3, LeadsShort
<1>11. ASSUME r.asm.speaking /\ ~a.confirmed /\ r.asm.confirmed /\ r.events = <<told>>
     PROVE  Leads(Stage(a), w, Stage(r.asm))
  <2>1. Len(r.events) = 1 /\ 1 \in 1..Len(r.events) /\ r.events[1] = told
        BY <1>11
  <2>2. Len(w) = 1 /\ w[1].event.type = "confirmed"
        BY <1>3, <1>5, <2>1
  <2>3. Before("confirmed") = "started" /\ Told(Stage(a), w[1]) = "confirmed"
        BY <2>2, BeforeIs, AfterConfirmed, AfterCut
  <2>4. Stage(a) = "started" /\ Stage(r.asm) = "confirmed"
        BY <1>6, <1>7, <1>11
  <2> QED BY ONLY <1>5, <2>2, <2>3, <2>4, LeadsShort
<1>12. ASSUME r.asm.speaking /\ r.asm.confirmed = a.confirmed /\ r.events = <<>>
     PROVE  Leads(Stage(a), w, Stage(r.asm))
  <2>1. Len(w) = 0 /\ Stage(r.asm) = Stage(a)
        BY <1>5, <1>6, <1>7, <1>12
  <2> QED BY <1>5, <2>1, LeadsShort
<1> QED BY <1>1, <1>4, <1>8, <1>9, <1>10, <1>11, <1>12 DEF r, w

\* A chain that began late enough, and is short enough, is a whole utterance.
LEMMA WholeIs ==
  ASSUME NEW h, NEW q \in Seq(Items), q # <<>>, NEW since \in Nat, NEW from \in Nat, NEW item \in Items,
         h.event.samples = q, h.event.at = item, h.since = since, since <= from,
         Chain(q, from, item.to), item.to - from < MaxSpeech + PreRoll + LongestItem
  PROVE  Whole(h)
<1>1. q[1].from = from /\ q[Len(q)].to = item.to /\ \A n \in 1..(Len(q) - 1) : q[n + 1].from = q[n].to
      BY DEF Chain
<1>2. item.to \in Nat
      BY DEF Items
<1>3. Total(q) = item.to - from
      BY <1>2, ChainIs
<1>4. Head(q) = q[1] /\ Last(q) = q[Len(q)]
      BY DEF Last
<1> QED BY <1>1, <1>3, <1>4 DEF Whole

\* An utterance goes on with the item, or ends with it.
LEMMA AppendKeeps ==
  ASSUME NEW a \in Assemblers, NEW item \in Items, NEW voiced \in BOOLEAN, a.speaking, NEW since \in Nat,
         NEW from \in since..item.from, Chain(a.speech, from, item.from),
         item.from - from < MaxSpeech + PreRoll, Size(item) <= LongestItem
  PROVE  LET r == append(a, item, voiced) IN
         /\ Gathered(r.asm, IF Closes(r.events) THEN item.to ELSE since, item.to)
         /\ \A n \in DOMAIN r.events : r.events[n].type = "end" => Whole(Heard(r.events, since)[n])
<1> DEFINE r == append(a, item, voiced)
           longer == Append(a.speech, item)
           told == [type |-> "confirmed", at |-> item]
           cut(type) == [type |-> type, at |-> item, samples |-> longer]
<1>1. /\ r.asm \in Assemblers
      /\ \/ r.asm = Silent /\ r.events = <<cut("dropped")>>
         \/ r.asm = Silent /\ r.events = <<told, cut("end")>>
         \/ r.asm = Silent /\ r.events = <<cut("end")>>
         \/ /\ r.asm.speaking /\ r.asm.speech = longer /\ ~(Total(longer) >= MaxSpeech)
            /\ \/ r.events = <<told>>
               \/ r.events = <<>>
      BY AppendIs
<1>2. r.events \in Seq(Plain \union Cuts)
      BY AppendLeads
<1> HIDE DEF r
<1>3. /\ item.from \in Nat /\ item.to \in Nat /\ item.from <= item.to /\ from \in Nat /\ since <= from
      /\ from <= item.from /\ a.speech \in Seq(Items)
      BY DEF Items, Assemblers
<1>4. MaxSpeech \in Nat \ {0} /\ PreRoll \in Nat /\ LongestItem \in Nat
      BY SegmenterAssumption, LongestIs
<1>5. longer \in Seq(Items) /\ longer # <<>> /\ Chain(longer, from, item.to)
      BY <1>3, ChainOn
<1>6. Total(longer) = item.to - from
      BY <1>3, <1>5, ChainIs
<1> HIDE DEF longer
<1>7. item.to - from < MaxSpeech + PreRoll + LongestItem
  <2>1. item.to - from = (item.from - from) + Size(item) /\ Size(item) \in Nat
        BY <1>3 DEF Size
  <2>2. item.from - from \in Nat
        BY <1>3
  <2> DEFINE n == item.from - from
             m == Size(item)
             k == item.to - from
  <2>3. n \in Nat /\ m \in Nat /\ k = n + m /\ n < MaxSpeech + PreRoll /\ m <= LongestItem
        BY <2>1, <2>2
  <2> HIDE DEF n, m, k
  <2>4. k < MaxSpeech + PreRoll + LongestItem
        BY <1>4, <2>3
  <2> QED BY <2>4 DEF k
<1>8. told.type = "confirmed" /\ \A t \in {"end", "dropped"} : cut(t).type = t /\ cut(t).at = item /\ cut(t).samples = longer
      OBVIOUS
<1> HIDE DEF told, cut
<1>9. DOMAIN r.events = 1..Len(r.events)
      BY <1>2
<1>10. Gathered(r.asm, IF Closes(r.events) THEN item.to ELSE since, item.to)
  <2>1. CASE r.asm = Silent
    <3>1. Closes(r.events)
      <4>1. \/ 1 \in DOMAIN r.events /\ r.events[1].type \in {"end", "dropped"}
            \/ 2 \in DOMAIN r.events /\ r.events[2].type \in {"end", "dropped"}
        <5>1. CASE r.events = <<cut("dropped")>>
              BY <1>8, <5>1
        <5>2. CASE r.events = <<told, cut("end")>>
              BY <1>8, <5>2
        <5>3. CASE r.events = <<cut("end")>>
              BY <1>8, <5>3
        <5>4. ~Silent.speaking
              BY DEF Silent
        <5> QED BY <1>1, <2>1, <5>1, <5>2, <5>3, <5>4
      <4> QED BY <4>1 DEF Closes
    <3>2. Silent.pre = <<>> /\ ~Silent.speaking
          BY DEF Silent
    <3>3. Chain(<<>>, item.to, item.to)
      <4>1. 1..(Len(<<>>) - 1) = {}
            OBVIOUS
      <4> QED BY <4>1 DEF Chain
    <3>4. item.to \in item.to..item.to /\ item.to - item.to <= PreRoll
          BY <1>3, <1>4
    <3> QED BY <2>1, <3>1, <3>2, <3>3, <3>4 DEF Gathered
  <2>2. CASE r.asm.speaking /\ r.asm.speech = longer /\ ~(Total(longer) >= MaxSpeech) /\ r.events \in {<<told>>, <<>>}
    <3>1. ~Closes(r.events)
      <4>1. CASE r.events = <<told>>
        <5>1. \A n \in DOMAIN r.events : r.events[n] = told
              BY <4>1
        <5> QED BY <1>8, <5>1 DEF Closes
      <4>2. CASE r.events = <<>>
            BY <4>2 DEF Closes
      <4> QED BY <2>2, <4>1, <4>2
    <3>2. from \in since..item.to /\ item.to - from < MaxSpeech
          BY <1>3, <1>4, <1>6, <2>2
    <3> QED BY <1>5, <2>2, <3>1, <3>2 DEF Gathered
  <2> QED BY <1>1, <2>1, <2>2
<1>11. ASSUME NEW n \in DOMAIN r.events, r.events[n].type = "end" PROVE Whole(Heard(r.events, since)[n])
  <2>1. r.events[n] = cut("end")
    <3>1. CASE r.events = <<cut("dropped")>>
          BY <1>8, <1>11, <3>1
    <3>2. CASE r.events = <<told, cut("end")>>
      <4>1. n \in 1..2 /\ r.events[1] = told /\ r.events[2] = cut("end")
            BY <3>2
      <4>2. n = 1 \/ n = 2
            BY <4>1
      <4> QED BY <1>8, <1>11, <4>1, <4>2
    <3>3. CASE r.events = <<cut("end")>>
          BY <1>11, <3>3
    <3>4. CASE r.events = <<told>>
          BY <1>8, <1>11, <3>4
    <3>5. CASE r.events = <<>>
          BY <1>11, <3>5
    <3> QED BY <1>1, <3>1, <3>2, <3>3, <3>4, <3>5
  <2> DEFINE h == Heard(r.events, since)[n]
  <2>2. h.event = r.events[n] /\ h.since = since
        BY <1>2, <1>9, <1>11, HeardAre
  <2> HIDE DEF h
  <2>3. h.event.samples = longer /\ h.event.at = item
        BY <1>8, <2>1, <2>2
  <2>4. Whole(h)
        BY <1>3, <1>5, <1>7, <2>2, <2>3, WholeIs
  <2> QED BY <2>4 DEF h
<1> QED BY <1>10, <1>11 DEF r

\* push keeps what an assembler holds, and tells of it in order.
LEMMA PushIs ==
  ASSUME NEW a \in Assemblers, NEW item \in Items, NEW voiced \in BOOLEAN, NEW since \in Nat
  PROVE  LET r == pushed(a, item, voiced) IN
         /\ r.asm \in Assemblers /\ r.events \in Seq(Plain \union Cuts)
         /\ Leads(Stage(a), Heard(r.events, since), Stage(r.asm))
         /\ Gathered(a, since, item.from) /\ Size(item) <= LongestItem =>
               /\ Gathered(r.asm, IF Closes(r.events) THEN item.to ELSE since, item.to)
               /\ \A n \in DOMAIN r.events : r.events[n].type = "end" => Whole(Heard(r.events, since)[n])
<1> DEFINE r == pushed(a, item, voiced)
<1>1. /\ item.from \in Nat /\ item.to \in Nat /\ item.from <= item.to
      /\ a.speech \in Seq(Items) /\ a.pre \in Seq(Items) /\ a.speaking \in BOOLEAN
      BY DEF Items, Assemblers
<1>2. MaxSpeech \in Nat \ {0} /\ PreRoll \in Nat
      BY SegmenterAssumption
<1>3. CASE a.speaking
  <2>1. r = append(a, item, voiced)
        BY <1>3 DEF pushed
  <2>2. /\ r.asm \in Assemblers /\ r.events \in Seq(Plain \union Cuts)
        /\ Leads(Stage(a), Heard(r.events, since), Stage(r.asm))
        BY <1>3, <2>1, AppendLeads
  <2>3. ASSUME Gathered(a, since, item.from), Size(item) <= LongestItem
        PROVE  /\ Gathered(r.asm, IF Closes(r.events) THEN item.to ELSE since, item.to)
               /\ \A n \in DOMAIN r.events : r.events[n].type = "end" => Whole(Heard(r.events, since)[n])
    <3>1. PICK from \in since..item.from : Chain(a.speech, from, item.from) /\ item.from - from < MaxSpeech
          BY <1>3, <2>3 DEF Gathered
    <3>2. item.from - from < MaxSpeech + PreRoll
          BY <1>1, <1>2, <3>1
    <3> QED BY <1>3, <2>1, <2>3, <3>1, <3>2, AppendKeeps
  <2> HIDE DEF r
  <2>4. Gathered(a, since, item.from) /\ Size(item) <= LongestItem =>
               /\ Gathered(r.asm, IF Closes(r.events) THEN item.to ELSE since, item.to)
               /\ \A n \in DOMAIN r.events : r.events[n].type = "end" => Whole(Heard(r.events, since)[n])
        BY <2>3
  <2> QED BY <2>2, <2>4 DEF r
<1>4. CASE ~a.speaking /\ ~voiced
  <2> DEFINE pre == Kept(Append(a.pre, item))
  <2>1. r = [asm |-> [a EXCEPT !.pre = pre], events |-> <<>>]
        BY <1>4 DEF pushed
  <2>2. Append(a.pre, item) \in Seq(Items)
        BY <1>1
  <2>3. pre \in Seq(Items)
        BY <1>2, <2>2, LatestKeeps DEF Kept
  <2>4. ASSUME Gathered(a, since, item.from) PROVE Gathered([a EXCEPT !.pre = pre], since, item.to)
    <3>1. PICK from \in since..item.from : Chain(a.pre, from, item.from)
          BY <1>4, <2>4 DEF Gathered
    <3>2. from \in Nat /\ since <= from
          BY <1>1, <3>1
    <3>3. Chain(Append(a.pre, item), from, item.to)
          BY <1>1, <3>1, <3>2, ChainOn
    <3>4. PICK c \in from..item.to : Chain(pre, c, item.to) /\ item.to - c <= PreRoll
          BY <1>1, <1>2, <2>2, <3>2, <3>3, LatestKeeps DEF Kept
    <3>5. c \in since..item.to
          BY <1>1, <3>2, <3>4
    <3> HIDE DEF pre
    <3>6. [a EXCEPT !.pre = pre].pre = pre /\ ~[a EXCEPT !.pre = pre].speaking
          BY <1>4 DEF Assemblers
    <3> QED BY <3>4, <3>5, <3>6 DEF Gathered
  <2> HIDE DEF pre, r
  <2>5. /\ r.asm = [a EXCEPT !.pre = pre] /\ r.events = <<>> /\ r.asm \in Assemblers
        /\ Stage(r.asm) = Stage(a) /\ ~Closes(r.events)
    <3>1. r.asm = [a EXCEPT !.pre = pre] /\ r.events = <<>>
          BY <2>1
    <3>2. [a EXCEPT !.pre = pre] \in Assemblers /\ ~[a EXCEPT !.pre = pre].speaking
          BY <1>4, <2>3 DEF Assemblers
    <3> QED BY <1>4, <3>1, <3>2 DEF Stage, Closes
  <2>6. r.events \in Seq(Plain \union Cuts) /\ Len(r.events) = 0
        BY <2>5
  <2>7. Leads(Stage(a), Heard(r.events, since), Stage(a))
        BY <2>6, HeardAre, LeadsShort
  <2>8. \A n \in DOMAIN r.events : FALSE
        BY <2>5
  <2>9. Gathered(a, since, item.from) => Gathered(r.asm, since, item.to)
        BY <2>4, <2>5
  <2> QED BY <2>5, <2>6, <2>7, <2>8, <2>9 DEF r
<1>5. CASE ~a.speaking /\ voiced
  <2> DEFINE b == onset(a, item)
             f == append(b, item, TRUE)
             start == <<[type |-> "start", at |-> item]>>
  <2>1. /\ b \in Assemblers /\ b.speaking /\ b.speech = a.pre /\ Stage(b) = "started"
    <3> DEFINE n == Silent
    <3>4. n \in Assemblers /\ ~n.confirmed
          BY DEF Silent, Assemblers
    <3>1. b = [n EXCEPT !.speaking = TRUE, !.speech = a.pre]
          BY DEF onset
    <3> HIDE DEF n
    <3> HIDE DEF b
    <3>2. b \in Assemblers
          BY <1>1, <3>1, <3>4 DEF Assemblers
    <3>3. b.speaking /\ b.speech = a.pre /\ ~b.confirmed
          BY <3>1, <3>4 DEF Assemblers
    <3> QED BY <3>2, <3>3 DEF Stage
  <2>2. r = [f EXCEPT !.events = start \o @]
        BY <1>5 DEF pushed
  <2> HIDE DEF b
  <2>3. /\ f.asm \in Assemblers /\ f.events \in Seq(Plain \union Cuts)
        /\ Leads("started", Heard(f.events, since), Stage(f.asm))
        BY <2>1, AppendLeads
  <2>4. f = [asm |-> f.asm, events |-> f.events]
        BY DEF append
  <2>5. ASSUME Gathered(a, since, item.from), Size(item) <= LongestItem
        PROVE  /\ Gathered(f.asm, IF Closes(f.events) THEN item.to ELSE since, item.to)
               /\ \A n \in DOMAIN f.events : f.events[n].type = "end" => Whole(Heard(f.events, since)[n])
    <3>1. PICK from \in since..item.from : Chain(a.pre, from, item.from) /\ item.from - from <= PreRoll
          BY <1>5, <2>5 DEF Gathered
    <3>2. item.from - from < MaxSpeech + PreRoll
          BY <1>1, <1>2, <3>1
    <3> QED BY <2>1, <2>5, <3>1, <3>2, AppendKeeps
  <2> HIDE DEF f, start, r
  <2>6. r.asm = f.asm /\ r.events = start \o f.events
        BY <2>2, <2>4
  <2>7. /\ start \in Seq(Plain \union Cuts) /\ Len(start) = 1 /\ start[1].type = "start"
    <3>1. [type |-> "start", at |-> item] \in Plain
          BY DEF Plain
    <3> QED BY <3>1 DEF start
  <2> DEFINE w == Heard(start, since)
             v == Heard(f.events, since)
  <2>8. /\ w \in Seq(Events) /\ Len(w) = 1 /\ w[1].event = start[1]
        /\ v \in Seq(Events) /\ Len(v) = Len(f.events) /\ \A n \in 1..Len(f.events) : v[n].event = f.events[n]
        /\ Heard(r.events, since) = w \o v
    <3>1. /\ w \in Seq(Events) /\ Len(w) = Len(start) /\ \A n \in 1..Len(start) : w[n].event = start[n]
          /\ Heard(start \o f.events, since) = w \o v
          BY <2>3, <2>7, HeardAre
    <3>2. v \in Seq(Events) /\ Len(v) = Len(f.events) /\ \A n \in 1..Len(f.events) : v[n].event = f.events[n]
          BY <2>3, HeardAre
    <3>3. 1 \in 1..Len(start)
          BY <2>7
    <3> QED BY <2>6, <2>7, <3>1, <3>2, <3>3
  <2>9. Leads("none", w, "started")
    <3>1. Before("start") = "none" /\ Told("none", w[1]) = "started"
          BY <2>7, <2>8 DEF Before, Told
    <3>2. w \in Seq(Events) /\ Len(w) = 1 /\ w[1].event.type = "start"
          BY <2>7, <2>8
    <3> HIDE DEF w
    <3>3. Leads("none", w, Told("none", w[1]))
          BY <3>1, <3>2, LeadsShort
    <3> QED BY <3>1, <3>3
  <2> HIDE DEF w, v
  <2>10. Stage(a) = "none" /\ Leads("none", w \o v, Stage(f.asm))
    <3>1. Leads("started", v, Stage(f.asm))
          BY <2>3 DEF v
    <3>2. Leads("none", w \o v, Stage(f.asm))
          BY <2>8, <2>9, <3>1, LeadsOn
    <3> QED BY <1>5, <3>2 DEF Stage
  <2>11. /\ r.events \in Seq(Plain \union Cuts) /\ Len(r.events) = Len(f.events) + 1 /\ Len(f.events) \in Nat
         /\ r.events[1] = start[1] /\ \A n \in 1..Len(f.events) : r.events[n + 1] = f.events[n]
         /\ DOMAIN r.events = 1..(Len(f.events) + 1) /\ DOMAIN f.events = 1..Len(f.events)
    <3> DEFINE e == f.events
    <3>1. e \in Seq(Plain \union Cuts)
          BY <2>3
    <3> HIDE DEF e
    <3> DEFINE g == start \o e
    <3>3. /\ g \in Seq(Plain \union Cuts) /\ Len(g) = Len(start) + Len(e) /\ Len(e) \in Nat
          /\ \A n \in 1..Len(start) : g[n] = start[n]
          /\ \A n \in 1..Len(e) : g[Len(start) + n] = e[n]
      <4> DEFINE T == Plain \union Cuts
      <4>1. start \in Seq(T) /\ e \in Seq(T)
            BY <2>7, <3>1
      <4> HIDE DEF T
      <4>2. /\ g \in Seq(T) /\ Len(g) = Len(start) + Len(e)
            /\ \A n \in 1..Len(start) : g[n] = start[n]
            /\ \A n \in 1..Len(e) : g[Len(start) + n] = e[n]
            BY <4>1, JoinedAre
      <4>3. Len(e) \in Nat
            BY <4>1
      <4> QED BY <4>2, <4>3 DEF T
    <3> HIDE DEF g
    <3>4. Len(g) = Len(e) + 1 /\ 1 \in 1..Len(start) /\ \A n \in 1..Len(e) : Len(start) + n = n + 1
          BY <2>7, <3>3
    <3>5. DOMAIN g = 1..(Len(e) + 1) /\ DOMAIN e = 1..Len(e)
          BY <3>1, <3>3, <3>4
    <3>6. \A n \in 1..Len(e) : g[n + 1] = e[n]
          BY <3>3, <3>4
    <3>2. /\ g \in Seq(Plain \union Cuts) /\ Len(g) = Len(e) + 1 /\ Len(e) \in Nat
          /\ g[1] = start[1] /\ \A n \in 1..Len(e) : g[n + 1] = e[n]
          /\ DOMAIN g = 1..(Len(e) + 1) /\ DOMAIN e = 1..Len(e)
          BY <3>3, <3>4, <3>5, <3>6
    <3> QED BY <2>6, <3>2 DEF e, g
  <2>12. Closes(r.events) <=> Closes(f.events)
    <3>1. ASSUME NEW n \in DOMAIN r.events, r.events[n].type \in {"end", "dropped"} PROVE Closes(f.events)
      <4>1. n # 1
            BY <2>7, <2>11, <3>1
      <4>2. n - 1 \in 1..Len(f.events) /\ (n - 1) + 1 = n
            BY <2>11, <4>1
      <4>3. r.events[n] = f.events[n - 1]
            BY <2>11, <4>2
      <4> QED BY <2>11, <3>1, <4>2, <4>3 DEF Closes
    <3>2. ASSUME NEW n \in DOMAIN f.events, f.events[n].type \in {"end", "dropped"} PROVE Closes(r.events)
      <4>1. n + 1 \in DOMAIN r.events /\ r.events[n + 1] = f.events[n]
            BY <2>11
      <4> QED BY <3>2, <4>1 DEF Closes
    <3> QED BY <3>1, <3>2 DEF Closes
  <2>13. ASSUME Gathered(a, since, item.from), Size(item) <= LongestItem,
                NEW n \in DOMAIN r.events, r.events[n].type = "end"
         PROVE  Whole(Heard(r.events, since)[n])
    <3>1. n # 1
          BY <2>7, <2>11, <2>13
    <3> DEFINE m == n - 1
    <3>2. m \in 1..Len(f.events) /\ m + 1 = n
          BY <2>11, <3>1
    <3> HIDE DEF m
    <3>3. r.events[n] = f.events[m]
          BY <2>11, <3>2
    <3>4. (w \o v)[n] = v[m]
      <4>1. \A k \in 1..Len(v) : (w \o v)[Len(w) + k] = v[k]
        <5>1. w \in Seq(Events) /\ v \in Seq(Events)
              BY <2>8
        <5> QED BY <5>1, JoinedAre
      <4>2. n = Len(w) + m /\ m \in 1..Len(v)
            BY <2>8, <2>11, <3>2
      <4> QED BY <4>1, <4>2
    <3>5. Whole(v[m])
          BY <2>5, <2>11, <2>13, <3>2, <3>3 DEF v
    <3> QED BY <2>8, <3>4, <3>5
  <2>14. /\ r.asm \in Assemblers /\ r.events \in Seq(Plain \union Cuts)
         /\ Leads(Stage(a), Heard(r.events, since), Stage(r.asm))
         BY <2>3, <2>6, <2>8, <2>10, <2>11
  <2>15. Gathered(a, since, item.from) /\ Size(item) <= LongestItem =>
           Gathered(r.asm, IF Closes(r.events) THEN item.to ELSE since, item.to)
         BY <2>5, <2>6, <2>12
  <2> QED BY <2>13, <2>14, <2>15 DEF r
<1> QED BY <1>1, <1>3, <1>4, <1>5

-----------------------------------------------------------------------------
(* Segmenters, one by one.                                                 *)

\* A segmenter that judges an item keeps what it holds.
LEMMA JudgedIs ==
  ASSUME NEW g \in Segmenters, NEW item \in Items, NEW voiced \in BOOLEAN
  PROVE  LET j == judged(g, item, voiced) IN
         /\ j \in Segmenters /\ j.at = g.at /\ j.anchor = g.anchor /\ j.consumed = g.consumed
         /\ j.fed = g.fed /\ j.taken = g.taken /\ j.stale = g.stale /\ j.mixed = g.mixed
         /\ \A p : Leads(p, g.out, Stage(g.asm)) => Leads(p, j.out, Stage(j.asm))
         /\ Gathered(g.asm, g.since, item.from) /\ Size(item) <= LongestItem =>
               /\ Gathered(j.asm, j.since, item.to)
               /\ (\A n \in DOMAIN g.out : g.out[n].event.type = "end" => Whole(g.out[n])) =>
                     \A n \in DOMAIN j.out : j.out[n].event.type = "end" => Whole(j.out[n])
<1> DEFINE next == pushed(g.asm, item, voiced)
           told == Heard(next.events, g.since)
           since == IF Closes(next.events) THEN item.to ELSE g.since
           j == judged(g, item, voiced)
<1>1. g.asm \in Assemblers /\ g.since \in Nat /\ g.out \in Seq(Events) /\ item.to \in Nat
      BY DEF Segmenters, Items
<1>2. /\ next.asm \in Assemblers /\ next.events \in Seq(Plain \union Cuts)
      /\ Leads(Stage(g.asm), told, Stage(next.asm))
      /\ Gathered(g.asm, g.since, item.from) /\ Size(item) <= LongestItem =>
            /\ Gathered(next.asm, since, item.to)
            /\ \A n \in DOMAIN next.events : next.events[n].type = "end" => Whole(told[n])
      BY <1>1, PushIs
<1>3. j = [g EXCEPT !.asm = next.asm, !.on = voiced, !.out = g.out \o told, !.since = since]
      BY DEF judged, Heard, Closes
<1>4. /\ told \in Seq(Events) /\ Len(told) = Len(next.events)
      /\ \A n \in 1..Len(next.events) : told[n].event = next.events[n]
      BY <1>1, <1>2, HeardAre
<1>5. DOMAIN next.events = 1..Len(next.events) /\ Len(next.events) \in Nat
      BY <1>2
<1> HIDE DEF next, told, j
<1>6. since \in Nat
      BY <1>1
<1> DEFINE out == g.out \o told
<1>7. /\ out \in Seq(Events) /\ Len(out) = Len(g.out) + Len(told)
      /\ \A i \in 1..Len(g.out) : out[i] = g.out[i]
      /\ \A i \in 1..Len(told) : out[Len(g.out) + i] = told[i]
  <2>1. g.out \in Seq(Events) /\ told \in Seq(Events)
        BY <1>1, <1>4
  <2> QED BY <2>1, JoinedAre
<1>8. \A p : Leads(p, g.out, Stage(g.asm)) => Leads(p, out, Stage(next.asm))
      BY <1>1, <1>2, <1>4, LeadsOn
<1> HIDE DEF since, out
<1>9. /\ j \in Segmenters /\ j.at = g.at /\ j.anchor = g.anchor /\ j.consumed = g.consumed
      /\ j.fed = g.fed /\ j.taken = g.taken /\ j.stale = g.stale /\ j.mixed = g.mixed
      /\ j.asm = next.asm /\ j.out = out /\ j.since = since
  <2>1. j = [g EXCEPT !.asm = next.asm, !.on = voiced, !.out = out, !.since = since]
        BY <1>3 DEF out
  <2> QED BY <1>2, <1>6, <1>7, <2>1 DEF Segmenters
<1>10. ASSUME Gathered(g.asm, g.since, item.from), Size(item) <= LongestItem,
              \A n \in DOMAIN g.out : g.out[n].event.type = "end" => Whole(g.out[n]),
              NEW n \in DOMAIN out, out[n].event.type = "end"
       PROVE  Whole(out[n])
  <2>1. Len(g.out) \in Nat /\ Len(told) \in Nat /\ DOMAIN g.out = 1..Len(g.out) /\ n \in 1..(Len(g.out) + Len(told))
    <3>1. DOMAIN out = 1..Len(out)
          BY <1>7
    <3>2. Len(g.out) \in Nat /\ Len(told) \in Nat /\ DOMAIN g.out = 1..Len(g.out)
          BY <1>1, <1>4
    <3> QED BY <1>7, <3>1, <3>2
  <2>2. CASE n \in 1..Len(g.out)
        BY <1>7, <1>10, <2>1, <2>2
  <2>3. CASE n \notin 1..Len(g.out)
    <3> DEFINE m == n - Len(g.out)
    <3>1. m \in 1..Len(told) /\ n = Len(g.out) + m
          BY <2>1, <2>3
    <3> HIDE DEF m
    <3>2. out[n] = told[m] /\ told[m].event = next.events[m] /\ m \in DOMAIN next.events
          BY <1>4, <1>5, <1>7, <3>1
    <3> QED BY <1>2, <1>10, <3>2
  <2> QED BY <2>2, <2>3
<1>11. Gathered(g.asm, g.since, item.from) /\ Size(item) <= LongestItem => Gathered(next.asm, since, item.to)
       BY <1>2
<1> QED BY <1>8, <1>9, <1>10, <1>11 DEF j

\* What a reset leaves.
LEMMA ResetIs ==
  ASSUME NEW g \in Segmenters
  PROVE  LET z == reset(g) IN
         /\ z \in Segmenters /\ z.at = g.at /\ z.fed = g.fed /\ z.out = g.out /\ z.stale = g.stale
         /\ z.asm = Silent /\ z.taken = g.fed /\ z.since = g.fed /\ ~z.mixed
<1>1. Silent \in Assemblers /\ g.fed \in Nat
      BY DEF Silent, Assemblers, Segmenters
<1> DEFINE q == Silent
<1> HIDE DEF q
<1>2. reset(g) = [g EXCEPT !.asm = q, !.anchor = Never, !.consumed = 0, !.on = FALSE,
                           !.taken = g.fed, !.since = g.fed, !.mixed = FALSE]
      BY DEF reset, q
<1>3. q \in Assemblers
      BY <1>1 DEF q
<1> DEFINE z == reset(g)
<1> HIDE DEF z
<1>4. /\ z \in Segmenters /\ z.at = g.at /\ z.fed = g.fed /\ z.out = g.out /\ z.stale = g.stale
      /\ z.asm = q /\ z.taken = g.fed /\ z.since = g.fed /\ ~z.mixed
  <2>1. z = [g EXCEPT !.asm = q, !.anchor = Never, !.consumed = 0, !.on = FALSE,
                      !.taken = g.fed, !.since = g.fed, !.mixed = FALSE]
        BY <1>2 DEF z
  <2> QED BY <1>1, <1>3, <2>1 DEF Segmenters
<1> QED BY <1>4 DEF z, q

\* Nothing heard is a chain of nothing.
LEMMA SilentHolds == ASSUME NEW n \in Nat PROVE Gathered(Silent, n, n) /\ Stage(Silent) = "none"
<1>1. Silent.pre = <<>> /\ ~Silent.speaking
      BY DEF Silent
<1>2. Chain(<<>>, n, n)
  <2>1. 1..(Len(<<>>) - 1) = {}
        OBVIOUS
  <2> QED BY <2>1 DEF Chain
<1>3. n \in n..n /\ n - n <= PreRoll
      BY SegmenterAssumption
<1> QED BY <1>1, <1>2, <1>3 DEF Gathered, Stage

\* After a reset a segmenter that is idle holds nothing, and the loop knows of nothing.
LEMMA ResetHolds ==
  ASSUME NEW s \in Streams, NEW g \in Segmenters, seg'[s] = reset(g), g.at = "idle", g.out = <<>>, ~g.stale,
         utterance'[s] = "none", net'[s] = FreshNet, \A n \in DOMAIN backend'.line : backend'.line[n].of # s
  PROVE  SegmentHolds(s)' /\ StagesHold(s)'
<1> DEFINE z == seg'[s]
<1>1. /\ z \in Segmenters /\ z.at = "idle" /\ z.fed = g.fed /\ z.out = <<>> /\ ~z.stale
      /\ z.asm = Silent /\ z.taken = g.fed /\ z.since = g.fed /\ ~z.mixed
      BY ResetIs
<1>2. g.fed \in Nat
      BY DEF Segmenters
<1>3. Gathered(Silent, g.fed, g.fed) /\ Stage(Silent) = "none"
      BY <1>2, SilentHolds
<1>4. Leads("none", <<>>, "none")
      BY DEF Leads
<1>5. net'[s].context = net'[s].state
      BY DEF FreshNet
<1>6. NetHolds(s)'
      BY <1>1, <1>5 DEF NetHolds
<1>7. StagesHold(s)'
      BY <1>1 DEF StagesHold
<1>8. Judged(z) = g.fed /\ \A n \in DOMAIN z.out : FALSE
      BY <1>1 DEF Judged
<1> QED BY <1>1, <1>2, <1>3, <1>4, <1>6, <1>7, <1>8 DEF SegmentHolds

\* What happens elsewhere leaves a conversation's segmenter as it is.
LEMMA Apart ==
  ASSUME NEW t \in Streams, SegmentHolds(t), StagesHold(t),
         seg'[t] = seg[t], net'[t] = net[t], utterance'[t] = utterance[t], vad'[t] = vad[t],
         \A n \in DOMAIN backend'.line : backend'.line[n].of = t =>
             \E m \in DOMAIN backend.line : backend.line[m] = backend'.line[n]
  PROVE  SegmentHolds(t)' /\ StagesHold(t)'
<1>1. StagesHold(t)'
      BY DEF StagesHold
<1>2. NetHolds(t) => NetHolds(t)'
      BY DEF NetHolds
<1> QED BY <1>1, <1>2 DEF SegmentHolds

-----------------------------------------------------------------------------
(* The steps.                                                              *)

\* Others, whose jobs are where they were.
OthersHold(s) == \A t \in Streams \ {s} : SegmentHolds(t)' /\ StagesHold(t)'

\* A step of one conversation that leaves the inferences alone.
LEMMA OneKeeps ==
  ASSUME SegmenterInv, NEW s \in Streams, backend'.line = backend.line,
         NEW g \in Segmenters, seg' = [seg EXCEPT ![s] = g], g.at = "inferring" <=> seg[s].at = "inferring",
         \A t \in Streams \ {s} : net'[t] = net[t] /\ utterance'[t] = utterance[t] /\ vad'[t] = vad[t]
  PROVE  LineHolds' /\ OthersHold(s) /\ seg' \in [Streams -> Segmenters] /\ seg'[s] = g
<1>1. seg \in [Streams -> Segmenters] /\ backend.line \in Seq(Jobs)
      BY DEF SegmenterInv, SegmenterTypes
<1>2. seg' \in [Streams -> Segmenters] /\ seg'[s] = g /\ \A t \in Streams \ {s} : seg'[t] = seg[t]
      BY <1>1
<1>3. \A t \in Streams : seg'[t].at = "inferring" <=> seg[t].at = "inferring"
      BY <1>2
<1>4. \A n \in DOMAIN backend.line : backend.line[n].of \in Streams
  <2>1. \A n \in DOMAIN backend.line : backend.line[n] \in Jobs
        BY <1>1
  <2>2. \A job \in Jobs : job.of \in Streams
        BY DEF Jobs
  <2> QED BY <2>1, <2>2
<1>5. LineHolds'
      BY <1>3, <1>4 DEF SegmenterInv, LineHolds
<1>6. OthersHold(s)
  <2> SUFFICES ASSUME NEW t \in Streams \ {s} PROVE SegmentHolds(t)' /\ StagesHold(t)'
      BY DEF OthersHold
  <2>1. SegmentHolds(t) /\ StagesHold(t)
        BY DEF SegmenterInv
  <2> QED BY <1>2, <2>1, Apart
<1> QED BY <1>2, <1>5, <1>6

\* What a step has to show.
LEMMA InvHolds ==
  ASSUME NEW s \in Streams, SegmenterTypes', LineHolds', OthersHold(s), SegmentHolds(s)', StagesHold(s)'
  PROVE  SegmenterInv'
  BY DEF SegmenterInv, OthersHold

\* A detector is chosen, or its model loaded; frames arrive.
LEMMA RestKeeps ==
  ASSUME SegmenterInv, UNCHANGED <<seg, net, utterance>>, backend'.line = backend.line, SegmenterTypes',
         \A s \in Streams : vad'[s] = vad[s] \/ vad[s] \notin {"silero", "energy"}
  PROVE  SegmenterInv'
<1>1. LineHolds'
      BY DEF SegmenterInv, LineHolds
<1>2. ASSUME NEW s \in Streams PROVE SegmentHolds(s)' /\ StagesHold(s)'
  <2>1. SegmentHolds(s) /\ StagesHold(s)
        BY DEF SegmenterInv
  <2>2. NetHolds(s)' <=> NetHolds(s)
        BY DEF NetHolds
  <2> QED BY <2>1, <2>2 DEF SegmentHolds, StagesHold
<1> QED BY <1>1, <1>2 DEF SegmenterInv

\* A conversation chooses its detector (createSessionVad).
LEMMA ChoosesKeeps == ASSUME SegmenterInv, NEW s \in Streams, Chooses(s) PROVE SegmenterInv'
<1>1. backend'.line = backend.line /\ backend' \in [at : {"none", "loading", "ready"}, line : Seq(Jobs)]
      BY DEF SegmenterInv, SegmenterTypes, Chooses
<1>2. /\ vad' \in [Streams -> {"none", "asked", "preferred", "silero", "energy", "failed"}]
      /\ \A t \in Streams : vad'[t] = vad[t] \/ vad[t] \notin {"silero", "energy"}
      BY DEF SegmenterInv, SegmenterTypes, Chooses
<1>3. UNCHANGED <<ear, seg, net, utterance>>
      BY DEF Chooses
<1>4. SegmenterTypes'
      BY <1>1, <1>2, <1>3 DEF SegmenterInv, SegmenterTypes
<1> QED BY <1>1, <1>2, <1>3, <1>4, RestKeeps

\* The model is there, or it failed to load: those who preferred it listen by energy.
LEMMA LoadsKeeps == ASSUME SegmenterInv, Loads PROVE SegmenterInv'
<1>1. backend'.line = backend.line /\ backend' \in [at : {"none", "loading", "ready"}, line : Seq(Jobs)]
      BY DEF SegmenterInv, SegmenterTypes, Loads
<1>2. /\ vad' \in [Streams -> {"none", "asked", "preferred", "silero", "energy", "failed"}]
      /\ \A t \in Streams : vad'[t] = vad[t] \/ vad[t] \notin {"silero", "energy"}
  <2>1. vad \in [Streams -> {"none", "asked", "preferred", "silero", "energy", "failed"}]
        BY DEF SegmenterInv, SegmenterTypes
  <2>2. CASE vad' = [s \in Streams |-> IF vad[s] \in {"asked", "preferred"} THEN "silero" ELSE vad[s]]
        BY <2>1, <2>2
  <2>3. CASE vad' = [s \in Streams |-> CASE vad[s] = "asked" -> "failed" [] vad[s] = "preferred" -> "energy"
                                         [] OTHER -> vad[s]]
        BY <2>1, <2>3
  <2> QED BY <2>2, <2>3 DEF Loads
<1>3. UNCHANGED <<ear, seg, net, utterance>>
      BY DEF Loads
<1>4. SegmenterTypes'
      BY <1>1, <1>2, <1>3 DEF SegmenterInv, SegmenterTypes
<1> QED BY <1>1, <1>2, <1>3, <1>4, RestKeeps

\* A frame is captured, or nothing is: what the queue keeps are frames.
LEMMA CapturesKeep ==
  ASSUME SegmenterInv, NEW s \in Streams, (\E n \in FrameSizes : Captures(s, n)) \/ Pauses(s)
  PROVE  SegmenterInv'
<1>1. UNCHANGED <<vad, seg, net, backend, utterance>>
      BY DEF Captures, Pauses
<1>2. ear \in [Streams -> [queue : Seq(Frames), clock : Nat]] /\ Frames \subseteq Items
      BY DEF SegmenterInv, SegmenterTypes, Frames
<1>3. ear' \in [Streams -> [queue : Seq(Frames), clock : Nat]]
  <2>1. CASE Pauses(s)
    <3>1. [ear[s] EXCEPT !.clock = @ + 1] \in [queue : Seq(Frames), clock : Nat]
      <4>1. ear[s] \in [queue : Seq(Frames), clock : Nat] /\ ear[s].clock + 1 \in Nat
            BY <1>2
      <4> QED BY <4>1
    <3>2. ear' = [ear EXCEPT ![s] = [ear[s] EXCEPT !.clock = @ + 1]]
          BY <2>1 DEF Pauses
    <3> QED BY <1>2, <3>1, <3>2
  <2>2. ASSUME NEW n \in FrameSizes, Captures(s, n) PROVE ear' \in [Streams -> [queue : Seq(Frames), clock : Nat]]
    <3> DEFINE frame == [from |-> ear[s].clock, to |-> ear[s].clock + n]
               filled == Append(ear[s].queue, frame)
    <3>1. n \in Nat /\ MaxBuffered \in Nat
          BY SegmenterAssumption
    <3>2. frame \in Items /\ Size(frame) = n
          BY <1>2, <3>1 DEF Items, Size
    <3>3. frame \in Frames
          BY <3>2 DEF Frames
    <3> HIDE DEF frame
    <3>4. filled \in Seq(Frames) /\ filled \in Seq(Items)
          BY <1>2, <3>3
    <3> HIDE DEF filled
    <3>5. Latest(filled, MaxBuffered) \in Seq(Frames)
          BY <1>2, <3>1, <3>4, LatestKeeps
    <3>6. ear' = [ear EXCEPT ![s] = [queue |-> Buffered(filled), clock |-> ear[s].clock + n]]
          BY <2>2 DEF Captures, filled, frame
    <3> QED BY <1>2, <3>1, <3>5, <3>6 DEF Buffered
  <2> QED BY <2>1, <2>2
<1>4. SegmenterTypes'
      BY <1>1, <1>3 DEF SegmenterInv, SegmenterTypes
<1> QED BY <1>1, <1>4, RestKeeps

\* Taking a frame leaves a queue of frames.
LEMMA TakesOne ==
  ASSUME SegmenterTypes, NEW s \in Streams, ear[s].queue # <<>>, ear' = [ear EXCEPT ![s].queue = Tail(@)]
  PROVE  Head(ear[s].queue) \in Frames /\ ear' \in [Streams -> [queue : Seq(Frames), clock : Nat]]
<1>1. ear \in [Streams -> [queue : Seq(Frames), clock : Nat]]
      BY DEF SegmenterTypes
<1>2. ear[s].queue \in Seq(Frames)
      BY <1>1
<1>3. Head(ear[s].queue) \in Frames /\ Tail(ear[s].queue) \in Seq(Frames)
      BY <1>2
<1>4. [ear[s] EXCEPT !.queue = Tail(ear[s].queue)] \in [queue : Seq(Frames), clock : Nat]
      BY <1>1, <1>3
<1>5. ear' = [ear EXCEPT ![s] = [ear[s] EXCEPT !.queue = Tail(ear[s].queue)]]
      OBVIOUS
<1> QED BY <1>1, <1>3, <1>4, <1>5

\* Who awaits no inference has none in line.
LEMMA NoJob ==
  ASSUME SegmenterInv, NEW s \in Streams, seg[s].at # "inferring"
  PROVE  \A n \in DOMAIN backend.line : backend.line[n].of # s
  BY DEF SegmenterInv, LineHolds

\* A reset between two pushes leaves nothing of what was heard.
LEMMA SuppressesKeeps == ASSUME SegmenterInv, NEW s \in Streams, Suppresses(s) PROVE SegmenterInv'
<1> DEFINE g == seg[s]
<1>1. SegmenterTypes /\ g \in Segmenters /\ g.at = "idle" /\ g.out = <<>> /\ ~g.stale
      BY DEF SegmenterInv, SegmenterTypes, StagesHold, Suppresses
<1>2. /\ seg' = [seg EXCEPT ![s] = reset(g)] /\ net' = [net EXCEPT ![s] = FreshNet]
      /\ utterance' = [utterance EXCEPT ![s] = "none"] /\ UNCHANGED <<vad, backend>>
      BY DEF Suppresses, Resets
<1>3. ear' \in [Streams -> [queue : Seq(Frames), clock : Nat]]
      BY <1>1, TakesOne DEF Suppresses
<1>4. FreshNet \in [context : Nat, state : Nat]
      BY DEF FreshNet
<1>5. reset(g) \in Segmenters /\ reset(g).at = "idle"
      BY <1>1, ResetIs
<1> HIDE DEF g
<1>6. net' \in [Streams -> [context : Nat, state : Nat]] /\ net'[s] = FreshNet
      BY <1>1, <1>2, <1>4 DEF SegmenterTypes
<1>7. utterance' \in [Streams -> {"none", "started", "confirmed"}] /\ utterance'[s] = "none"
      BY <1>1, <1>2 DEF SegmenterTypes
<1>8. \A t \in Streams \ {s} : net'[t] = net[t] /\ utterance'[t] = utterance[t] /\ vad'[t] = vad[t]
      BY <1>1, <1>2 DEF SegmenterTypes
<1>9. reset(g).at = "inferring" <=> seg[s].at = "inferring"
      BY <1>1, <1>5 DEF g
<1>10. LineHolds' /\ OthersHold(s) /\ seg' \in [Streams -> Segmenters] /\ seg'[s] = reset(g)
       BY <1>2, <1>5, <1>8, <1>9, OneKeeps
<1>11. SegmenterTypes'
       BY <1>1, <1>2, <1>3, <1>6, <1>7, <1>10 DEF SegmenterTypes
<1>12. \A n \in DOMAIN backend'.line : backend'.line[n].of # s
       BY <1>1, <1>2, NoJob DEF g
<1>13. SegmentHolds(s)' /\ StagesHold(s)'
       BY <1>1, <1>6, <1>7, <1>10, <1>12, ResetHolds
<1> QED BY <1>10, <1>11, <1>13, InvHolds

\* A reset while a push is under way makes its answer a late one.
LEMMA TypedTextKeeps == ASSUME SegmenterInv, NEW s \in Streams, TypedText(s) PROVE SegmenterInv'
<1> DEFINE h == seg[s]
           g == [h EXCEPT !.stale = h.at # "idle"]
<1>1. SegmenterTypes /\ h \in Segmenters /\ StagesHold(s)
      BY DEF SegmenterInv, SegmenterTypes
<1>2. g \in Segmenters /\ g.at = h.at /\ g.out = h.out /\ g.stale = (h.at # "idle") /\ g.fed = h.fed
      BY <1>1 DEF Segmenters
<1>3. /\ seg' = [seg EXCEPT ![s] = reset(g)] /\ net' = [net EXCEPT ![s] = FreshNet]
      /\ utterance' = [utterance EXCEPT ![s] = "none"] /\ UNCHANGED <<ear, vad, backend>>
      BY DEF TypedText, Resets
<1> HIDE DEF g
<1>4. FreshNet \in [context : Nat, state : Nat]
      BY DEF FreshNet
<1>5. /\ reset(g) \in Segmenters /\ reset(g).at = h.at /\ reset(g).stale = g.stale
      /\ reset(g).fed = g.fed /\ reset(g).taken = g.fed /\ reset(g).out = g.out
      BY <1>2, ResetIs
<1>6. net' \in [Streams -> [context : Nat, state : Nat]] /\ net'[s] = FreshNet
      BY <1>1, <1>3, <1>4 DEF SegmenterTypes
<1>7. utterance' \in [Streams -> {"none", "started", "confirmed"}] /\ utterance'[s] = "none"
      BY <1>1, <1>3 DEF SegmenterTypes
<1>8. \A t \in Streams \ {s} : net'[t] = net[t] /\ utterance'[t] = utterance[t] /\ vad'[t] = vad[t]
      BY <1>1, <1>3 DEF SegmenterTypes
<1>9. LineHolds' /\ OthersHold(s) /\ seg' \in [Streams -> Segmenters] /\ seg'[s] = reset(g)
  <2>1. reset(g).at = "inferring" <=> seg[s].at = "inferring"
        BY <1>5
  <2> QED BY <1>3, <1>5, <1>8, <2>1, OneKeeps
<1>10. SegmenterTypes'
       BY <1>1, <1>3, <1>6, <1>7, <1>9 DEF SegmenterTypes
<1>11. CASE h.at = "idle"
  <2>1. g.out = <<>> /\ ~g.stale /\ g.at = "idle"
        BY <1>1, <1>2, <1>11 DEF StagesHold
  <2>2. \A n \in DOMAIN backend'.line : backend'.line[n].of # s
        BY <1>3, <1>11, NoJob
  <2>3. SegmentHolds(s)' /\ StagesHold(s)'
        BY <1>2, <1>6, <1>7, <1>9, <2>1, <2>2, ResetHolds
  <2> QED BY <1>9, <1>10, <2>3, InvHolds
<1>12. CASE h.at # "idle"
  <2>1. SegmentHolds(s)'
        BY <1>2, <1>5, <1>9, <1>12 DEF SegmentHolds
  <2>2. StagesHold(s)'
        BY <1>1, <1>2, <1>3, <1>5, <1>7, <1>9, <1>12 DEF StagesHold
  <2> QED BY <1>9, <1>10, <2>1, <2>2, InvHolds
<1> QED BY <1>11, <1>12

\* The loop takes the answer of a push, or throws a late one away.
LEMMA HearsKeeps == ASSUME SegmenterInv, NEW s \in Streams, Hears(s) PROVE SegmenterInv'
<1> DEFINE h == seg[s]
           g == [h EXCEPT !.at = "idle", !.out = <<>>, !.stale = FALSE]
<1>1. SegmenterTypes /\ h \in Segmenters /\ StagesHold(s) /\ SegmentHolds(s) /\ h.at = "answered"
      BY DEF SegmenterInv, SegmenterTypes, Hears
<1>2. /\ g \in Segmenters /\ g.at = "idle" /\ g.out = <<>> /\ ~g.stale
      /\ g.asm = h.asm /\ g.since = h.since /\ g.taken = h.taken /\ g.fed = h.fed /\ g.mixed = h.mixed
  <2>1. <<>> \in Seq(Events)
        OBVIOUS
  <2> QED BY <1>1, <2>1 DEF Segmenters
<1>3. UNCHANGED <<ear, vad, backend>>
      BY DEF Hears
<1>4. \A n \in DOMAIN backend'.line : backend'.line[n].of # s
      BY <1>1, <1>3, NoJob
<1>5. CASE h.stale
  <2>1. seg' = [seg EXCEPT ![s] = reset(g)] /\ net' = [net EXCEPT ![s] = FreshNet] /\ UNCHANGED utterance
        BY <1>5 DEF Hears, Resets
  <2> HIDE DEF g
  <2>2. FreshNet \in [context : Nat, state : Nat]
        BY DEF FreshNet
  <2>3. reset(g) \in Segmenters /\ reset(g).at = "idle"
        BY <1>2, ResetIs
  <2>4. net' \in [Streams -> [context : Nat, state : Nat]] /\ net'[s] = FreshNet
        BY <1>1, <2>1, <2>2 DEF SegmenterTypes
  <2>5. \A t \in Streams \ {s} : net'[t] = net[t] /\ utterance'[t] = utterance[t] /\ vad'[t] = vad[t]
        BY <1>1, <1>3, <2>1 DEF SegmenterTypes
  <2>6. LineHolds' /\ OthersHold(s) /\ seg' \in [Streams -> Segmenters] /\ seg'[s] = reset(g)
    <3>1. reset(g).at = "inferring" <=> seg[s].at = "inferring"
          BY <1>1, <2>3
    <3> QED BY <1>3, <2>1, <2>3, <2>5, <3>1, OneKeeps
  <2>7. SegmenterTypes'
        BY <1>1, <1>3, <2>1, <2>4, <2>6 DEF SegmenterTypes
  <2>8. utterance'[s] = "none"
        BY <1>1, <1>5, <2>1 DEF StagesHold
  <2>9. SegmentHolds(s)' /\ StagesHold(s)'
        BY <1>2, <1>4, <2>4, <2>6, <2>8, ResetHolds
  <2> QED BY <2>6, <2>7, <2>9, InvHolds
<1>6. CASE ~h.stale
  <2> DEFINE told == FoldLeft(Told, utterance[s], h.out)
  <2>1. seg' = [seg EXCEPT ![s] = g] /\ UNCHANGED net /\ utterance' = [utterance EXCEPT ![s] = told]
        BY <1>6 DEF Hears
  <2>2. told = Stage(h.asm)
    <3>1. h.out \in Seq(Events) /\ Leads(utterance[s], h.out, Stage(h.asm))
          BY <1>1, <1>6 DEF Segmenters, SegmentHolds
    <3> QED BY <3>1, ToldIs DEF Leads
  <2>3. told \in {"none", "started", "confirmed"}
        BY <2>2 DEF Stage
  <2> HIDE DEF g, told
  <2>4. utterance' \in [Streams -> {"none", "started", "confirmed"}] /\ utterance'[s] = told
        BY <1>1, <2>1, <2>3 DEF SegmenterTypes
  <2>5. \A t \in Streams \ {s} : net'[t] = net[t] /\ utterance'[t] = utterance[t] /\ vad'[t] = vad[t]
        BY <1>1, <1>3, <2>1 DEF SegmenterTypes
  <2>6. LineHolds' /\ OthersHold(s) /\ seg' \in [Streams -> Segmenters] /\ seg'[s] = g
    <3>1. g.at = "inferring" <=> seg[s].at = "inferring"
          BY <1>1, <1>2
    <3> QED BY <1>2, <1>3, <2>1, <2>5, <3>1, OneKeeps
  <2>7. SegmenterTypes'
        BY <1>1, <1>3, <2>1, <2>4, <2>6 DEF SegmenterTypes
  <2>8. /\ Judged(h) \in Nat /\ Gathered(h.asm, h.since, Judged(h)) /\ NetHolds(s)
        BY <1>1, <1>6 DEF SegmentHolds
  <2>9. Judged(g) = Judged(h)
        BY <1>1, <1>2 DEF Judged
  <2>10. NetHolds(s)'
         BY <1>1, <1>2, <1>4, <2>1, <2>6, <2>8 DEF NetHolds
  <2>11. Leads(told, <<>>, told)
         BY DEF Leads
  <2>12. SegmentHolds(s)'
    <3>1. \A n \in DOMAIN g.out : FALSE
          BY <1>2
    <3> QED BY <1>2, <2>2, <2>4, <2>6, <2>8, <2>9, <2>10, <2>11, <3>1 DEF SegmentHolds
  <2>13. StagesHold(s)'
         BY <1>1, <1>2, <1>3, <2>6 DEF StagesHold
  <2> QED BY <2>6, <2>7, <2>12, <2>13, InvHolds
<1> QED BY <1>5, <1>6 DEF Segmenters

\* A push to an energy detector is judged at once.
LEMMA PushesEnergyKeeps == ASSUME SegmenterInv, NEW s \in Streams, PushesEnergy(s) PROVE SegmenterInv'
<1> DEFINE h == seg[s]
           frame == Head(ear[s].queue)
           item == [from |-> h.fed, to |-> h.fed + Size(frame)]
<1>1. /\ SegmenterTypes /\ h \in Segmenters /\ SegmentHolds(s) /\ StagesHold(s)
      /\ h.at = "idle" /\ ~h.stale /\ h.fed = h.taken /\ vad[s] = "energy" /\ h.fed \in Nat
  <2>1. SegmenterTypes /\ h \in Segmenters /\ SegmentHolds(s) /\ StagesHold(s) /\ h.at = "idle" /\ vad[s] = "energy"
        BY DEF SegmenterInv, SegmenterTypes, PushesEnergy
  <2> QED BY <2>1 DEF StagesHold, Segmenters
<1>2. frame \in Frames /\ ear' \in [Streams -> [queue : Seq(Frames), clock : Nat]]
      BY <1>1, TakesOne DEF PushesEnergy
<1>3. Size(frame) \in Nat /\ Size(frame) <= LongestItem
      BY <1>2, SegmenterAssumption, LongestIs DEF Frames
<1>4. item \in Items /\ item.from = h.fed /\ Size(item) <= LongestItem /\ item.to \in Nat
      BY <1>1, <1>3 DEF Items, Size
<1>5. PICK voiced \in BOOLEAN :
        seg' = [seg EXCEPT ![s] = [judged(h, item, voiced) EXCEPT !.at = "answered", !.fed = item.to, !.taken = item.to]]
      BY DEF PushesEnergy
<1>6. UNCHANGED <<vad, net, backend, utterance>>
      BY DEF PushesEnergy
<1> DEFINE j == judged(h, item, voiced)
           g == [j EXCEPT !.at = "answered", !.fed = item.to, !.taken = item.to]
<1> HIDE DEF item, frame
<1>7. /\ Gathered(h.asm, h.since, item.from) /\ Leads(utterance[s], h.out, Stage(h.asm)) /\ NetHolds(s)
      /\ \A n \in DOMAIN h.out : h.out[n].event.type = "end" => Whole(h.out[n])
  <2>1. Judged(h) = item.from
        BY <1>1, <1>4 DEF Judged
  <2> QED BY <1>1, <2>1 DEF SegmentHolds
<1>8. /\ j \in Segmenters /\ j.stale = h.stale /\ j.mixed = h.mixed
      /\ Leads(utterance[s], j.out, Stage(j.asm)) /\ Gathered(j.asm, j.since, item.to)
      /\ \A n \in DOMAIN j.out : j.out[n].event.type = "end" => Whole(j.out[n])
      BY <1>1, <1>4, <1>7, JudgedIs
<1> HIDE DEF j
<1>9. /\ g \in Segmenters /\ g.at = "answered" /\ g.fed = item.to /\ g.taken = item.to /\ g.stale = j.stale
      /\ g.mixed = j.mixed /\ g.asm = j.asm /\ g.since = j.since /\ g.out = j.out
      BY <1>4, <1>8 DEF Segmenters
<1>10. seg' = [seg EXCEPT ![s] = g]
       BY <1>5 DEF j
<1> HIDE DEF g
<1>11. LineHolds' /\ OthersHold(s) /\ seg' \in [Streams -> Segmenters] /\ seg'[s] = g
  <2>1. g.at = "inferring" <=> seg[s].at = "inferring"
        BY <1>1, <1>9
  <2>2. \A t \in Streams \ {s} : net'[t] = net[t] /\ utterance'[t] = utterance[t] /\ vad'[t] = vad[t]
        BY <1>6
  <2> QED BY <1>6, <1>9, <1>10, <2>1, <2>2, OneKeeps
<1>12. SegmenterTypes'
       BY <1>1, <1>2, <1>6, <1>11 DEF SegmenterTypes
<1>13. NetHolds(s)'
  <2>1. \A n \in DOMAIN backend'.line : backend'.line[n].of # s
        BY <1>1, <1>6, NoJob
  <2> QED BY <1>1, <1>6, <1>7, <1>8, <1>9, <1>11, <2>1 DEF NetHolds
<1>14. SegmentHolds(s)'
  <2>1. Judged(g) = item.to
        BY <1>9 DEF Judged
  <2> QED BY <1>4, <1>6, <1>8, <1>9, <1>11, <1>13, <2>1 DEF SegmentHolds
<1>15. StagesHold(s)'
       BY <1>1, <1>6, <1>8, <1>9, <1>11 DEF StagesHold
<1> QED BY <1>11, <1>12, <1>14, <1>15, InvHolds

\* A push to a Silero segmenter adds to what its windows are taken from.
LEMMA PushesSileroKeeps == ASSUME SegmenterInv, NEW s \in Streams, PushesSilero(s) PROVE SegmenterInv'
<1> DEFINE h == seg[s]
           frame == Head(ear[s].queue)
           anchor == IF h.anchor = Never THEN frame.from ELSE h.anchor
           g == [h EXCEPT !.at = "windows", !.fed = h.fed + Size(frame), !.anchor = anchor]
<1>1. /\ SegmenterTypes /\ h \in Segmenters /\ SegmentHolds(s) /\ StagesHold(s)
      /\ h.at = "idle" /\ ~h.stale /\ vad[s] = "silero" /\ h.fed \in Nat /\ h.anchor \in Nat \union {Never}
  <2>1. SegmenterTypes /\ h \in Segmenters /\ SegmentHolds(s) /\ StagesHold(s) /\ h.at = "idle" /\ vad[s] = "silero"
        BY DEF SegmenterInv, SegmenterTypes, PushesSilero
  <2> QED BY <2>1 DEF StagesHold, Segmenters
<1>2. frame \in Frames /\ ear' \in [Streams -> [queue : Seq(Frames), clock : Nat]]
      BY <1>1, TakesOne DEF PushesSilero
<1>3. Size(frame) \in Nat /\ frame.from \in Nat
      BY <1>2, SegmenterAssumption DEF Frames, Items
<1>4. UNCHANGED <<vad, net, backend, utterance>> /\ seg' = [seg EXCEPT ![s] = g]
  <2>1. UNCHANGED <<vad, net, backend, utterance>>
        BY DEF PushesSilero
  <2>3. seg' = [seg EXCEPT ![s] = [h EXCEPT !.at = "windows", !.fed = @ + Size(frame),
                                            !.anchor = IF @ = Never THEN frame.from ELSE @]]
        BY DEF PushesSilero
  <2>4. [h EXCEPT !.at = "windows", !.fed = @ + Size(frame), !.anchor = IF @ = Never THEN frame.from ELSE @] = g
        BY <1>1 DEF Segmenters
  <2> QED BY <2>1, <2>3, <2>4
<1>5. anchor \in Nat \union {Never} /\ h.fed + Size(frame) \in Nat
      BY <1>1, <1>3
<1> HIDE DEF anchor, frame
<1>6. /\ g \in Segmenters /\ g.at = "windows" /\ g.taken = h.taken /\ g.stale = h.stale
      /\ g.mixed = h.mixed /\ g.asm = h.asm /\ g.since = h.since /\ g.out = h.out
      BY <1>1, <1>5 DEF Segmenters
<1> HIDE DEF g
<1>7. LineHolds' /\ OthersHold(s) /\ seg' \in [Streams -> Segmenters] /\ seg'[s] = g
  <2>1. g.at = "inferring" <=> seg[s].at = "inferring"
        BY <1>1, <1>6
  <2>2. \A t \in Streams \ {s} : net'[t] = net[t] /\ utterance'[t] = utterance[t] /\ vad'[t] = vad[t]
        BY <1>4
  <2> QED BY <1>4, <1>6, <2>1, <2>2, OneKeeps
<1>8. SegmenterTypes'
      BY <1>1, <1>2, <1>4, <1>7 DEF SegmenterTypes
<1>9. NetHolds(s) /\ Judged(g) = Judged(h)
      BY <1>1, <1>6 DEF SegmentHolds, Judged
<1>10. NetHolds(s)'
  <2>1. \A n \in DOMAIN backend'.line : backend'.line[n].of # s
        BY <1>1, <1>4, NoJob
  <2> QED BY <1>1, <1>4, <1>6, <1>7, <1>9, <2>1 DEF NetHolds
<1>11. SegmentHolds(s)'
       BY <1>1, <1>4, <1>6, <1>7, <1>9, <1>10 DEF SegmentHolds
<1>12. StagesHold(s)'
       BY <1>1, <1>4, <1>6, <1>7 DEF StagesHold
<1> QED BY <1>7, <1>8, <1>11, <1>12, InvHolds

\* An inference gets in line.
LEMMA LineGrows ==
  ASSUME SegmenterInv, NEW s \in Streams, seg[s].at # "inferring", NEW job \in Jobs, job.of = s,
         backend'.line = Append(backend.line, job), NEW g \in Segmenters, seg' = [seg EXCEPT ![s] = g], g.at = "inferring",
         \A t \in Streams \ {s} : net'[t] = net[t] /\ utterance'[t] = utterance[t] /\ vad'[t] = vad[t]
  PROVE  /\ LineHolds' /\ OthersHold(s) /\ seg' \in [Streams -> Segmenters] /\ seg'[s] = g
         /\ backend'.line \in Seq(Jobs) /\ \A n \in DOMAIN backend'.line : backend'.line[n].of = s => backend'.line[n] = job
<1> DEFINE line == backend.line
           more == backend'.line
<1>1. seg \in [Streams -> Segmenters] /\ line \in Seq(Jobs) /\ LineHolds
      BY DEF SegmenterInv, SegmenterTypes
<1>2. seg' \in [Streams -> Segmenters] /\ seg'[s] = g /\ \A t \in Streams \ {s} : seg'[t] = seg[t]
      BY <1>1
<1>3. \A n \in DOMAIN line : line[n].of # s /\ line[n].of \in Streams
  <2>1. \A n \in DOMAIN line : line[n] \in Jobs
        BY <1>1
  <2>2. \A j \in Jobs : j.of \in Streams
        BY DEF Jobs
  <2> QED BY <2>1, <2>2, NoJob
<1>4. /\ more \in Seq(Jobs) /\ DOMAIN more = 1..(Len(line) + 1) /\ Len(line) \in Nat /\ DOMAIN line = 1..Len(line)
      /\ more[Len(line) + 1] = job /\ \A n \in 1..Len(line) : more[n] = line[n]
  <2>1. more = Append(line, job)
        OBVIOUS
  <2> HIDE DEF line, more
  <2> QED BY <1>1, <2>1
<1>5. \A n \in DOMAIN more : n = Len(line) + 1 \/ n \in DOMAIN line
      BY <1>4
<1> HIDE DEF line, more
<1>6. \A n \in DOMAIN line : n \in DOMAIN more /\ more[n] = line[n]
      BY <1>4
<1>7. Len(line) + 1 \in DOMAIN more
      BY <1>4
<1>8. /\ \A n \in DOMAIN line : seg[line[n].of].at = "inferring"
      /\ \A m, n \in DOMAIN line : line[m].of = line[n].of => m = n
      /\ \A t \in Streams : seg[t].at = "inferring" => \E n \in DOMAIN line : line[n].of = t
      BY <1>1 DEF LineHolds, line
<1>9. /\ \A n \in DOMAIN more : seg'[more[n].of].at = "inferring"
      /\ \A m, n \in DOMAIN more : more[m].of = more[n].of => m = n
      /\ \A t \in Streams : seg'[t].at = "inferring" => \E n \in DOMAIN more : more[n].of = t
      BY <1>2, <1>3, <1>4, <1>5, <1>6, <1>7, <1>8
<1>10. LineHolds'
       BY <1>9 DEF LineHolds, more
<1>11. OthersHold(s)
  <2> SUFFICES ASSUME NEW t \in Streams \ {s} PROVE SegmentHolds(t)' /\ StagesHold(t)'
      BY DEF OthersHold
  <2>1. SegmentHolds(t) /\ StagesHold(t)
        BY DEF SegmenterInv
  <2>2. \A n \in DOMAIN more : more[n].of = t => \E m \in DOMAIN line : line[m] = more[n]
        BY <1>4, <1>5, <1>6
  <2> QED BY <1>2, <2>1, <2>2, Apart DEF line, more
<1>12. \A n \in DOMAIN more : more[n].of = s => more[n] = job
       BY <1>3, <1>4, <1>5, <1>6
<1> QED BY <1>2, <1>4, <1>10, <1>11, <1>12 DEF more

\* The first in line leaves it.
LEMMA LineShrinks ==
  ASSUME SegmenterInv, backend.line # <<>>, NEW s \in Streams, s = Head(backend.line).of,
         backend'.line = Tail(backend.line), NEW g \in Segmenters, seg' = [seg EXCEPT ![s] = g], g.at # "inferring",
         \A t \in Streams \ {s} : net'[t] = net[t] /\ utterance'[t] = utterance[t] /\ vad'[t] = vad[t]
  PROVE  /\ LineHolds' /\ OthersHold(s) /\ seg' \in [Streams -> Segmenters] /\ seg'[s] = g
         /\ backend'.line \in Seq(Jobs) /\ \A n \in DOMAIN backend'.line : backend'.line[n].of # s
<1> DEFINE line == backend.line
           rest == backend'.line
<1>1. seg \in [Streams -> Segmenters] /\ line \in Seq(Jobs) /\ LineHolds
      BY DEF SegmenterInv, SegmenterTypes
<1>2. seg' \in [Streams -> Segmenters] /\ seg'[s] = g /\ \A t \in Streams \ {s} : seg'[t] = seg[t]
      BY <1>1
<1>3. \A n \in DOMAIN line : line[n].of \in Streams
  <2>1. \A n \in DOMAIN line : line[n] \in Jobs
        BY <1>1
  <2>2. \A j \in Jobs : j.of \in Streams
        BY DEF Jobs
  <2> QED BY <2>1, <2>2
<1>4. /\ rest \in Seq(Jobs) /\ DOMAIN rest = 1..(Len(line) - 1) /\ Len(line) \in Nat /\ DOMAIN line = 1..Len(line)
      /\ \A n \in 1..(Len(line) - 1) : rest[n] = line[n + 1]
      /\ 1 \in DOMAIN line /\ line[1].of = s
  <2>1. rest = Tail(line) /\ line # <<>> /\ s = Head(line).of
        OBVIOUS
  <2> HIDE DEF line, rest
  <2> QED BY <1>1, <2>1
<1> HIDE DEF line, rest
<1>5. \A n \in DOMAIN rest : n + 1 \in DOMAIN line /\ n + 1 # 1 /\ rest[n] = line[n + 1]
      BY <1>4
<1>6. \A n \in DOMAIN line : n # 1 => n - 1 \in DOMAIN rest /\ rest[n - 1] = line[n]
  <2> SUFFICES ASSUME NEW n \in DOMAIN line, n # 1 PROVE n - 1 \in DOMAIN rest /\ rest[n - 1] = line[n]
      OBVIOUS
  <2>1. n - 1 \in 1..(Len(line) - 1) /\ (n - 1) + 1 = n
        BY <1>4
  <2> QED BY <1>4, <2>1
<1>7. \A m, n \in DOMAIN rest : m + 1 = n + 1 => m = n
      BY <1>4
<1>8. /\ \A n \in DOMAIN line : seg[line[n].of].at = "inferring"
      /\ \A m, n \in DOMAIN line : line[m].of = line[n].of => m = n
      /\ \A t \in Streams : seg[t].at = "inferring" => \E n \in DOMAIN line : line[n].of = t
      BY <1>1 DEF LineHolds, line
<1>9. \A n \in DOMAIN rest : rest[n].of # s /\ rest[n].of \in Streams
      BY <1>3, <1>4, <1>5, <1>8
<1>10. \A n \in DOMAIN rest : seg'[rest[n].of].at = "inferring"
       BY <1>2, <1>5, <1>8, <1>9
<1>11. \A m, n \in DOMAIN rest : rest[m].of = rest[n].of => m = n
       BY <1>5, <1>7, <1>8
<1>12. ASSUME NEW t \in Streams, seg'[t].at = "inferring" PROVE \E n \in DOMAIN rest : rest[n].of = t
  <2>1. t # s /\ seg[t].at = "inferring"
        BY <1>2, <1>12
  <2>2. PICK n \in DOMAIN line : line[n].of = t
        BY <1>8, <2>1
  <2>3. n # 1
        BY <1>4, <2>1, <2>2
  <2> QED BY <1>6, <2>2, <2>3
<1>13. LineHolds'
       BY <1>10, <1>11, <1>12 DEF LineHolds, rest
<1>14. OthersHold(s)
  <2> SUFFICES ASSUME NEW t \in Streams \ {s} PROVE SegmentHolds(t)' /\ StagesHold(t)'
      BY DEF OthersHold
  <2>1. SegmentHolds(t) /\ StagesHold(t)
        BY DEF SegmenterInv
  <2>2. \A n \in DOMAIN rest : rest[n].of = t => \E m \in DOMAIN line : line[m] = rest[n]
        BY <1>5
  <2> QED BY <1>2, <2>1, <2>2, Apart DEF line, rest
<1> QED BY <1>2, <1>4, <1>9, <1>13, <1>14 DEF rest

\* takeWindow: it has none left, it is quiet, or the network is asked.
LEMMA WindowsKeeps == ASSUME SegmenterInv, NEW s \in Streams, Windows(s) PROVE SegmenterInv'
<1> DEFINE h == seg[s]
           item == [from |-> h.taken, to |-> h.taken + WindowSize]
           after == [h EXCEPT !.taken = item.to, !.consumed = h.consumed + WindowSize]
<1>1. /\ SegmenterTypes /\ h \in Segmenters /\ SegmentHolds(s) /\ StagesHold(s)
      /\ h.at = "windows" /\ vad[s] = "silero" /\ h.taken \in Nat /\ h.consumed \in Nat
  <2>1. SegmenterTypes /\ h \in Segmenters /\ SegmentHolds(s) /\ StagesHold(s) /\ h.at = "windows"
        BY DEF SegmenterInv, SegmenterTypes, Windows
  <2> QED BY <2>1 DEF StagesHold, Segmenters
<1>2. UNCHANGED <<ear, vad, utterance>>
      BY DEF Windows
<1>3. \A n \in DOMAIN backend.line : backend.line[n].of # s
      BY <1>1, NoJob
<1>4. /\ item \in Items /\ item.from = h.taken /\ item.to = h.taken + WindowSize /\ item.to \in Nat
      /\ Size(item) <= LongestItem /\ item.to - WindowSize = h.taken
  <2>1. WindowSize \in Nat
        BY SegmenterAssumption
  <2>2. item \in Items /\ item.from = h.taken /\ item.to = h.taken + WindowSize /\ Size(item) = WindowSize
        BY <1>1, <2>1 DEF Items, Size
  <2> QED BY <1>1, <2>1, <2>2, LongestIs
<1>5. \/ seg' = [seg EXCEPT ![s] = [h EXCEPT !.at = "answered"]] /\ UNCHANGED <<net, backend>>
      \/ seg' = [seg EXCEPT ![s] = judged(after, item, FALSE)] /\ UNCHANGED <<net, backend>>
      \/ /\ seg' = [seg EXCEPT ![s] = [after EXCEPT !.at = "inferring"]]
         /\ backend' = [backend EXCEPT !.line = Append(@,
                [of |-> s, item |-> item, context |-> net[s].context, state |-> Never])]
         /\ net' = [net EXCEPT ![s].context = item.to]
      BY DEF Windows
<1>6. WindowSize \in Nat
      BY SegmenterAssumption
<1> HIDE DEF item
<1>7. /\ after \in Segmenters /\ after.at = "windows" /\ after.taken = item.to /\ after.stale = h.stale
      /\ after.mixed = h.mixed /\ after.asm = h.asm /\ after.since = h.since /\ after.out = h.out
  <2> DEFINE upto == item.to
             consumed == h.consumed + WindowSize
  <2>1. upto \in Nat /\ consumed \in Nat
        BY <1>1, <1>4, <1>6
  <2>2. after = [h EXCEPT !.taken = upto, !.consumed = consumed]
        OBVIOUS
  <2> HIDE DEF upto, consumed, after
  <2>3. /\ after \in Segmenters /\ after.at = "windows" /\ after.taken = upto /\ after.stale = h.stale
        /\ after.mixed = h.mixed /\ after.asm = h.asm /\ after.since = h.since /\ after.out = h.out
        BY <1>1, <2>1, <2>2 DEF Segmenters
  <2> QED BY <2>3 DEF upto
<1>8. Judged(h) = item.from
      BY <1>1, <1>4 DEF Judged
<1>9. CASE seg' = [seg EXCEPT ![s] = [h EXCEPT !.at = "answered"]] /\ UNCHANGED <<net, backend>>
  <2> DEFINE g == [h EXCEPT !.at = "answered"]
  <2>1. /\ g \in Segmenters /\ g.at = "answered" /\ g.taken = h.taken /\ g.stale = h.stale
        /\ g.mixed = h.mixed /\ g.asm = h.asm /\ g.since = h.since /\ g.out = h.out
        BY <1>1 DEF Segmenters
  <2>2. seg' = [seg EXCEPT ![s] = g]
        BY <1>9
  <2> HIDE DEF g
  <2>3. LineHolds' /\ OthersHold(s) /\ seg' \in [Streams -> Segmenters] /\ seg'[s] = g
    <3>1. g.at = "inferring" <=> seg[s].at = "inferring"
          BY <1>1, <2>1
    <3> QED BY <1>2, <1>9, <2>1, <2>2, <3>1, OneKeeps
  <2>4. SegmenterTypes'
        BY <1>1, <1>2, <1>9, <2>3 DEF SegmenterTypes
  <2>5. Judged(g) = Judged(h)
        BY <1>1, <2>1 DEF Judged
  <2>6. SegmentHolds(s)'
    <3>1. NetHolds(s) => NetHolds(s)'
          BY <1>1, <1>3, <1>9, <2>1, <2>3 DEF NetHolds
    <3> QED BY <1>1, <1>2, <2>1, <2>3, <2>5, <3>1 DEF SegmentHolds
  <2>7. StagesHold(s)'
        BY <1>1, <1>2, <2>1, <2>3 DEF StagesHold
  <2> QED BY <2>3, <2>4, <2>6, <2>7, InvHolds
<1>10. CASE seg' = [seg EXCEPT ![s] = judged(after, item, FALSE)] /\ UNCHANGED <<net, backend>>
  <2> HIDE DEF after
  <2> DEFINE g == judged(after, item, FALSE)
  <2>1. /\ g \in Segmenters /\ g.at = "windows" /\ g.taken = item.to /\ g.stale = h.stale /\ g.mixed = h.mixed
        /\ \A p : Leads(p, h.out, Stage(h.asm)) => Leads(p, g.out, Stage(g.asm))
        /\ Gathered(h.asm, h.since, item.from) =>
              /\ Gathered(g.asm, g.since, item.to)
              /\ (\A n \in DOMAIN h.out : h.out[n].event.type = "end" => Whole(h.out[n])) =>
                    \A n \in DOMAIN g.out : g.out[n].event.type = "end" => Whole(g.out[n])
    <3>1. /\ g \in Segmenters /\ g.at = after.at /\ g.taken = after.taken /\ g.stale = after.stale /\ g.mixed = after.mixed
          /\ \A p : Leads(p, after.out, Stage(after.asm)) => Leads(p, g.out, Stage(g.asm))
          /\ Gathered(after.asm, after.since, item.from) /\ Size(item) <= LongestItem =>
                /\ Gathered(g.asm, g.since, item.to)
                /\ (\A n \in DOMAIN after.out : after.out[n].event.type = "end" => Whole(after.out[n])) =>
                      \A n \in DOMAIN g.out : g.out[n].event.type = "end" => Whole(g.out[n])
          BY <1>4, <1>7, JudgedIs
    <3> HIDE DEF g
    <3> QED BY <1>4, <1>7, <3>1
  <2>2. seg' = [seg EXCEPT ![s] = g]
        BY <1>10
  <2> HIDE DEF g
  <2>3. LineHolds' /\ OthersHold(s) /\ seg' \in [Streams -> Segmenters] /\ seg'[s] = g
    <3>1. g.at = "inferring" <=> seg[s].at = "inferring"
          BY <1>1, <2>1
    <3> QED BY <1>2, <1>10, <2>1, <2>2, <3>1, OneKeeps
  <2>4. SegmenterTypes'
        BY <1>1, <1>2, <1>10, <2>3 DEF SegmenterTypes
  <2>5. Judged(g) = item.to
        BY <2>1 DEF Judged
  <2>6. SegmentHolds(s)'
    <3>1. NetHolds(s) => NetHolds(s)'
          BY <1>1, <1>3, <1>10, <2>1, <2>3 DEF NetHolds
    <3>2. ASSUME ~g.stale, g.at # "ended"
          PROVE  /\ Gathered(g.asm, g.since, Judged(g)) /\ Leads(utterance[s], g.out, Stage(g.asm)) /\ NetHolds(s)'
                 /\ \A n \in DOMAIN g.out : g.out[n].event.type = "end" => Whole(g.out[n])
      <4>1. /\ Gathered(h.asm, h.since, item.from) /\ Leads(utterance[s], h.out, Stage(h.asm)) /\ NetHolds(s)
            /\ \A n \in DOMAIN h.out : h.out[n].event.type = "end" => Whole(h.out[n])
            BY <1>1, <1>8, <2>1, <3>2 DEF SegmentHolds
      <4> QED BY <2>1, <2>5, <3>1, <4>1
    <3> QED BY <1>2, <1>4, <2>3, <2>5, <3>2 DEF SegmentHolds
  <2>7. StagesHold(s)'
        BY <1>1, <1>2, <2>1, <2>3 DEF StagesHold
  <2> QED BY <2>3, <2>4, <2>6, <2>7, InvHolds
<1>11. CASE /\ seg' = [seg EXCEPT ![s] = [after EXCEPT !.at = "inferring"]]
            /\ backend' = [backend EXCEPT !.line = Append(@,
                   [of |-> s, item |-> item, context |-> net[s].context, state |-> Never])]
            /\ net' = [net EXCEPT ![s].context = item.to]
  <2> HIDE DEF after
  <2> DEFINE g == [after EXCEPT !.at = "inferring"]
             job == [of |-> s, item |-> item, context |-> net[s].context, state |-> Never]
  <2>1. /\ g \in Segmenters /\ g.at = "inferring" /\ g.taken = item.to /\ g.stale = h.stale
        /\ g.mixed = h.mixed /\ g.asm = h.asm /\ g.since = h.since /\ g.out = h.out
        BY <1>7 DEF Segmenters
  <2>2. seg' = [seg EXCEPT ![s] = g] /\ backend'.line = Append(backend.line, job)
        BY <1>1, <1>11 DEF SegmenterTypes
  <2>3. /\ net \in [Streams -> [context : Nat, state : Nat]]
        /\ net' = [net EXCEPT ![s] = [net[s] EXCEPT !.context = item.to]]
        BY <1>1, <1>11 DEF SegmenterTypes
  <2>4. [net[s] EXCEPT !.context = item.to] \in [context : Nat, state : Nat]
        BY <1>4, <2>3
  <2>5. /\ net' \in [Streams -> [context : Nat, state : Nat]] /\ \A t \in Streams \ {s} : net'[t] = net[t]
        /\ net'[s].context = item.to /\ net'[s].state = net[s].state
        BY <2>3, <2>4
  <2>6. /\ job \in Jobs /\ job.of = s /\ job.item = item /\ job.context = net[s].context /\ job.state = Never
        BY <1>4, <2>3 DEF Jobs
  <2> HIDE DEF g, job
  <2>7. /\ LineHolds' /\ OthersHold(s) /\ seg' \in [Streams -> Segmenters] /\ seg'[s] = g
        /\ backend'.line \in Seq(Jobs) /\ \A n \in DOMAIN backend'.line : backend'.line[n].of = s => backend'.line[n] = job
    <3>1. \A t \in Streams \ {s} : net'[t] = net[t] /\ utterance'[t] = utterance[t] /\ vad'[t] = vad[t]
          BY <1>2, <2>5
    <3>2. seg[s].at # "inferring"
          BY <1>1
    <3> QED BY <2>1, <2>2, <2>6, <3>1, <3>2, LineGrows
  <2>8. SegmenterTypes'
    <3>1. backend' \in [at : {"none", "loading", "ready"}, line : Seq(Jobs)]
      <4>1. backend \in [at : {"none", "loading", "ready"}, line : Seq(Jobs)] /\ backend' = [backend EXCEPT !.line = backend'.line]
            BY <1>1, <1>11 DEF SegmenterTypes
      <4> QED BY <2>7, <4>1
    <3> QED BY <1>1, <1>2, <2>5, <2>7, <3>1 DEF SegmenterTypes
  <2>9. Judged(g) = item.from
        BY <1>4, <2>1 DEF Judged
  <2>10. ASSUME NetHolds(s) PROVE NetHolds(s)'
    <3>1. net[s].context = net[s].state /\ ~g.mixed
          BY <1>1, <2>1, <2>10 DEF NetHolds
    <3>2. job.item = [from |-> g.taken - WindowSize, to |-> g.taken]
          BY <1>4, <2>1, <2>6 DEF item
    <3>3. ASSUME NEW n \in DOMAIN backend'.line, backend'.line[n].of = s
          PROVE  /\ backend'.line[n].item = [from |-> g.taken - WindowSize, to |-> g.taken]
                 /\ net'[s].context = backend'.line[n].item.to
                 /\ backend'.line[n].context = IF backend'.line[n].state = Never THEN net'[s].state ELSE backend'.line[n].state
          BY <2>5, <2>6, <2>7, <3>1, <3>2, <3>3
    <3> QED BY <2>1, <2>7, <3>1, <3>3 DEF NetHolds
  <2>11. SegmentHolds(s)'
         BY <1>1, <1>2, <1>4, <1>8, <2>1, <2>7, <2>9, <2>10 DEF SegmentHolds
  <2>12. StagesHold(s)'
         BY <1>1, <1>2, <2>1, <2>7 DEF StagesHold
  <2> QED BY <2>7, <2>8, <2>11, <2>12, InvHolds
<1> QED BY <1>5, <1>9, <1>10, <1>11

\* Whose inference is computed, and what is known of it.
LEMMA HeadIs ==
  ASSUME SegmenterInv, backend.line # <<>>
  PROVE  LET job == Head(backend.line) IN
         /\ job \in Jobs /\ job = backend.line[1] /\ 1 \in DOMAIN backend.line /\ job.of \in Streams
         /\ job.item \in Items /\ job.context \in Nat /\ seg[job.of].at = "inferring"
<1> DEFINE line == backend.line
<1>1. line \in Seq(Jobs) /\ LineHolds
      BY DEF SegmenterInv, SegmenterTypes
<1>2. line # <<>>
      OBVIOUS
<1> HIDE DEF line
<1>3. Head(line) = line[1] /\ 1 \in DOMAIN line /\ Head(line) \in Jobs
      BY <1>1, <1>2
<1>4. \A job \in Jobs : job.of \in Streams /\ job.item \in Items /\ job.context \in Nat
      BY DEF Jobs
<1> QED BY <1>1, <1>3, <1>4 DEF LineHolds, line

\* The first in line starts, from the state there is by then.
LEMMA RunsKeeps == ASSUME SegmenterInv, Runs PROVE SegmenterInv'
<1> DEFINE line == backend.line
           job == Head(line)
           s == job.of
           after == [job EXCEPT !.state = net[s].state]
           more == backend'.line
<1>1. line # <<>> /\ job.state = Never /\ UNCHANGED <<ear, vad, seg, net, utterance>>
      BY DEF Runs
<1>2. job \in Jobs /\ job = line[1] /\ 1 \in DOMAIN line /\ s \in Streams
      BY <1>1, HeadIs
<1>3. /\ SegmenterTypes /\ LineHolds /\ line \in Seq(Jobs) /\ net[s].state \in Nat
      /\ backend \in [at : {"none", "loading", "ready"}, line : Seq(Jobs)]
      BY <1>2 DEF SegmenterInv, SegmenterTypes
<1>4. backend' = [backend EXCEPT !.line = [line EXCEPT ![1] = after]]
      BY <1>2, <1>3 DEF Runs
<1>5. after \in Jobs /\ after.of = s /\ after.item = job.item /\ after.context = job.context /\ after.state = net[s].state
      BY <1>2, <1>3 DEF Jobs
<1>6. more = [line EXCEPT ![1] = after] /\ backend' = [backend EXCEPT !.line = more]
      BY <1>3, <1>4
<1>7. Never \notin Nat
      BY SegmenterAssumption
<1> HIDE DEF line, job, after, more
<1>8. more \in Seq(Jobs) /\ DOMAIN more = DOMAIN line /\ more[1] = after /\ \A n \in DOMAIN line : n # 1 => more[n] = line[n]
      BY <1>2, <1>3, <1>5, <1>6
<1>9. backend' \in [at : {"none", "loading", "ready"}, line : Seq(Jobs)]
      BY <1>3, <1>6, <1>8
<1>10. SegmenterTypes'
       BY <1>1, <1>3, <1>9 DEF SegmenterTypes
<1>11. \A n \in DOMAIN line : more[n].of = line[n].of
       BY <1>2, <1>5, <1>8
<1>12. LineHolds'
  <2>1. /\ \A n \in DOMAIN line : seg[line[n].of].at = "inferring"
        /\ \A m, n \in DOMAIN line : line[m].of = line[n].of => m = n
        /\ \A t \in Streams : seg[t].at = "inferring" => \E n \in DOMAIN line : line[n].of = t
        BY <1>3 DEF LineHolds, line
  <2>2. /\ \A n \in DOMAIN more : seg'[more[n].of].at = "inferring"
        /\ \A m, n \in DOMAIN more : more[m].of = more[n].of => m = n
        /\ \A t \in Streams : seg'[t].at = "inferring" => \E n \in DOMAIN more : more[n].of = t
        BY <1>1, <1>8, <1>11, <2>1
  <2> QED BY <2>2 DEF LineHolds, more
<1>13. ASSUME NEW t \in Streams PROVE SegmentHolds(t)' /\ StagesHold(t)'
  <2>1. SegmentHolds(t) /\ StagesHold(t)
        BY DEF SegmenterInv
  <2>2. ASSUME NetHolds(t) PROVE NetHolds(t)'
    <3>1. ASSUME NEW n \in DOMAIN more, more[n].of = t
          PROVE  /\ more[n].item = [from |-> seg[t].taken - WindowSize, to |-> seg[t].taken]
                 /\ net[t].context = more[n].item.to
                 /\ more[n].context = IF more[n].state = Never THEN net[t].state ELSE more[n].state
      <4>1. /\ line[n].of = t /\ line[n].item = [from |-> seg[t].taken - WindowSize, to |-> seg[t].taken]
            /\ net[t].context = line[n].item.to
            /\ line[n].context = IF line[n].state = Never THEN net[t].state ELSE line[n].state
            BY <1>8, <1>11, <2>2, <3>1 DEF NetHolds, line
      <4>2. CASE n # 1
            BY <1>8, <3>1, <4>1, <4>2
      <4>3. CASE n = 1
        <5>1. more[n] = after /\ line[n] = job /\ s = t
              BY <1>2, <1>8, <4>1, <4>3
        <5> QED BY <1>1, <1>3, <1>5, <1>7, <4>1, <5>1 DEF job, line
      <4> QED BY <4>2, <4>3
    <3>2. ~seg'[t].mixed /\ (seg'[t].at # "inferring" => net'[t].context = net'[t].state)
          BY <1>1, <2>2 DEF NetHolds
    <3> QED BY <1>1, <3>1, <3>2 DEF NetHolds, more
  <2> QED BY <1>1, <2>1, <2>2 DEF SegmentHolds, StagesHold
<1> QED BY <1>10, <1>12, <1>13 DEF SegmenterInv

\* A step after which a conversation's segmenter holds, the first in line being its own.
LEMMA InfersKeeps == ASSUME NEW job, NEW s, job = Head(backend.line), s = job.of, SegmenterInv, Infers
                    PROVE  SegmenterInv'
<1> DEFINE h == seg[s]
           item == job.item
<1>1. /\ backend.line # <<>> /\ job.state # Never /\ backend' = [backend EXCEPT !.line = Tail(@)]
      /\ net' = [net EXCEPT ![s].state = item.to] /\ UNCHANGED <<ear, vad, utterance>>
      BY DEF Infers, Computing, Released
<1>2. job \in Jobs /\ job = backend.line[1] /\ 1 \in DOMAIN backend.line /\ s \in Streams /\ item \in Items /\ h.at = "inferring"
      BY <1>1, HeadIs
<1>3. PICK voiced \in BOOLEAN :
        seg' = [seg EXCEPT ![s] = [judged(seg[s], job.item, voiced) EXCEPT !.at = "windows", !.mixed = @ \/ job.context # job.state]]
  <2>1. h.on \in BOOLEAN
        BY <1>2 DEF SegmenterInv, SegmenterTypes, Segmenters
  <2>2. PICK probability \in {"low", "between", "high"} :
          LET voiced == probability = "high" \/ (probability = "between" /\ h.on)
          IN  seg' = [seg EXCEPT ![s] = [judged(seg[s], job.item, voiced) EXCEPT !.at = "windows", !.mixed = @ \/ job.context # job.state]]
        BY DEF Infers
  <2> DEFINE loud == probability = "high" \/ (probability = "between" /\ h.on)
  <2>3. loud \in BOOLEAN
        OBVIOUS
  <2> QED BY <2>2, <2>3
<1>4. /\ SegmenterTypes /\ h \in Segmenters /\ SegmentHolds(s) /\ StagesHold(s)
      /\ net \in [Streams -> [context : Nat, state : Nat]] /\ h.taken \in Nat
      /\ backend \in [at : {"none", "loading", "ready"}, line : Seq(Jobs)]
  <2>1. SegmenterTypes /\ h \in Segmenters /\ SegmentHolds(s) /\ StagesHold(s)
        BY <1>2 DEF SegmenterInv, SegmenterTypes
  <2> QED BY <2>1 DEF SegmenterTypes, Segmenters
<1>5. item.to \in Nat
      BY <1>2 DEF Items
<1>6. backend'.line = Tail(backend.line)
      BY <1>1, <1>4
<1> DEFINE j == judged(h, item, voiced)
           mixed == j.mixed \/ job.context # job.state
           g == [j EXCEPT !.at = "windows", !.mixed = mixed]
<1> HIDE DEF item
<1>7. /\ j \in Segmenters /\ j.taken = h.taken /\ j.stale = h.stale /\ j.mixed = h.mixed
      /\ \A p : Leads(p, h.out, Stage(h.asm)) => Leads(p, j.out, Stage(j.asm))
      /\ Gathered(h.asm, h.since, item.from) /\ Size(item) <= LongestItem =>
            /\ Gathered(j.asm, j.since, item.to)
            /\ (\A n \in DOMAIN h.out : h.out[n].event.type = "end" => Whole(h.out[n])) =>
                  \A n \in DOMAIN j.out : j.out[n].event.type = "end" => Whole(j.out[n])
  <2>1. h \in Segmenters /\ item \in Items /\ voiced \in BOOLEAN
        BY <1>2, <1>4
  <2> HIDE DEF h
  <2> QED BY ONLY <2>1, JudgedIs
<1> HIDE DEF j
<1>8. mixed \in BOOLEAN
      BY <1>7 DEF Segmenters
<1>9. seg' = [seg EXCEPT ![s] = g]
  <2>1. seg' = [seg EXCEPT ![s] = [j EXCEPT !.at = "windows", !.mixed = @ \/ job.context # job.state]]
        BY <1>3 DEF j, item
  <2>2. [j EXCEPT !.at = "windows", !.mixed = @ \/ job.context # job.state] = g
        BY <1>7 DEF Segmenters
  <2> QED BY <2>1, <2>2
<1> HIDE DEF mixed
<1>10. /\ g \in Segmenters /\ g.at = "windows" /\ g.taken = h.taken /\ g.stale = h.stale
       /\ g.mixed = mixed /\ g.asm = j.asm /\ g.since = j.since /\ g.out = j.out
       BY <1>7, <1>8 DEF Segmenters
<1> HIDE DEF g
<1>11. /\ net' \in [Streams -> [context : Nat, state : Nat]] /\ \A t \in Streams \ {s} : net'[t] = net[t]
       /\ net'[s].context = net[s].context /\ net'[s].state = item.to
  <2>1. net' = [net EXCEPT ![s] = [net[s] EXCEPT !.state = item.to]]
        BY <1>1 DEF item
  <2>2. [net[s] EXCEPT !.state = item.to] \in [context : Nat, state : Nat]
        BY <1>2, <1>4, <1>5
  <2> QED BY <1>2, <1>4, <2>1, <2>2
<1>12. /\ LineHolds' /\ OthersHold(s) /\ seg' \in [Streams -> Segmenters] /\ seg'[s] = g
       /\ backend'.line \in Seq(Jobs) /\ \A n \in DOMAIN backend'.line : backend'.line[n].of # s
  <2>1. g.at # "inferring"
        BY <1>10
  <2>2. \A t \in Streams \ {s} : net'[t] = net[t] /\ utterance'[t] = utterance[t] /\ vad'[t] = vad[t]
        BY <1>1, <1>11
  <2> QED BY <1>1, <1>2, <1>6, <1>9, <1>10, <2>1, <2>2, LineShrinks
<1>13. SegmenterTypes'
  <2>1. backend' \in [at : {"none", "loading", "ready"}, line : Seq(Jobs)]
    <3>1. backend' = [backend EXCEPT !.line = backend'.line]
          BY <1>1, <1>6
    <3> QED BY <1>4, <1>12, <3>1
  <2> QED BY <1>1, <1>4, <1>11, <1>12, <2>1 DEF SegmenterTypes
<1>14. ASSUME ~g.stale, g.at # "ended"
       PROVE  /\ Judged(g) \in Nat /\ Gathered(g.asm, g.since, Judged(g)) /\ Leads(utterance[s], g.out, Stage(g.asm))
              /\ \A n \in DOMAIN g.out : g.out[n].event.type = "end" => Whole(g.out[n])
              /\ ~g.mixed /\ net'[s].context = net'[s].state
  <2>1. /\ Judged(h) \in Nat /\ Gathered(h.asm, h.since, Judged(h)) /\ Leads(utterance[s], h.out, Stage(h.asm)) /\ NetHolds(s)
        /\ \A n \in DOMAIN h.out : h.out[n].event.type = "end" => Whole(h.out[n])
        BY <1>2, <1>4, <1>10, <1>14 DEF SegmentHolds
  <2>2. /\ item = [from |-> h.taken - WindowSize, to |-> h.taken] /\ net[s].context = item.to
        /\ job.context = job.state /\ ~h.mixed
    <3>1. backend.line[1] = job /\ job.of = s /\ job.item = item /\ job.state # Never
          BY <1>1, <1>2 DEF item
    <3> QED BY <1>2, <2>1, <3>1 DEF NetHolds
  <2>3. item.from = Judged(h) /\ item.to = h.taken /\ Size(item) = WindowSize
    <3>1. item.from = h.taken - WindowSize /\ item.to = h.taken
          BY <2>2
    <3>2. WindowSize \in Nat
          BY SegmenterAssumption
    <3> QED BY <1>2, <1>4, <3>1, <3>2 DEF Size, Judged
  <2>4. /\ Gathered(j.asm, j.since, item.to) /\ Leads(utterance[s], j.out, Stage(j.asm))
        /\ \A n \in DOMAIN j.out : j.out[n].event.type = "end" => Whole(j.out[n])
    <3>1. Gathered(h.asm, h.since, item.from) /\ Size(item) <= LongestItem
          BY <2>1, <2>3, LongestIs
    <3> QED BY <1>7, <2>1, <3>1
  <2>5. Judged(g) = item.to
        BY <1>10, <2>3 DEF Judged
  <2>6. ~mixed
        BY <1>7, <2>2 DEF mixed
  <2> QED BY <1>5, <1>10, <1>11, <2>2, <2>4, <2>5, <2>6
<1>15. SegmentHolds(s)'
  <2>1. ~g.stale => NetHolds(s)'
        BY <1>10, <1>12, <1>14 DEF NetHolds
  <2>2. utterance'[s] = utterance[s]
        BY <1>1
  <2> QED BY <1>10, <1>12, <1>14, <2>1, <2>2 DEF SegmentHolds
<1>16. StagesHold(s)'
       BY <1>1, <1>2, <1>4, <1>10, <1>12 DEF StagesHold
<1> QED BY <1>2, <1>12, <1>13, <1>15, <1>16, InvHolds

\* An inference fails, and its segmenter holds nothing any more.
LEMMA InferFailsKeeps == ASSUME NEW s, s = Head(backend.line).of, SegmenterInv, InferFails PROVE SegmenterInv'
<1> DEFINE h == seg[s]
           g == [h EXCEPT !.at = "ended"]
<1>1. /\ backend.line # <<>> /\ backend' = [backend EXCEPT !.line = Tail(@)] /\ UNCHANGED <<ear, vad, net, utterance>>
      BY DEF InferFails, Computing, Released
<1>2. s \in Streams /\ h.at = "inferring"
      BY <1>1, HeadIs
<1>3. /\ SegmenterTypes /\ h \in Segmenters /\ StagesHold(s)
      /\ backend \in [at : {"none", "loading", "ready"}, line : Seq(Jobs)]
  <2>1. SegmenterTypes /\ h \in Segmenters /\ StagesHold(s)
        BY <1>2 DEF SegmenterInv, SegmenterTypes
  <2> QED BY <2>1 DEF SegmenterTypes
<1>4. seg' = [seg EXCEPT ![s] = g] /\ backend'.line = Tail(backend.line)
      BY <1>1, <1>3 DEF InferFails
<1>5. g \in Segmenters /\ g.at = "ended" /\ g.stale = h.stale /\ g.fed = h.fed /\ g.taken = h.taken
      BY <1>3 DEF Segmenters
<1> HIDE DEF g
<1>6. /\ LineHolds' /\ OthersHold(s) /\ seg' \in [Streams -> Segmenters] /\ seg'[s] = g
      /\ backend'.line \in Seq(Jobs)
  <2>1. g.at # "inferring"
        BY <1>5
  <2>2. \A t \in Streams \ {s} : net'[t] = net[t] /\ utterance'[t] = utterance[t] /\ vad'[t] = vad[t]
        BY <1>1
  <2> QED BY <1>1, <1>2, <1>4, <1>5, <2>1, <2>2, LineShrinks
<1>7. SegmenterTypes'
  <2>1. backend' \in [at : {"none", "loading", "ready"}, line : Seq(Jobs)]
    <3>1. backend' = [backend EXCEPT !.line = backend'.line]
          BY <1>1, <1>4
    <3> QED BY <1>3, <1>6, <3>1
  <2> QED BY <1>1, <1>3, <1>6, <2>1 DEF SegmenterTypes
<1>8. SegmentHolds(s)' /\ StagesHold(s)'
      BY <1>1, <1>2, <1>3, <1>5, <1>6 DEF SegmentHolds, StagesHold
<1> QED BY <1>2, <1>6, <1>7, <1>8, InvHolds

\* Conversations that have heard nothing.
LEMMA SegmenterStarts == SegmenterInit => SegmenterInv
<1> SUFFICES ASSUME SegmenterInit PROVE SegmenterInv
    OBVIOUS
<1>1. NewSegmenter \in Segmenters
  <2>1. Silent \in Assemblers /\ <<>> \in Seq(Events)
        BY DEF Silent, Assemblers
  <2> DEFINE q == Silent
  <2> HIDE DEF q
  <2>2. NewSegmenter = [at |-> "idle", anchor |-> Never, consumed |-> 0, fed |-> 0, taken |-> 0, on |-> FALSE,
                        asm |-> q, out |-> <<>>, stale |-> FALSE, since |-> 0, mixed |-> FALSE]
        BY DEF NewSegmenter, q
  <2> QED BY <2>1, <2>2 DEF Segmenters, q
<1>2. /\ NewSegmenter.at = "idle" /\ NewSegmenter.fed = 0 /\ NewSegmenter.taken = 0 /\ NewSegmenter.asm = Silent
      /\ NewSegmenter.out = <<>> /\ ~NewSegmenter.stale /\ NewSegmenter.since = 0 /\ ~NewSegmenter.mixed
      BY DEF NewSegmenter
<1>3. FreshNet \in [context : Nat, state : Nat] /\ FreshNet.context = FreshNet.state
      BY DEF FreshNet
<1>4. /\ seg = [s \in Streams |-> NewSegmenter] /\ net = [s \in Streams |-> FreshNet]
      /\ utterance = [s \in Streams |-> "none"] /\ vad = [s \in Streams |-> "none"]
      /\ ear = [s \in Streams |-> [queue |-> <<>>, clock |-> 0]] /\ backend = [at |-> "none", line |-> <<>>]
      BY DEF SegmenterInit
<1>5. SegmenterTypes
  <2>1. ear \in [Streams -> [queue : Seq(Frames), clock : Nat]] /\ backend \in [at : {"none", "loading", "ready"}, line : Seq(Jobs)]
        BY <1>4
  <2> QED BY <1>1, <1>3, <1>4, <2>1 DEF SegmenterTypes
<1>6. \A n \in DOMAIN backend.line : FALSE
      BY <1>4
<1>7. LineHolds
      BY <1>2, <1>4, <1>6 DEF LineHolds
<1>8. ASSUME NEW s \in Streams PROVE SegmentHolds(s) /\ StagesHold(s)
  <2>1. Gathered(Silent, 0, 0) /\ Stage(Silent) = "none"
        BY SilentHolds
  <2>2. NetHolds(s)
        BY <1>2, <1>3, <1>4, <1>6 DEF NetHolds
  <2>3. Leads("none", <<>>, "none")
        BY DEF Leads
  <2>4. seg[s] = NewSegmenter /\ utterance[s] = "none" /\ Judged(NewSegmenter) = 0
        BY <1>2, <1>4 DEF Judged
  <2>5. \A n \in DOMAIN NewSegmenter.out : FALSE
        BY <1>2
  <2> QED BY <1>2, <2>1, <2>2, <2>3, <2>4, <2>5 DEF SegmentHolds, StagesHold
<1> QED BY <1>5, <1>7, <1>8 DEF SegmenterInv

\* Every step keeps the invariant of the segmenters.
LEMMA SegmenterKeeps == ASSUME SegmenterInv, [SegmenterNext]_segmenterVars PROVE SegmenterInv'
<1>1. CASE UNCHANGED segmenterVars
  <2>1. UNCHANGED <<seg, net, utterance>> /\ UNCHANGED <<ear, vad, backend>>
        BY <1>1 DEF segmenterVars
  <2>2. SegmenterTypes'
        BY <2>1 DEF SegmenterInv, SegmenterTypes
  <2> QED BY <2>1, <2>2, RestKeeps
<1>2. CASE SegmenterNext
  <2>1. CASE Loads
        BY <2>1, LoadsKeeps
  <2>2. CASE Runs
        BY <2>2, RunsKeeps
  <2>3. CASE Infers
    <3>1. PICK job, s : job = Head(backend.line) /\ s = job.of
          OBVIOUS
    <3> QED BY <2>3, <3>1, InfersKeeps
  <2>4. CASE InferFails
    <3>1. PICK s : s = Head(backend.line).of
          OBVIOUS
    <3> QED BY <2>4, <3>1, InferFailsKeeps
  <2>5. ASSUME NEW s \in Streams, Chooses(s) PROVE SegmenterInv'
        BY <2>5, ChoosesKeeps
  <2>6. ASSUME NEW s \in Streams, Pauses(s) \/ \E n \in FrameSizes : Captures(s, n) PROVE SegmenterInv'
        BY <2>6, CapturesKeep
  <2>7. ASSUME NEW s \in Streams, Suppresses(s) PROVE SegmenterInv'
        BY <2>7, SuppressesKeeps
  <2>8. ASSUME NEW s \in Streams, PushesEnergy(s) PROVE SegmenterInv'
        BY <2>8, PushesEnergyKeeps
  <2>9. ASSUME NEW s \in Streams, PushesSilero(s) PROVE SegmenterInv'
        BY <2>9, PushesSileroKeeps
  <2>10. ASSUME NEW s \in Streams, Windows(s) PROVE SegmenterInv'
         BY <2>10, WindowsKeeps
  <2>11. ASSUME NEW s \in Streams, TypedText(s) PROVE SegmenterInv'
         BY <2>11, TypedTextKeeps
  <2>12. ASSUME NEW s \in Streams, Hears(s) PROVE SegmenterInv'
         BY <2>12, HearsKeeps
  <2> QED BY <1>2, <2>1, <2>2, <2>3, <2>4, <2>5, <2>6, <2>7, <2>8, <2>9, <2>10, <2>11, <2>12 DEF SegmenterNext
<1> QED BY <1>1, <1>2

\* A segmenter, what the loop knows of it and the inferences in line fit together, in every state.
THEOREM SegmenterInvariant == SegmenterSpec => []SegmenterInv
<1>1. SegmenterInv /\ [SegmenterNext]_segmenterVars => SegmenterInv'
      BY SegmenterKeeps
<1> QED BY <1>1, SegmenterStarts, PTL DEF SegmenterSpec

\* What is told in the order it has to be told is told of an utterance.
LEMMA LeadsInOrder ==
  ASSUME NEW p, NEW q, NEW e \in Seq(Events), Leads(p, e, q)
  PROVE  Ordered(p, e)
<1>1. ASSUME NEW n \in DOMAIN e
      PROVE  LET type == e[n].event.type
                 before == FoldLeft(Told, p, SubSeq(e, 1, n - 1)) IN
             CASE type = "start" -> before = "none"
               [] type = "confirmed" -> before = "started"
               [] type = "end" -> before = "confirmed"
               [] type = "dropped" -> before = "started"
  <2> DEFINE part == SubSeq(e, 1, n - 1)
  <2>1. /\ n \in Nat /\ n >= 1 /\ n <= Len(e) /\ Len(e) \in Nat /\ e[n] \in Events
        OBVIOUS
  <2>2. /\ part \in Seq(Events) /\ Len(part) = n - 1 /\ (n # 1 => part[n - 1] = e[n - 1] /\ part # <<>>)
        /\ (n = 1 => part = <<>>)
        BY <2>1
  <2> HIDE DEF part
  <2>3. FoldLeft(Told, p, part) = IF n = 1 THEN p ELSE Told(p, e[n - 1])
        BY <2>1, <2>2, ToldIs
  <2>4. Before(e[n].event.type) = FoldLeft(Told, p, part)
        BY <2>3 DEF Leads
  <2>5. e[n].event.type \in {"start", "confirmed", "end", "dropped"}
        BY <2>1 DEF Events, Plain, Cuts
  <2> QED BY <2>4, <2>5 DEF Before, part
<1> QED BY <1>1 DEF Ordered

\* Speech is cut into utterances, by reset, failure and company undisturbed: each is one whole
\* stretch, told of in order and judged by a network whose state was its own, and an inference
\* that is awaited is in line, once.
THEOREM SpeechStaysSegmented == SegmenterSpec => []SpeechIsSegmented
<1>1. ASSUME SegmenterInv PROVE UtterancesHold
  <2> SUFFICES ASSUME NEW s \in Streams, seg[s].at = "answered", ~seg[s].stale
               PROVE  /\ Ordered(utterance[s], seg[s].out) /\ ~seg[s].mixed
                      /\ \A n \in DOMAIN seg[s].out : seg[s].out[n].event.type = "end" => Whole(seg[s].out[n])
      BY DEF UtterancesHold
  <2>1. SegmentHolds(s) /\ seg[s] \in Segmenters
        BY <1>1 DEF SegmenterInv, SegmenterTypes
  <2>2. /\ Leads(utterance[s], seg[s].out, Stage(seg[s].asm)) /\ NetHolds(s)
        /\ \A n \in DOMAIN seg[s].out : seg[s].out[n].event.type = "end" => Whole(seg[s].out[n])
        BY <2>1 DEF SegmentHolds
  <2>3. seg[s].out \in Seq(Events)
        BY <2>1 DEF Segmenters
  <2> QED BY <2>2, <2>3, LeadsInOrder DEF NetHolds
<1>2. ASSUME SegmenterInv PROVE InferencesAreAnswered
  <2> SUFFICES ASSUME NEW s \in Streams
               PROVE  Cardinality({n \in DOMAIN backend.line : backend.line[n].of = s}) =
                        IF seg[s].at = "inferring" THEN 1 ELSE 0
      BY DEF InferencesAreAnswered
  <2> DEFINE own == {n \in DOMAIN backend.line : backend.line[n].of = s}
  <2>1. CASE seg[s].at = "inferring"
    <3>1. PICK n \in DOMAIN backend.line : backend.line[n].of = s
          BY <1>2, <2>1 DEF SegmenterInv, LineHolds
    <3>2. own = {n}
          BY <1>2, <3>1 DEF SegmenterInv, LineHolds
    <3> QED BY <2>1, <3>2, FS_Singleton
  <2>2. CASE seg[s].at # "inferring"
    <3>1. own = {}
          BY <1>2, <2>2, NoJob
    <3> QED BY <2>2, <3>1, FS_EmptySet
  <2> QED BY <2>1, <2>2
<1>3. SegmenterInv => SpeechIsSegmented
      BY <1>1, <1>2 DEF SpeechIsSegmented
<1> QED BY <1>3, SegmenterInvariant, PTL
==============================================================================
