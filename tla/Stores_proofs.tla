---------------------------- MODULE Stores_proofs ----------------------------
(***************************************************************************)
(* What is kept on disk.                                                   *)
(*                                                                         *)
(* The retained conversations: whatever the disk refuses, whenever the     *)
(* process goes down, for any number of conversations and recordings, any  *)
(* frames and any ceilings, the two databases, the files and the counters  *)
(* say the same of the audio that is kept.                                 *)
(*                                                                         *)
(* Bytes and reservations are sums over finite sets.  What a sum becomes   *)
(* when one element moves is proved first (SumTakes, SumMoves), by         *)
(* induction on the size of a set; the invariant (RetentionInv) ties them  *)
(* to the operations that wait and to how far the first has come.          *)
(*                                                                         *)
(* The capture library, at the end: for any number of captures, any quota, *)
(* and any requests and restarts, its rows and files agree, and room is    *)
(* made under the quota at no cost of curated work (LibraryInv).           *)
(***************************************************************************)
EXTENDS Retention, CaptureLibrary, FiniteSetTheorems, SequenceTheorems, WellFoundedInduction, TLAPS

-----------------------------------------------------------------------------
(* Least elements, induction and folds.                                    *)

\* Every non-empty set of naturals has a least element.
LEMMA LeastNat ==
  ASSUME NEW T, T \subseteq Nat, T # {}
  PROVE  \E x \in T : \A y \in T : x <= y
<1> DEFINE R == OpToRel(<, Nat)
<1>1. IsWellFoundedOn(R, Nat)
      BY NatLessThanWellFounded
<1>2. \A x, y \in Nat : <<y, x>> \in R <=> y < x
      BY DEF OpToRel
<1> HIDE DEF R
<1>3. PICK x \in T : \A y \in T : ~(<<y, x>> \in R)
      BY <1>1, WFMin
<1>4. ASSUME NEW y \in T PROVE x <= y
  <2>1. ~(y < x)
        BY <1>2, <1>3
  <2> QED BY <2>1
<1> QED BY <1>4

\* Induction, for a set of naturals instead of a predicate.
LEMMA Inductive ==
  ASSUME NEW T, 0 \in T, \A n \in Nat : n \in T => n + 1 \in T
  PROVE  Nat \subseteq T
<1> SUFFICES ASSUME Nat \ T # {} PROVE FALSE
    OBVIOUS
<1>1. PICK x \in Nat \ T : \A y \in Nat \ T : x <= y
      BY LeastNat
<1>2. x - 1 \in Nat /\ x - 1 \in T
      BY <1>1
<1> QED BY <1>1, <1>2
\* A fold over a finite set, as MapThenFoldSet writes it: S is what is folded, pick the
\* element that is taken first, step what it makes of the rest.
Folds(g, S, base, pick, step) ==
    \A T \in SUBSET S : g[T] = IF T = {} THEN base ELSE step[<<pick[T], g[T \ {pick[T]}]>>]

\* Taking an element out makes a set smaller.
LEMMA Smaller ==
  ASSUME NEW S, IsFiniteSet(S), NEW T \in SUBSET S, NEW x \in T
  PROVE  /\ IsFiniteSet(T) /\ Cardinality(T) \in Nat /\ Cardinality(T) # 0
         /\ T \ {x} \in SUBSET S /\ Cardinality(T \ {x}) = Cardinality(T) - 1
  BY FS_Subset, FS_CardinalityType, FS_RemoveElement, FS_EmptySet

\* There is such a function.
LEMMA FoldExists ==
  ASSUME NEW S, IsFiniteSet(S), NEW V, NEW base \in V, NEW pick, NEW step,
         \A T \in SUBSET S : T # {} => pick[T] \in T,
         \A x \in S, v \in V : step[<<x, v>>] \in V
  PROVE  \E g \in [SUBSET S -> V] : Folds(g, S, base, pick, step)
<1> DEFINE Small(n) == {T \in SUBSET S : Cardinality(T) <= n}
           Next0(g, T) == IF T = {} THEN base ELSE step[<<pick[T], g[T \ {pick[T]}]>>]
           Defined == {n \in Nat : \E g \in [Small(n) -> V] : \A T \in Small(n) : g[T] = Next0(g, T)}
<1>1. \A T \in SUBSET S : T # {} => /\ pick[T] \in T /\ pick[T] \in S
                                    /\ Cardinality(T) \in Nat /\ Cardinality(T) # 0
                                    /\ T \ {pick[T]} \in SUBSET S
                                    /\ Cardinality(T \ {pick[T]}) = Cardinality(T) - 1
      BY Smaller
<1>2. 0 \in Defined
  <2>1. ASSUME NEW T \in Small(0) PROVE T = {}
    <3>1. CASE T # {}
      <4>1. Cardinality(T) \in Nat /\ Cardinality(T) # 0 /\ Cardinality(T) <= 0
            BY <1>1, <3>1
      <4> QED BY <4>1
    <3> QED BY <3>1
  <2>2. [T \in Small(0) |-> base] \in [Small(0) -> V]
        OBVIOUS
  <2> QED BY <2>1, <2>2
<1>3. ASSUME NEW n \in Nat, n \in Defined PROVE n + 1 \in Defined
  <2>1. PICK g \in [Small(n) -> V] : \A T \in Small(n) : g[T] = Next0(g, T)
        BY <1>3
  <2> DEFINE h == [T \in Small(n + 1) |-> Next0(g, T)]
  <2>2. \A T \in Small(n + 1) : T # {} => T \ {pick[T]} \in Small(n)
        BY <1>1
  <2>3. h \in [Small(n + 1) -> V]
    <3>1. ASSUME NEW T \in Small(n + 1), T # {} PROVE step[<<pick[T], g[T \ {pick[T]}]>>] \in V
          BY <1>1, <2>2, <3>1
    <3> QED BY <3>1
  <2>4. \A T \in Small(n) : T \in Small(n + 1) /\ h[T] = g[T]
    <3>1. ASSUME NEW T \in Small(n) PROVE T \in Small(n + 1)
      <4>1. T # {} => Cardinality(T) \in Nat
            BY <1>1
      <4>2. T = {} => Cardinality(T) = 0
            BY FS_EmptySet
      <4> QED BY <4>1, <4>2
    <3> QED BY <2>1, <3>1
  <2> HIDE DEF h
  <2>5. ASSUME NEW T \in Small(n + 1) PROVE h[T] = Next0(h, T)
    <3>1. h[T] = Next0(g, T)
          BY DEF h
    <3>2. CASE T # {}
      <4>1. h[T \ {pick[T]}] = g[T \ {pick[T]}]
            BY <2>2, <2>4, <3>2
      <4> QED BY <3>1, <4>1
    <3> QED BY <3>1, <3>2
  <2> HIDE DEF Small, Next0
  <2>6. \E f \in [Small(n + 1) -> V] : \A T \in Small(n + 1) : f[T] = Next0(f, T)
        BY <2>3, <2>5
  <2> QED BY <2>6
<1>4. Nat \subseteq Defined
  <2> HIDE DEF Defined
  <2> QED BY <1>2, <1>3, Inductive
<1>5. Cardinality(S) \in Nat /\ \A T \in SUBSET S : Cardinality(T) <= Cardinality(S)
      BY FS_Subset, FS_CardinalityType
<1>6. Small(Cardinality(S)) = SUBSET S
      BY <1>5
<1>7. PICK g \in [SUBSET S -> V] : \A T \in SUBSET S : g[T] = Next0(g, T)
  <2>1. Cardinality(S) \in Defined
        BY <1>4, <1>5
  <2> HIDE DEF Next0
  <2>2. \E g \in [Small(Cardinality(S)) -> V] : \A T \in Small(Cardinality(S)) : g[T] = Next0(g, T)
        BY <2>1
  <2> HIDE DEF Small
  <2> QED BY <1>6, <2>2
<1> QED BY <1>7 DEF Folds

\* What is not empty and lies in an interval has a greatest element.
\* Induction over the parts of a finite set, one element at a time.
LEMMA FiniteInductive ==
  ASSUME NEW S, IsFiniteSet(S), NEW R, {} \in R,
         \A T \in SUBSET S : T # {} => \E x \in T : T \ {x} \in R => T \in R
  PROVE  S \in R
<1> DEFINE Reached == {n \in Nat : \A T \in SUBSET S : Cardinality(T) <= n => T \in R}
<1>1. 0 \in Reached
  <2>1. ASSUME NEW T \in SUBSET S, Cardinality(T) <= 0 PROVE T = {}
    <3>1. IsFiniteSet(T) /\ Cardinality(T) \in Nat
          BY FS_Subset, FS_CardinalityType
    <3>2. Cardinality(T) = 0
          BY <2>1, <3>1
    <3> QED BY <3>1, <3>2, FS_EmptySet
  <2> QED BY <2>1
<1>2. ASSUME NEW n \in Nat, n \in Reached PROVE n + 1 \in Reached
  <2> SUFFICES ASSUME NEW T \in SUBSET S, Cardinality(T) <= n + 1 PROVE T \in R
      OBVIOUS
  <2>1. CASE T # {}
    <3>1. PICK x \in T : T \ {x} \in R => T \in R
          BY <2>1
    <3>2. /\ T \ {x} \in SUBSET S /\ Cardinality(T \ {x}) = Cardinality(T) - 1
          /\ Cardinality(T) \in Nat
          BY <2>1, Smaller
    <3> DEFINE U == T \ {x}
    <3> HIDE DEF U
    <3>3. Cardinality(U) <= n /\ U \in SUBSET S
          BY <3>2 DEF U
    <3>4. U \in R
          BY <1>2, <3>3
    <3> QED BY <3>1, <3>4 DEF U
  <2> QED BY <2>1
<1>3. Nat \subseteq Reached
  <2> HIDE DEF Reached
  <2> QED BY <1>1, <1>2, Inductive
<1>4. Cardinality(S) \in Nat /\ \A T \in SUBSET S : Cardinality(T) <= Cardinality(S)
      BY FS_Subset, FS_CardinalityType
<1> QED BY <1>3, <1>4

-----------------------------------------------------------------------------
(* Sums over finite sets.                                                  *)

\* it sums f over every part of S, one element and then the others.
Sums(it, f, S) ==
    \A T \in SUBSET S : it[T] = IF T = {} THEN 0
                                ELSE f[CHOOSE x \in T : TRUE] + it[T \ {CHOOSE x \in T : TRUE}]

\* What a sum is folded from.
LEMMA SumFolds ==
  ASSUME NEW f, NEW S, IsFiniteSet(S), \A x \in S : f[x] \in Nat
  PROVE  \E it \in [SUBSET S -> Nat] : SumOver(f, S) = it[S] /\ Sums(it, f, S)
<1> DEFINE pick == [T \in SUBSET S |-> CHOOSE x \in T : TRUE]
           step == [p \in S \X Nat |-> f[p[1]] + p[2]]
<1>1. \A T \in SUBSET S : T # {} => pick[T] \in T
      OBVIOUS
<1>2. \A x \in S, n \in Nat : step[<<x, n>>] \in Nat
      OBVIOUS
<1>3. PICK g \in [SUBSET S -> Nat] : Folds(g, S, 0, pick, step)
  <2> HIDE DEF pick, step
  <2> QED BY <1>1, <1>2, FoldExists
<1>4. ASSUME NEW T \in SUBSET S
      PROVE  g[T] = IF T = {} THEN 0 ELSE f[CHOOSE x \in T : TRUE] + g[T \ {CHOOSE x \in T : TRUE}]
  <2>1. CASE T # {}
    <3>1. pick[T] \in S /\ g[T \ {pick[T]}] \in Nat
          BY <1>1, <2>1
    <3>2. g[T] = step[<<pick[T], g[T \ {pick[T]}]>>]
          BY <1>3, <2>1 DEF Folds
    <3> QED BY <2>1, <3>1, <3>2
  <2> QED BY <1>3, <2>1 DEF Folds
<1>5. g = [T \in SUBSET S |-> IF T = {} THEN 0 ELSE f[CHOOSE x \in T : TRUE] + g[T \ {CHOOSE x \in T : TRUE}]]
      BY <1>4
<1> DEFINE it == CHOOSE h : h = [T \in SUBSET S |-> IF T = {} THEN 0
                                    ELSE f[CHOOSE x \in T : TRUE] + h[T \ {CHOOSE x \in T : TRUE}]]
<1>6. it = [T \in SUBSET S |-> IF T = {} THEN 0
                               ELSE f[CHOOSE x \in T : TRUE] + it[T \ {CHOOSE x \in T : TRUE}]]
      BY <1>5
<1>7. SumOver(f, S) = it[S]
      BY DEF SumOver, MapThenSumSet, MapThenFoldSet
<1> HIDE DEF it
<1> DEFINE R == {T \in SUBSET S : it[T] = g[T]}
<1>8. {} \in R
      BY <1>4, <1>6
<1>9. ASSUME NEW T \in SUBSET S, T # {} PROVE \E x \in T : T \ {x} \in R => T \in R
  <2> DEFINE x == CHOOSE y \in T : TRUE
  <2>1. x \in T
        BY <1>9
  <2>2. it[T] = f[x] + it[T \ {x}] /\ g[T] = f[x] + g[T \ {x}]
        BY <1>4, <1>6, <1>9
  <2> HIDE DEF x
  <2> QED BY <2>1, <2>2
<1>10. S \in R
  <2> HIDE DEF R
  <2> QED BY <1>8, <1>9, FiniteInductive
<1>11. Sums(g, f, S)
      BY <1>4 DEF Sums
<1> QED BY <1>7, <1>10, <1>11

\* A sum takes one element first and then the others.
LEMMA SumUnfolds ==
  ASSUME NEW f, NEW S, IsFiniteSet(S), \A x \in S : f[x] \in Nat
  PROVE  \A T \in SUBSET S :
            /\ SumOver(f, T) \in Nat
            /\ SumOver(f, T) = IF T = {} THEN 0
                               ELSE f[CHOOSE x \in T : TRUE] + SumOver(f, T \ {CHOOSE x \in T : TRUE})
<1>1. PICK it \in [SUBSET S -> Nat] : Sums(it, f, S)
      BY SumFolds
<1>2. ASSUME NEW T \in SUBSET S PROVE SumOver(f, T) = it[T]
  <2>1. IsFiniteSet(T) /\ \A x \in T : f[x] \in Nat
        BY FS_Subset
  <2>2. PICK h \in [SUBSET T -> Nat] : SumOver(f, T) = h[T] /\ Sums(h, f, T)
        BY <2>1, SumFolds
  <2> DEFINE R == {U \in SUBSET T : h[U] = it[U]}
  <2>3. {} \in R
        BY <1>1, <2>2 DEF Sums
  <2>4. ASSUME NEW U \in SUBSET T, U # {} PROVE \E x \in U : U \ {x} \in R => U \in R
    <3> DEFINE x == CHOOSE y \in U : TRUE
    <3>1. x \in U
          BY <2>4
    <3>2. it[U] = f[x] + it[U \ {x}] /\ h[U] = f[x] + h[U \ {x}]
          BY <1>1, <2>2, <2>4 DEF Sums
    <3> HIDE DEF x
    <3> QED BY <3>1, <3>2
  <2>5. T \in R
    <3> HIDE DEF R
    <3> QED BY <2>1, <2>3, <2>4, FiniteInductive
  <2> QED BY <2>2, <2>5
<1>3. ASSUME NEW T \in SUBSET S, T # {} PROVE T \ {CHOOSE x \in T : TRUE} \in SUBSET S
      OBVIOUS
<1> QED BY <1>1, <1>2, <1>3 DEF Sums

\* Whichever element is taken first, the sum is the same.
LEMMA SumTakes ==
  ASSUME NEW f, NEW S, IsFiniteSet(S), \A x \in S : f[x] \in Nat, NEW x \in S
  PROVE  SumOver(f, S) \in Nat /\ SumOver(f, S \ {x}) \in Nat
         /\ SumOver(f, S) = f[x] + SumOver(f, S \ {x})
<1> DEFINE sum == [T \in SUBSET S |-> SumOver(f, T)]
<1>1. sum \in [SUBSET S -> Nat] /\ \A T \in SUBSET S : sum[T] = SumOver(f, T)
      BY SumUnfolds
<1>2. \A T \in SUBSET S : T # {} =>
          sum[T] = f[CHOOSE y \in T : TRUE] + sum[T \ {CHOOSE y \in T : TRUE}]
  <2> SUFFICES ASSUME NEW T \in SUBSET S, T # {}
               PROVE  sum[T] = f[CHOOSE y \in T : TRUE] + sum[T \ {CHOOSE y \in T : TRUE}]
      OBVIOUS
  <2>1. SumOver(f, T) = f[CHOOSE y \in T : TRUE] + SumOver(f, T \ {CHOOSE y \in T : TRUE})
        BY SumUnfolds
  <2>2. T \ {CHOOSE y \in T : TRUE} \in SUBSET S
        OBVIOUS
  <2> QED BY <1>1, <2>1, <2>2
<1> HIDE DEF sum
<1> DEFINE AnyFirst(T) == \A y \in T : sum[T] = f[y] + sum[T \ {y}]
           Reached == {n \in Nat : \A T \in SUBSET S : Cardinality(T) <= n => AnyFirst(T)}
<1>3. 0 \in Reached
  <2>1. \A T \in SUBSET S : \A y \in T : Cardinality(T) \in Nat /\ Cardinality(T) # 0
        BY Smaller
  <2> QED BY <2>1
<1>4. ASSUME NEW n \in Nat, n \in Reached PROVE n + 1 \in Reached
  <2> SUFFICES ASSUME NEW T \in SUBSET S, Cardinality(T) <= n + 1, NEW y \in T
               PROVE  sum[T] = f[y] + sum[T \ {y}]
      OBVIOUS
  <2> DEFINE c == CHOOSE z \in T : TRUE
             A == T \ {c}
             B == T \ {y}
  <2>1. c \in T /\ sum[T] = f[c] + sum[A]
        BY <1>2
  <2> HIDE DEF c
  <2>2. /\ Cardinality(T) \in Nat /\ A \in SUBSET S /\ Cardinality(A) = Cardinality(T) - 1
        /\ B \in SUBSET S /\ Cardinality(B) = Cardinality(T) - 1
        BY <2>1, Smaller
  <2>3. CASE y # c
    <3> HIDE DEF A, B
    <3>1. AnyFirst(A) /\ AnyFirst(B)
          BY <1>4, <2>2
    <3>2. sum[A] = f[y] + sum[A \ {y}] /\ sum[B] = f[c] + sum[B \ {c}]
          BY <2>1, <2>3, <3>1 DEF A, B
    <3>3. A \ {y} = B \ {c} /\ A \ {y} \in SUBSET S
          BY <2>2 DEF A, B
    <3>4. sum[A \ {y}] \in Nat /\ f[y] \in Nat /\ f[c] \in Nat
          BY <1>1, <2>1, <3>3
    <3>5. sum[T] = f[y] + sum[B]
          BY <2>1, <3>2, <3>3, <3>4
    <3> QED BY <3>5 DEF B
  <2> QED BY <2>1, <2>3
<1>5. Nat \subseteq Reached
  <2> HIDE DEF Reached
  <2> QED BY <1>3, <1>4, Inductive
<1>6. Cardinality(S) \in Nat /\ S \in SUBSET S /\ S \ {x} \in SUBSET S
      BY FS_CardinalityType
<1>7. sum[S] = f[x] + sum[S \ {x}]
      BY <1>5, <1>6
<1> QED BY <1>1, <1>6, <1>7

\* Nothing sums to nothing.
LEMMA SumOfNone == ASSUME NEW f PROVE SumOver(f, {}) = 0
<1>1. IsFiniteSet({}) /\ {} \in SUBSET {} /\ \A x \in {} : f[x] \in Nat
      BY FS_EmptySet
<1> QED BY ONLY <1>1, SumUnfolds

\* What counts the same sums to the same.
LEMMA SumSame ==
  ASSUME NEW f, NEW g, NEW S, IsFiniteSet(S), \A x \in S : f[x] \in Nat /\ g[x] = f[x]
  PROVE  SumOver(g, S) = SumOver(f, S)
<1> DEFINE R == {T \in SUBSET S : SumOver(g, T) = SumOver(f, T)}
<1>1. {} \in R
      BY SumOfNone
<1>2. ASSUME NEW T \in SUBSET S, T # {} PROVE \E x \in T : T \ {x} \in R => T \in R
  <2>1. PICK x \in T : TRUE
        BY <1>2
  <2>2. IsFiniteSet(T) /\ (\A y \in T : f[y] \in Nat) /\ (\A y \in T : g[y] \in Nat) /\ f[x] = g[x]
        BY FS_Subset
  <2>3. SumOver(f, T) = f[x] + SumOver(f, T \ {x})
        BY <2>2, SumTakes
  <2>4. SumOver(g, T) = g[x] + SumOver(g, T \ {x})
        BY <2>2, SumTakes
  <2> QED BY <2>2, <2>3, <2>4
<1>3. S \in R
  <2> HIDE DEF R
  <2> QED BY <1>1, <1>2, FiniteInductive
<1> QED BY <1>3

\* A part and the rest sum to the whole.
LEMMA SumSplits ==
  ASSUME NEW f, NEW S, IsFiniteSet(S), \A x \in S : f[x] \in Nat, NEW U \in SUBSET S
  PROVE  /\ SumOver(f, S) \in Nat /\ SumOver(f, U) \in Nat /\ SumOver(f, S \ U) \in Nat
         /\ SumOver(f, S) = SumOver(f, U) + SumOver(f, S \ U)
<1> DEFINE R == {T \in SUBSET U : SumOver(f, S \ U) + SumOver(f, T) = SumOver(f, (S \ U) \union T)}
<1>1. \A T \in SUBSET S : SumOver(f, T) \in Nat
      BY SumUnfolds
<1>2. {} \in R
  <2>1. SumOver(f, {}) = 0 /\ SumOver(f, S \ U) \in Nat /\ (S \ U) \union {} = S \ U
        BY <1>1, SumOfNone
  <2> QED BY <2>1
<1>3. ASSUME NEW T \in SUBSET U, T # {} PROVE \E x \in T : T \ {x} \in R => T \in R
  <2>1. PICK x \in T : TRUE
        BY <1>3
  <2> DEFINE W == (S \ U) \union T
  <2>2. IsFiniteSet(T) /\ IsFiniteSet(W) /\ T \in SUBSET S /\ W \in SUBSET S /\ x \in W
        BY <2>1, FS_Subset
  <2>3. W \ {x} = (S \ U) \union (T \ {x})
        BY <2>1
  <2>4. f[x] \in Nat /\ (\A y \in T : f[y] \in Nat) /\ (\A y \in W : f[y] \in Nat)
        BY <2>2
  <2>5. SumOver(f, T) = f[x] + SumOver(f, T \ {x}) /\ SumOver(f, T \ {x}) \in Nat
        BY <2>2, <2>4, SumTakes
  <2> HIDE DEF W
  <2>6. SumOver(f, W) = f[x] + SumOver(f, W \ {x}) /\ SumOver(f, W \ {x}) \in Nat
        BY <2>2, <2>4, SumTakes
  <2>7. SumOver(f, S \ U) \in Nat
        BY <1>1
  <2> SUFFICES ASSUME T \ {x} \in R PROVE T \in R
      BY <2>1
  <2>8. SumOver(f, S \ U) + SumOver(f, T \ {x}) = SumOver(f, W \ {x})
        BY <2>3
  <2>9. SumOver(f, S \ U) + SumOver(f, T) = SumOver(f, W)
        BY <2>4, <2>5, <2>6, <2>7, <2>8
  <2> QED BY <2>9 DEF W
<1>4. U \in R
  <2>1. IsFiniteSet(U)
        BY FS_Subset
  <2> HIDE DEF R
  <2> QED BY <1>2, <1>3, <2>1, FiniteInductive
<1>5. (S \ U) \union U = S /\ U \in SUBSET S /\ S \ U \in SUBSET S /\ S \in SUBSET S
      OBVIOUS
<1>6. SumOver(f, S \ U) + SumOver(f, U) = SumOver(f, S)
      BY <1>4, <1>5
<1> QED BY <1>1, <1>5, <1>6

\* What one element more, less or other makes of a sum.
LEMMA SumMoves ==
  ASSUME NEW D, IsFiniteSet(D), NEW f \in [D -> Nat], NEW g \in [D -> Nat], NEW x \in D,
         NEW S \in SUBSET D, NEW T \in SUBSET D, S \ {x} = T \ {x}, \A y \in S \ {x} : f[y] = g[y]
  PROVE  /\ SumOver(f, S) \in Nat /\ SumOver(g, T) \in Nat
         /\ SumOver(f, S) + (IF x \in T THEN g[x] ELSE 0) = SumOver(g, T) + (IF x \in S THEN f[x] ELSE 0)
<1> DEFINE U == S \ {x}
<1>1. /\ IsFiniteSet(S) /\ IsFiniteSet(T) /\ IsFiniteSet(U)
      /\ (\A y \in S : f[y] \in Nat) /\ (\A y \in T : g[y] \in Nat)
      /\ \A y \in U : f[y] \in Nat /\ g[y] = f[y]
      BY FS_Subset
<1>2. SumOver(g, U) = SumOver(f, U)
      BY <1>1, SumSame
<1>3. SumOver(f, S) = SumOver(f, U) + (IF x \in S THEN f[x] ELSE 0) /\ SumOver(f, U) \in Nat
  <2>1. CASE x \in S
    <3>1. SumOver(f, S) = f[x] + SumOver(f, S \ {x}) /\ SumOver(f, S \ {x}) \in Nat /\ f[x] \in Nat
          BY <1>1, <2>1, SumTakes
    <3> QED BY <2>1, <3>1
  <2>2. CASE x \notin S
    <3>1. U = S
          BY <2>2
    <3>2. SumOver(f, S) \in Nat
          BY <1>1, SumUnfolds
    <3> QED BY <2>2, <3>1, <3>2
  <2> QED BY <2>1, <2>2
<1>4. SumOver(g, T) = SumOver(g, U) + (IF x \in T THEN g[x] ELSE 0)
  <2>1. CASE x \in T
    <3>1. SumOver(g, T) = g[x] + SumOver(g, T \ {x}) /\ SumOver(g, T \ {x}) \in Nat /\ g[x] \in Nat
      <4>1. IsFiniteSet(T) /\ \A y \in T : g[y] \in Nat
            BY <1>1
      <4> QED BY ONLY <2>1, <4>1, SumTakes, ZenonT(40)
    <3>2. T \ {x} = U
          OBVIOUS
    <3> HIDE DEF U
    <3> QED BY <2>1, <3>1, <3>2
  <2>2. CASE x \notin T
    <3>1. U = T
          BY <2>2
    <3>2. SumOver(g, T) \in Nat
          BY <1>1, SumUnfolds
    <3> QED BY <2>2, <3>1, <3>2
  <2> QED BY <2>1, <2>2
<1>5. f[x] \in Nat /\ g[x] \in Nat
      OBVIOUS
<1> QED BY <1>2, <1>3, <1>4, <1>5

\* The same, in a set whose every element counts.
LEMMA SumParts ==
  ASSUME NEW D, IsFiniteSet(D), NEW f \in [D -> Nat], NEW S \in SUBSET D, NEW T \in SUBSET S
  PROVE  /\ SumOver(f, S) \in Nat /\ SumOver(f, T) \in Nat /\ SumOver(f, S \ T) \in Nat
         /\ SumOver(f, S) = SumOver(f, T) + SumOver(f, S \ T)
<1>1. IsFiniteSet(S) /\ \A y \in S : f[y] \in Nat
      BY FS_Subset
<1> QED BY <1>1, SumSplits

\* A part of what is summed, of what counts no more.
LEMMA SumLess ==
  ASSUME NEW D, IsFiniteSet(D), NEW f \in [D -> Nat], NEW S \in SUBSET D, NEW T \in SUBSET S
  PROVE  SumOver(f, S) \in Nat /\ SumOver(f, T) \in Nat /\ SumOver(f, T) <= SumOver(f, S)
<1>1. /\ SumOver(f, S) \in Nat /\ SumOver(f, T) \in Nat /\ SumOver(f, S \ T) \in Nat
      /\ SumOver(f, S) = SumOver(f, T) + SumOver(f, S \ T)
      BY SumParts
<1> QED BY <1>1

-----------------------------------------------------------------------------
(* The invariant.                                                          *)

Kinds == {"input", "refused", "init", "frame", "fail", "finalize", "delete"}
Begun == {"input", "refused", "init", "frame"}
Gone == {"deleting", "deleted", "evicted"}

\* An operation names the utterance or the reply it is about.
Operations == {o \in [op : Kinds, of : Assets] :
                  o.of[2] = IF o.op \in {"input", "refused", "delete"} THEN "input" ELSE "output"}
Rows == [row : {"none", "pending", "ready", "missing", "truncated"},
         file : {"none", "temp", "kept"}, bytes : Nat]
Recorders == [state : {"pending", "truncated"}, accepted : Nat, finalized : BOOLEAN]

RetentionTypes ==
    /\ conv \in [Conversations -> {"none", "active", "ended", "deleting", "deleted", "evicted"}]
    /\ order \in Seq(Conversations) /\ media \in [Assets -> Rows]
    /\ up \in {"up", "closing", "down"}
    /\ ops \in Seq(Operations) /\ cands \subseteq Conversations
    /\ victim \in Conversations \union {Nobody}
    /\ at \in {"next", "room", "write", "rename", "commit", "evict", "evicted", "unlink", "unlinked"}
    /\ recorder \in [Conversations -> Recorders]
    /\ charged \in [ready : Nat, reserved : Nat]
    /\ jobs \subseteq Conversations /\ mishaps \in Nat

\* q may wait behind p: nothing is begun behind a deletion, a recording ends once,
\* an utterance comes once.
Behind(p, q) ==
    /\ p.op = "finalize" /\ q.of = p.of => q.op = "fail"
    /\ p.op = "delete" /\ q.of[1] = p.of[1] => q.op \notin Begun
    /\ p.op \in {"input", "refused"} /\ q.op \in {"input", "refused"} => q.of # p.of
InOrder(q) == \A i, j \in DOMAIN q : i < j => Behind(q[i], q[j])

\* What an operation that waits says of its conversation.
Stands(o, c, m, r) ==
    /\ o.op = "finalize" => r[o.of[1]].finalized
    /\ o.op = "fail" => r[o.of[1]].state = "truncated"
    /\ o.op # "delete" => m[o.of].row # "ready" /\ c[o.of[1]] # "none"
    /\ o.op \in Begun => c[o.of[1]] # "deleted"
    /\ o.op = "delete" => c[o.of[1]] \in Gone
OpsPart == InOrder(ops) /\ \A o \in ToSet(ops) : Stands(o, conv, media, recorder)

\* How far the first has come.
StepPart ==
    /\ at # "next" => ops # <<>>
    /\ at \in {"room", "write", "evict", "evicted"} => head.op \in {"input", "init", "frame"}
    /\ at \in {"rename", "commit"} => \/ head.op = "input"
                                      \/ head.op = "finalize" /\ recorder[head.of[1]].state = "pending"
    /\ at \in {"unlink", "unlinked"} => head.op = "delete" /\ victim = head.of[1]
    /\ at \in {"evict", "evicted", "unlink", "unlinked"} => victim \in Conversations /\ conv[victim] \in Gone
    /\ at \in {"evicted", "unlinked"} => \A a \in Of(victim) : media[a].row = "none"

StoredPart == \A a \in Assets :
    /\ media[a].row = "ready" => media[a].file = "kept" \/ conv[a[1]] \in Gone
    /\ conv[a[1]] \in {"none", "deleted"} => media[a].row = "none"
    /\ up # "down" /\ media[a].file = "kept" => media[a].row = "ready" \/ (at = "commit" /\ head.of = a)

RecorderPart == \A s \in Conversations :
    /\ up # "down" /\ conv[s] = "none" => recorder[s] = NoRecorder
    /\ ~recorder[s].finalized => media[<<s, "output">>].row # "ready"

DownPart == up = "down" =>
    /\ ops = <<>> /\ at = "next" /\ victim = Nobody /\ cands = {}
    /\ charged = [ready |-> 0, reserved |-> 0]
    /\ \A s \in Conversations : recorder[s] = [NoRecorder EXCEPT !.finalized = TRUE]

\* The utterances that wait, the recordings that are not over, what they accepted.
Waiting == {s \in Conversations : Op("input", <<s, "input">>) \in ToSet(ops)}
Open == {s \in Conversations : ~recorder[s].finalized
                               \/ Op("finalize", <<s, "output">>) \in ToSet(ops)}
Accepted == [s \in Conversations |-> recorder[s].accepted]

\* What has been found room for and is not ready: the recordings with no frame that
\* waits for room, and the utterance that is being written.
Roomless == IF at = "write" THEN Tail(ops) ELSE ops
Granted == {s \in Open : /\ recorder[s].state = "pending"
                         /\ Op("frame", <<s, "output">>) \notin ToSet(Roomless)}
Passed == IF at \in {"write", "rename", "commit"} /\ head.op = "input" THEN 1 ELSE 0

BytesPart ==
    /\ ReadyBytes(Assets) <= MaxBytes
    /\ up # "down" => /\ charged.ready = ReadyBytes(Assets)
                      /\ charged.reserved = Cardinality(Waiting) + SumOver(Accepted, Open)
                      /\ charged.ready + SumOver(Accepted, Granted) + Passed <= MaxBytes

RetentionInv == RetentionTypes /\ StepPart /\ OpsPart /\ StoredPart /\ RecorderPart
                /\ DownPart /\ BytesPart
RetentionSpec == RetentionInit /\ [][RetentionNext]_retentionVars

-----------------------------------------------------------------------------
(* The queue.                                                              *)

\* A sequence behind another.
LEMMA JoinIs ==
  ASSUME NEW S, NEW a \in Seq(S), NEW b \in Seq(S)
  PROVE  /\ a \o b \in Seq(S) /\ Len(a \o b) = Len(a) + Len(b)
         /\ \A i \in 1..Len(a) : (a \o b)[i] = a[i]
         /\ \A i \in 1..Len(b) : (a \o b)[Len(a) + i] = b[i]
  OBVIOUS

\* What is appended stands behind what waits.
LEMMA JoinOrder ==
  ASSUME NEW a \in Seq(Operations), NEW b \in Seq(Operations), InOrder(a), InOrder(b),
         \A x \in ToSet(a), y \in ToSet(b) : Behind(x, y)
  PROVE  /\ a \o b \in Seq(Operations) /\ InOrder(a \o b)
         /\ ToSet(a \o b) = ToSet(a) \union ToSet(b)
         /\ a # <<>> => a \o b # <<>> /\ Head(a \o b) = Head(a)
<1> DEFINE c == a \o b
           n == Len(a)
<1>1. /\ c \in Seq(Operations) /\ Len(c) = n + Len(b)
      /\ \A i \in 1..n : c[i] = a[i]
      /\ \A i \in 1..Len(b) : c[n + i] = b[i]
      BY JoinIs
<1>2. /\ DOMAIN a = 1..n /\ DOMAIN b = 1..Len(b) /\ DOMAIN c = 1..(n + Len(b))
      /\ n \in Nat /\ Len(b) \in Nat
      BY <1>1
<1> HIDE DEF c, n
<1>3. \A k \in DOMAIN c : \/ k \in DOMAIN a /\ c[k] = a[k]
                          \/ k > n /\ k - n \in DOMAIN b /\ c[k] = b[k - n]
  <2> SUFFICES ASSUME NEW k \in DOMAIN c, k \notin 1..n
               PROVE  k > n /\ k - n \in DOMAIN b /\ c[k] = b[k - n]
      BY <1>1, <1>2
  <2>1. k - n \in 1..Len(b) /\ n + (k - n) = k /\ k > n
        BY <1>2
  <2> QED BY <1>1, <1>2, <2>1
<1>4. InOrder(c)
  <2> SUFFICES ASSUME NEW i \in DOMAIN c, NEW j \in DOMAIN c, i < j PROVE Behind(c[i], c[j])
      BY DEF InOrder
  <2>1. CASE i \in DOMAIN a /\ c[i] = a[i] /\ j \in DOMAIN a /\ c[j] = a[j]
        BY <2>1 DEF InOrder
  <2>2. CASE i \in DOMAIN a /\ c[i] = a[i] /\ j - n \in DOMAIN b /\ c[j] = b[j - n]
        BY <2>2 DEF ToSet
  <2>3. CASE i - n \in DOMAIN b /\ c[i] = b[i - n] /\ j - n \in DOMAIN b /\ c[j] = b[j - n]
    <3>1. i - n < j - n
          BY <1>2
    <3> QED BY <2>3, <3>1 DEF InOrder
  <2>4. i > n => j > n /\ j \notin DOMAIN a
        BY <1>2
  <2> QED BY <1>3, <2>1, <2>2, <2>3, <2>4
<1>5. \A i \in DOMAIN a : i \in DOMAIN c /\ c[i] = a[i]
      BY <1>1, <1>2
<1>6. \A i \in DOMAIN b : n + i \in DOMAIN c /\ c[n + i] = b[i]
      BY <1>1, <1>2
<1>7. ToSet(c) = ToSet(a) \union ToSet(b)
  <2>1. ToSet(c) \subseteq ToSet(a) \union ToSet(b)
        BY <1>3 DEF ToSet
  <2>2. ToSet(a) \subseteq ToSet(c)
        BY <1>5 DEF ToSet
  <2>3. ToSet(b) \subseteq ToSet(c)
        BY <1>6 DEF ToSet
  <2> QED BY <2>1, <2>2, <2>3
<1>8. a # <<>> => c # <<>> /\ Head(c) = Head(a)
  <2> SUFFICES ASSUME a # <<>> PROVE c # <<>> /\ Head(c) = Head(a)
      OBVIOUS
  <2>1. 1 \in 1..n
        BY DEF n
  <2>2. Len(c) # 0 /\ c[1] = a[1]
        BY <1>1, <1>2, <2>1
  <2>3. c # <<>>
        BY <2>2
  <2> QED BY <1>1, <2>2, <2>3
<1> QED BY <1>1, <1>4, <1>7, <1>8 DEF c

\* What is left behind the first.
LEMMA TailOrder ==
  ASSUME NEW q \in Seq(Operations), q # <<>>, InOrder(q)
  PROVE  /\ Tail(q) \in Seq(Operations) /\ InOrder(Tail(q))
         /\ Head(q) \in Operations /\ Head(q) \in ToSet(q)
         /\ ToSet(q) = ToSet(Tail(q)) \union {Head(q)}
         /\ \A y \in ToSet(Tail(q)) : y \in Operations /\ Behind(Head(q), y)
<1> DEFINE t == Tail(q)
           n == Len(q)
<1>1. n \in Nat /\ n # 0 /\ DOMAIN q = 1..n /\ \A i \in 1..n : q[i] \in Operations
      OBVIOUS
<1>2. /\ t \in Seq(Operations) /\ DOMAIN t = 1..(n - 1) /\ Head(q) = q[1]
      /\ \A i \in 1..(n - 1) : t[i] = q[i + 1]
      BY <1>1
<1> HIDE DEF t, n
<1>3. \A i \in DOMAIN t : i + 1 \in DOMAIN q /\ 1 < i + 1 /\ t[i] = q[i + 1]
      BY <1>1, <1>2
<1>4. \A k \in DOMAIN q : k = 1 \/ (k - 1 \in DOMAIN t /\ q[k] = t[k - 1])
  <2> SUFFICES ASSUME NEW k \in DOMAIN q, k # 1 PROVE k - 1 \in DOMAIN t /\ q[k] = t[k - 1]
      OBVIOUS
  <2>1. k - 1 \in 1..(n - 1) /\ (k - 1) + 1 = k
        BY <1>1
  <2> QED BY <1>2, <2>1
<1>5. 1 \in DOMAIN q
      BY <1>1
<1>6. InOrder(t)
  <2> SUFFICES ASSUME NEW i \in DOMAIN t, NEW j \in DOMAIN t, i < j PROVE Behind(t[i], t[j])
      BY DEF InOrder
  <2>1. i + 1 < j + 1
        BY <1>1, <1>2
  <2> QED BY <1>3, <2>1 DEF InOrder
<1>7. ToSet(q) = ToSet(t) \union {q[1]}
  <2>1. ToSet(q) \subseteq ToSet(t) \union {q[1]}
        BY <1>4 DEF ToSet
  <2>2. ToSet(t) \subseteq ToSet(q)
        BY <1>3 DEF ToSet
  <2> QED BY <1>5, <2>1, <2>2 DEF ToSet
<1>8. ASSUME NEW y \in ToSet(t) PROVE y \in Operations /\ Behind(q[1], y)
  <2>1. PICK i \in DOMAIN t : y = t[i]
        BY DEF ToSet
  <2> QED BY <1>1, <1>3, <1>5, <2>1 DEF InOrder
<1> QED BY <1>1, <1>2, <1>5, <1>6, <1>7, <1>8 DEF t

\* What an operation is.
LEMMA OpIs ==
  ASSUME NEW k \in Kinds, NEW s \in Conversations, NEW d \in {"input", "output"},
         d = IF k \in {"input", "refused", "delete"} THEN "input" ELSE "output"
  PROVE  /\ <<s, d>> \in Assets /\ Op(k, <<s, d>>) \in Operations
         /\ Op(k, <<s, d>>).op = k /\ Op(k, <<s, d>>).of = <<s, d>> /\ <<s, d>>[1] = s /\ <<s, d>>[2] = d
  BY DEF Op, Operations, Assets

\* Every operation is of that form.
LEMMA OpOf ==
  ASSUME NEW o \in Operations
  PROVE  /\ o.op \in Kinds /\ o.of \in Assets /\ o.of[1] \in Conversations
         /\ o.of = <<o.of[1], IF o.op \in {"input", "refused", "delete"} THEN "input" ELSE "output">>
         /\ o = Op(o.op, o.of)
  BY DEF Op, Operations, Assets

\* One operation, or none.
LEMMA OneIs ==
  ASSUME NEW o \in Operations
  PROVE  /\ <<o>> \in Seq(Operations) /\ InOrder(<<o>>) /\ ToSet(<<o>>) = {o}
         /\ <<>> \in Seq(Operations) /\ InOrder(<<>>) /\ ToSet(<<>>) = {}
<1>1. <<o>> \in Seq(Operations) /\ DOMAIN <<o>> = 1..1 /\ <<o>>[1] = o
      OBVIOUS
<1>2. <<>> \in Seq(Operations) /\ DOMAIN <<>> = {}
      OBVIOUS
<1>3. \A i \in 1..1 : i = 1
      OBVIOUS
<1>4. 1 \in 1..1
      OBVIOUS
<1> QED BY <1>1, <1>2, <1>3, <1>4 DEF InOrder, ToSet

-----------------------------------------------------------------------------
(* What is counted.                                                        *)

\* Conversations and assets are finitely many.
LEMMA Finitely ==
  /\ IsFiniteSet(Conversations) /\ IsFiniteSet(Assets) /\ Nobody \notin Conversations
  /\ \A s \in Conversations : Of(s) \subseteq Assets
<1>1. IsFiniteSet(Conversations) /\ Nobody \notin Conversations
      BY FS_Interval, RetentionAssumption DEF Conversations, Nobody
<1>2. {"input", "output"} = {"input"} \union {"output"} /\ IsFiniteSet({"input"}) /\ IsFiniteSet({"output"})
      BY FS_Singleton
<1>3. IsFiniteSet({"input", "output"})
      BY <1>2, FS_Union
<1>4. IsFiniteSet(Assets)
      BY <1>1, <1>3, FS_Product DEF Assets
<1> QED BY <1>1, <1>4 DEF Of

\* The counts are naturals.
LEMMA Counts ==
  ASSUME RetentionTypes
  PROVE  /\ Waiting \subseteq Conversations /\ Open \subseteq Conversations /\ Granted \subseteq Open
         /\ IsFiniteSet(Waiting) /\ Cardinality(Waiting) \in Nat
         /\ Accepted \in [Conversations -> Nat]
         /\ SumOver(Accepted, Open) \in Nat /\ SumOver(Accepted, Granted) \in Nat
         /\ SumOver(Accepted, Granted) <= SumOver(Accepted, Open)
         /\ Passed \in {0, 1}
         /\ \A S \in SUBSET Assets : ReadyBytes(S) \in Nat
<1>1. Waiting \subseteq Conversations /\ Open \subseteq Conversations /\ Granted \subseteq Open
      BY DEF Waiting, Open, Granted
<1>2. IsFiniteSet(Waiting) /\ Cardinality(Waiting) \in Nat
      BY <1>1, Finitely, FS_Subset, FS_CardinalityType
<1>3. Accepted \in [Conversations -> Nat]
      BY DEF Accepted, RetentionTypes, Recorders
<1>4. /\ SumOver(Accepted, Open) \in Nat /\ SumOver(Accepted, Granted) \in Nat
      /\ SumOver(Accepted, Granted) <= SumOver(Accepted, Open)
  <2> HIDE DEF Accepted, Open, Granted
  <2> QED BY <1>1, <1>3, Finitely, SumLess
<1>5. ASSUME NEW S \in SUBSET Assets PROVE ReadyBytes(S) \in Nat
  <2> DEFINE f == [a \in Assets |-> media[a].bytes]
             U == {a \in S : media[a].row = "ready"}
  <2>1. f \in [Assets -> Nat] /\ U \in SUBSET Assets
        BY DEF RetentionTypes, Rows
  <2> HIDE DEF f, U
  <2>2. SumOver(f, U) \in Nat
        BY <2>1, Finitely, SumLess
  <2> QED BY <2>2 DEF ReadyBytes, f, U
<1> QED BY <1>1, <1>2, <1>3, <1>4, <1>5 DEF Passed

\* What one asset more, less or other makes of the bytes that are ready.
LEMMA ReadyMoves ==
  ASSUME RetentionTypes, RetentionTypes', NEW a \in Assets,
         \A b \in Assets \ {a} : media'[b] = media[b]
  PROVE  ReadyBytes(Assets) + (IF media'[a].row = "ready" THEN media'[a].bytes ELSE 0)
            = ReadyBytes(Assets)' + (IF media[a].row = "ready" THEN media[a].bytes ELSE 0)
<1> DEFINE f == [b \in Assets |-> media[b].bytes]
           g == [b \in Assets |-> media'[b].bytes]
           S == {b \in Assets : media[b].row = "ready"}
           T == {b \in Assets : media'[b].row = "ready"}
<1>1. f \in [Assets -> Nat] /\ g \in [Assets -> Nat]
      BY DEF RetentionTypes, Rows
<1>2. S \in SUBSET Assets /\ T \in SUBSET Assets /\ S \ {a} = T \ {a} /\ \A y \in S \ {a} : f[y] = g[y]
      OBVIOUS
<1>3. /\ f[a] = media[a].bytes /\ g[a] = media'[a].bytes
      /\ a \in S <=> media[a].row = "ready"
      /\ a \in T <=> media'[a].row = "ready"
      /\ ReadyBytes(Assets) = SumOver(f, S) /\ ReadyBytes(Assets)' = SumOver(g, T)
      BY DEF ReadyBytes
<1> HIDE DEF f, g, S, T
<1>4. SumOver(f, S) + (IF a \in T THEN g[a] ELSE 0) = SumOver(g, T) + (IF a \in S THEN f[a] ELSE 0)
      BY <1>1, <1>2, Finitely, SumMoves
<1> QED BY <1>3, <1>4

\* Bytes that are ready stay so when no row becomes or stops being ready.
LEMMA ReadyStays ==
  ASSUME RetentionTypes, RetentionTypes',
         \A a \in Assets : /\ media'[a].row = "ready" <=> media[a].row = "ready"
                           /\ media[a].row = "ready" => media'[a].bytes = media[a].bytes
  PROVE  ReadyBytes(Assets)' = ReadyBytes(Assets)
<1> DEFINE f == [b \in Assets |-> media[b].bytes]
           g == [b \in Assets |-> media'[b].bytes]
           S == {b \in Assets : media[b].row = "ready"}
           T == {b \in Assets : media'[b].row = "ready"}
<1>1. T = S /\ S \in SUBSET Assets /\ \A x \in S : f[x] \in Nat /\ g[x] = f[x]
      BY DEF RetentionTypes, Rows
<1>2. IsFiniteSet(S)
      BY Finitely, FS_Subset
<1>3. ReadyBytes(Assets) = SumOver(f, S) /\ ReadyBytes(Assets)' = SumOver(g, T)
      BY DEF ReadyBytes
<1> HIDE DEF f, g, S, T
<1> QED BY <1>1, <1>2, <1>3, SumSame

\* A step that reserves nothing, gives nothing back and grants no more.
LEMMA BytesStay ==
  ASSUME RetentionTypes, RetentionTypes', BytesPart, UNCHANGED <<up, charged>>,
         ReadyBytes(Assets)' = ReadyBytes(Assets), Waiting' = Waiting, Open' = Open,
         Accepted' = Accepted, Granted' \subseteq Granted, Passed' <= Passed
  PROVE  BytesPart'
<1>1. SumOver(Accepted, Open)' = SumOver(Accepted, Open)
      OBVIOUS
<1>2. SumOver(Accepted, Granted)' = SumOver(Accepted, Granted')
      OBVIOUS
<1>3. /\ Accepted \in [Conversations -> Nat] /\ Granted \subseteq Conversations
      /\ SumOver(Accepted, Granted) \in Nat /\ Passed \in {0, 1}
      BY Counts
<1>4. Passed' \in {0, 1}
      BY Counts DEF Passed
<1>5. SumOver(Accepted, Granted') \in Nat /\ SumOver(Accepted, Granted') <= SumOver(Accepted, Granted)
  <2> DEFINE A == Accepted  G == Granted  H == Granted'
  <2>1. A \in [Conversations -> Nat] /\ G \in SUBSET Conversations /\ H \in SUBSET G
        BY <1>3
  <2> HIDE DEF A, G, H
  <2>2. SumOver(A, H) \in Nat /\ SumOver(A, H) <= SumOver(A, G)
        BY <2>1, Finitely, SumLess
  <2> QED BY <2>2 DEF A, G, H
<1>6. Cardinality(Waiting)' = Cardinality(Waiting)
      OBVIOUS
<1>7. charged.ready \in Nat /\ charged.reserved \in Nat /\ MaxBytes \in Nat
      BY RetentionAssumption DEF RetentionTypes
<1> QED BY <1>1, <1>2, <1>3, <1>4, <1>5, <1>6, <1>7 DEF BytesPart

-----------------------------------------------------------------------------
(* An operation leaves the queue.                                          *)

\* What may be appended then: that the recording failed.
Failures == {<<>>} \union {<<Op("fail", <<s, "output">>)>> : s \in Conversations}

\* The queue without its first operation.
LEMMA LeavesIs ==
  ASSUME RetentionTypes, OpsPart, ops # <<>>, NEW more \in Failures, ops' = Tail(ops) \o more
  PROVE  /\ ops' \in Seq(Operations) /\ InOrder(ops') /\ InOrder(ops)
         /\ ToSet(ops') = ToSet(Tail(ops)) \union ToSet(more)
         /\ \A y \in ToSet(more) : y \in Operations /\ y.op = "fail" /\ more = <<y>>
         /\ head \in Operations /\ ToSet(ops) = ToSet(Tail(ops)) \union {head}
         /\ \A y \in ToSet(Tail(ops)) : y \in Operations /\ Behind(head, y)
<1>1. /\ Tail(ops) \in Seq(Operations) /\ InOrder(Tail(ops))
      /\ head \in Operations /\ ToSet(ops) = ToSet(Tail(ops)) \union {head}
      /\ \A y \in ToSet(Tail(ops)) : y \in Operations /\ Behind(head, y)
      BY TailOrder DEF RetentionTypes, OpsPart, head
<1>2. /\ more \in Seq(Operations) /\ InOrder(more)
      /\ \A y \in ToSet(more) : y \in Operations /\ y.op = "fail" /\ more = <<y>>
  <2>1. CASE more = <<>>
    <3>1. <<>> \in Seq(Operations) /\ DOMAIN <<>> = {}
          OBVIOUS
    <3> QED BY <2>1, <3>1 DEF InOrder, ToSet
  <2>2. ASSUME NEW s \in Conversations, more = <<Op("fail", <<s, "output">>)>>
        PROVE  /\ more \in Seq(Operations) /\ InOrder(more)
               /\ \A y \in ToSet(more) : y \in Operations /\ y.op = "fail" /\ more = <<y>>
    <3>1. "fail" \in Kinds /\ "fail" \notin {"input", "refused", "delete"}
          BY DEF Kinds
    <3>2. Op("fail", <<s, "output">>) \in Operations /\ Op("fail", <<s, "output">>).op = "fail"
          BY <3>1, OpIs
    <3> QED BY <2>2, <3>2, OneIs
  <2> QED BY <2>1, <2>2 DEF Failures
<1>3. \A x \in ToSet(Tail(ops)), y \in ToSet(more) : Behind(x, y)
      BY <1>2 DEF Behind, Begun
<1>4. ops' \in Seq(Operations) /\ InOrder(ops') /\ ToSet(ops') = ToSet(Tail(ops)) \union ToSet(more)
  <2> DEFINE t == Tail(ops)
  <2> HIDE DEF t
  <2>1. t \in Seq(Operations) /\ InOrder(t) /\ \A x \in ToSet(t), y \in ToSet(more) : Behind(x, y)
        BY <1>1, <1>3 DEF t
  <2>2. t \o more \in Seq(Operations) /\ InOrder(t \o more) /\ ToSet(t \o more) = ToSet(t) \union ToSet(more)
        BY <1>2, <2>1, JoinOrder
  <2> QED BY <2>2 DEF t
<1> QED BY <1>1, <1>2, <1>4 DEF OpsPart

\* Nobody else waits as what leaves: an utterance comes once, a recording ends once.
LEMMA LeavesWho ==
  ASSUME RetentionTypes, OpsPart, ops # <<>>, NEW more \in Failures, ops' = Tail(ops) \o more,
         NEW s, s = head.of[1],
         recorder' \in [Conversations -> Recorders],
         \A t \in Conversations : recorder'[t].finalized = recorder[t].finalized
  PROVE  /\ s \in Conversations
         /\ Waiting' = IF head.op = "input" THEN Waiting \ {s} ELSE Waiting
         /\ head.op = "input" => s \in Waiting
         /\ Open' = IF head.op = "finalize" THEN Open \ {s} ELSE Open
         /\ head.op = "finalize" => s \in Open
<1>1. /\ ToSet(ops') = ToSet(Tail(ops)) \union ToSet(more)
      /\ \A y \in ToSet(more) : y.op = "fail"
      /\ head \in Operations /\ ToSet(ops) = ToSet(Tail(ops)) \union {head}
      /\ \A y \in ToSet(Tail(ops)) : y \in Operations /\ Behind(head, y)
      BY LeavesIs
<1>2. /\ s \in Conversations /\ head.op \in Kinds
      /\ head = Op(head.op, <<s, IF head.op \in {"input", "refused", "delete"} THEN "input" ELSE "output">>)
      BY <1>1, OpOf
<1> DEFINE i(t) == Op("input", <<t, "input">>)
           f(t) == Op("finalize", <<t, "output">>)
<1>3. \A t : i(t).op = "input" /\ i(t).of = <<t, "input">> /\ f(t).op = "finalize" /\ f(t).of = <<t, "output">>
      BY DEF Op
<1>4. \A t : /\ i(t) \in ToSet(ops) <=> i(t) \in ToSet(Tail(ops)) \/ i(t) = head
             /\ f(t) \in ToSet(ops) <=> f(t) \in ToSet(Tail(ops)) \/ f(t) = head
             /\ i(t) \in ToSet(ops') <=> i(t) \in ToSet(Tail(ops))
             /\ f(t) \in ToSet(ops') <=> f(t) \in ToSet(Tail(ops))
  <2> HIDE DEF i, f
  <2> QED BY <1>1, <1>3
<1>5. \A t : /\ i(t) = head <=> head.op = "input" /\ t = s
             /\ f(t) = head <=> head.op = "finalize" /\ t = s
  <2> TAKE t
  <2>1. i(t) = head => head.op = "input" /\ t = s
        BY <1>3, <1>2
  <2>2. f(t) = head => head.op = "finalize" /\ t = s
        BY <1>3, <1>2
  <2> QED BY <1>2, <2>1, <2>2
<1>6. head.op = "input" => i(s) \notin ToSet(Tail(ops))
  <2> SUFFICES ASSUME head.op = "input", i(s) \in ToSet(Tail(ops)) PROVE FALSE
      OBVIOUS
  <2>1. Behind(head, i(s)) /\ head.of = i(s).of
        BY <1>1, <1>5
  <2> QED BY <1>3, <2>1 DEF Behind
<1>7. head.op = "finalize" => f(s) \notin ToSet(Tail(ops))
  <2> SUFFICES ASSUME head.op = "finalize", f(s) \in ToSet(Tail(ops)) PROVE FALSE
      OBVIOUS
  <2>1. Behind(head, f(s)) /\ head.of = f(s).of
        BY <1>1, <1>5
  <2> QED BY <1>3, <2>1 DEF Behind
<1>8. head.op = "finalize" => recorder[s].finalized
      BY <1>1 DEF OpsPart, Stands
<1>9. /\ Waiting = {t \in Conversations : i(t) \in ToSet(ops)}
      /\ Waiting' = {t \in Conversations : i(t) \in ToSet(ops')}
      /\ Open = {t \in Conversations : ~recorder[t].finalized \/ f(t) \in ToSet(ops)}
      /\ Open' = {t \in Conversations : ~recorder'[t].finalized \/ f(t) \in ToSet(ops')}
      BY DEF Waiting, Open
<1> HIDE DEF i, f
<1>10. \A t : /\ i(t) \in ToSet(ops') <=> i(t) \in ToSet(ops) /\ ~(head.op = "input" /\ t = s)
              /\ f(t) \in ToSet(ops') <=> f(t) \in ToSet(ops) /\ ~(head.op = "finalize" /\ t = s)
      BY <1>4, <1>5, <1>6, <1>7
<1>11. Waiting' = IF head.op = "input" THEN Waiting \ {s} ELSE Waiting
      BY <1>9, <1>10
<1>12. Open' = IF head.op = "finalize" THEN Open \ {s} ELSE Open
      BY <1>8, <1>9, <1>10
<1>13. (head.op = "input" => s \in Waiting) /\ (head.op = "finalize" => s \in Open)
      BY <1>2, <1>4, <1>5, <1>9
<1> QED BY <1>2, <1>11, <1>12, <1>13

\* What an operation gives back was reserved for it.
LEMMA WeightIs ==
  ASSUME RetentionTypes, OpsPart, BytesPart, up # "down", ops # <<>>
  PROVE  /\ Weight(head) \in Nat /\ Weight(head) <= charged.reserved
         /\ head.op = "input" => Weight(head) = 1 /\ Cardinality(Waiting) >= 1
         /\ head.op = "finalize" => Weight(head) = Accepted[head.of[1]]
         /\ head.op \notin {"input", "finalize"} => Weight(head) = 0
<1>1. head \in Operations /\ head \in ToSet(ops)
      BY TailOrder DEF RetentionTypes, OpsPart, head
<1>2. /\ head.of[1] \in Conversations
      /\ head = Op(head.op, <<head.of[1], IF head.op \in {"input", "refused", "delete"} THEN "input" ELSE "output">>)
      BY <1>1, OpOf
<1>3. /\ Accepted \in [Conversations -> Nat] /\ Open \in SUBSET Conversations
      /\ SumOver(Accepted, Open) \in Nat /\ Cardinality(Waiting) \in Nat /\ IsFiniteSet(Waiting)
      BY Counts
<1>4. charged.reserved = Cardinality(Waiting) + SumOver(Accepted, Open)
      BY DEF BytesPart
<1>5. CASE head.op = "input"
  <2>1. head.of[1] \in Waiting
        BY <1>1, <1>2, <1>5 DEF Waiting
  <2>2. Cardinality(Waiting) # 0
        BY <1>3, <2>1, FS_EmptySet
  <2> QED BY <1>3, <1>4, <1>5, <2>2 DEF Weight
<1>6. CASE head.op = "finalize"
  <2> DEFINE A == Accepted  G == Open  s == head.of[1]
  <2>1. s \in G
        BY <1>1, <1>2, <1>6 DEF Open
  <2>2. Weight(head) = A[s]
        BY <1>2, <1>6 DEF Weight, Accepted
  <2> HIDE DEF A, G, s
  <2>3. A \in [Conversations -> Nat] /\ IsFiniteSet(G) /\ s \in Conversations /\ \A x \in G : A[x] \in Nat
        BY <1>2, <1>3, Finitely, FS_Subset DEF A, G, s
  <2>4. SumOver(A, G) = A[s] + SumOver(A, G \ {s}) /\ SumOver(A, G \ {s}) \in Nat
        BY <2>1, <2>3, SumTakes, ZenonT(40)
  <2>5. A[s] \in Nat /\ A[s] <= SumOver(A, G)
        BY <2>3, <2>4
  <2>6. A[s] <= charged.reserved
        BY <1>3, <1>4, <2>5 DEF A, G
  <2> QED BY <1>6, <2>2, <2>5, <2>6 DEF A, s
<1>7. CASE head.op \notin {"input", "finalize"}
      BY <1>7 DEF Weight, RetentionTypes
<1> QED BY <1>5, <1>6, <1>7

\* The bytes when an operation is over that committed nothing.
LEMMA BytesLeave ==
  ASSUME RetentionTypes, RetentionTypes', OpsPart, BytesPart, up # "down", UNCHANGED up, ops # <<>>,
         NEW more \in Failures, ops' = Tail(ops) \o more, at' = "next",
         head.op = "frame" => at = "write" \/ recorder'[head.of[1]].state = "truncated",
         \A t \in Conversations : /\ recorder'[t].finalized = recorder[t].finalized
                                  /\ recorder'[t].accepted = recorder[t].accepted
                                  /\ recorder[t].state = "truncated" => recorder'[t].state = "truncated",
         ReadyBytes(Assets)' = ReadyBytes(Assets),
         charged' = [charged EXCEPT !.reserved = @ - Weight(head)]
  PROVE  BytesPart'
<1> DEFINE s == head.of[1]
           A == Accepted
           W == Waiting  O == Open  G == Granted
           X == Waiting' P == Open' H == Granted'
<1>1. /\ s \in Conversations
      /\ X = IF head.op = "input" THEN W \ {s} ELSE W
      /\ head.op = "input" => s \in W
      /\ P = IF head.op = "finalize" THEN O \ {s} ELSE O
      /\ head.op = "finalize" => s \in O
  <2>1. recorder' \in [Conversations -> Recorders]
        BY DEF RetentionTypes
  <2> QED BY <2>1, LeavesWho
<1>2. /\ A \in [Conversations -> Nat] /\ O \in SUBSET Conversations /\ G \in SUBSET O
      /\ IsFiniteSet(W) /\ Cardinality(W) \in Nat
      /\ SumOver(A, O) \in Nat /\ SumOver(A, G) \in Nat /\ Passed \in {0, 1}
      BY Counts
<1>3. Accepted' = A
      BY DEF Accepted
<1>4. Passed' = 0
      BY DEF Passed
<1>5. H \subseteq G
  <2> SUFFICES ASSUME NEW t \in H PROVE t \in G
      OBVIOUS
  <2> DEFINE fr == Op("frame", <<t, "output">>)
  <2>1. t \in P /\ recorder'[t].state = "pending" /\ fr \notin ToSet(Roomless') /\ t \in Conversations
        BY DEF Granted, Open
  <2>2. Roomless' = ops'
        BY DEF Roomless
  <2>3. ToSet(ops') = ToSet(Tail(ops)) \union ToSet(more) /\ ToSet(ops) = ToSet(Tail(ops)) \union {head}
        BY LeavesIs
  <2>4. fr.op = "frame" /\ fr.of[1] = t
        BY DEF Op
  <2>5. fr \notin ToSet(Roomless)
    <3>1. CASE at = "write"
          BY <2>1, <2>2, <2>3, <3>1 DEF Roomless
    <3>2. CASE at # "write"
      <4>1. fr # head
            BY <2>1, <2>4, <3>2
      <4> QED BY <2>1, <2>2, <2>3, <3>2, <4>1 DEF Roomless
    <3> QED BY <3>1, <3>2
  <2>6. recorder[t].state = "pending"
        BY <2>1 DEF RetentionTypes, Recorders
  <2>7. t \in O
        BY <1>1, <2>1
  <2> QED BY <2>5, <2>6, <2>7 DEF Granted
<1>6. /\ Weight(head) \in Nat /\ Weight(head) <= charged.reserved
      /\ head.op = "input" => Weight(head) = 1
      /\ head.op = "finalize" => Weight(head) = A[s]
      /\ head.op \notin {"input", "finalize"} => Weight(head) = 0
      BY WeightIs
<1>7. Cardinality(X) \in Nat /\ Cardinality(W) = Cardinality(X) + (IF head.op = "input" THEN 1 ELSE 0)
  <2> HIDE DEF X, W, s
  <2>1. head.op = "input" => /\ IsFiniteSet(W \ {s}) /\ Cardinality(W \ {s}) = Cardinality(W) - 1
                             /\ Cardinality(W \ {s}) \in Nat
        BY <1>1, <1>2, FS_RemoveElement, FS_CardinalityType
  <2>2. CASE head.op = "input"
    <3>1. X = W \ {s}
          BY <1>1, <2>2
    <3> QED BY <1>2, <2>1, <2>2, <3>1
  <2>3. CASE head.op # "input"
    <3>1. X = W
          BY <1>1, <2>3
    <3> QED BY <1>2, <2>3, <3>1
  <2> QED BY <2>2, <2>3
<1>8. SumOver(A, P) \in Nat /\ SumOver(A, O) = SumOver(A, P) + (IF head.op = "finalize" THEN A[s] ELSE 0)
  <2> HIDE DEF O, P, A, s
  <2>1. IsFiniteSet(O) /\ \A x \in O : A[x] \in Nat
        BY <1>2, Finitely, FS_Subset
  <2>2. ASSUME head.op = "finalize"
        PROVE  SumOver(A, O) = A[s] + SumOver(A, O \ {s}) /\ SumOver(A, O \ {s}) \in Nat /\ A[s] \in Nat
    <3>1. s \in O
          BY <1>1, <2>2
    <3> QED BY ONLY <2>1, <3>1, SumTakes, ZenonT(40)
  <2>3. CASE head.op = "finalize"
    <3>1. P = O \ {s}
          BY <1>1, <2>3
    <3> QED BY <2>2, <2>3, <3>1
  <2>4. CASE head.op # "finalize"
    <3>1. P = O
          BY <1>1, <2>4
    <3> QED BY <1>2, <2>4, <3>1
  <2> QED BY <2>3, <2>4
<1>9. SumOver(A, H) \in Nat /\ SumOver(A, H) <= SumOver(A, G)
  <2> HIDE DEF A, H, G, O
  <2>1. G \in SUBSET Conversations /\ H \in SUBSET G
        BY <1>2, <1>5
  <2> QED BY <1>2, <2>1, Finitely, SumLess
<1>10. /\ charged.ready = ReadyBytes(Assets) /\ charged.reserved = Cardinality(W) + SumOver(A, O)
       /\ charged.ready + SumOver(A, G) + Passed <= MaxBytes /\ ReadyBytes(Assets) <= MaxBytes
       /\ charged.ready \in Nat /\ charged.reserved \in Nat /\ MaxBytes \in Nat
      BY RetentionAssumption DEF BytesPart, RetentionTypes
<1>11. charged'.ready = charged.ready /\ charged'.reserved = charged.reserved - Weight(head)
      BY DEF RetentionTypes
<1>12. charged'.reserved = Cardinality(X) + SumOver(A, P)
  <2> HIDE DEF X, P, A, O, W, s
  <2> QED BY <1>2, <1>6, <1>7, <1>8, <1>10, <1>11, SMTT(30)
<1>13. charged'.ready + SumOver(A, H) + 0 <= MaxBytes
  <2> HIDE DEF A, H, G
  <2> QED BY <1>2, <1>9, <1>10, <1>11
<1>14. /\ Cardinality(Waiting)' = Cardinality(X) /\ SumOver(Accepted, Open)' = SumOver(A, P)
       /\ SumOver(Accepted, Granted)' = SumOver(A, H)
      BY <1>3
<1> QED BY <1>4, <1>10, <1>11, <1>12, <1>13, <1>14 DEF BytesPart

\* An operation that waits stands while its conversation is neither ended for it nor
\* its row made ready.
LEMMA StandsOn ==
  ASSUME RetentionTypes, UNCHANGED conv, NEW o \in Operations, Stands(o, conv, media, recorder),
         media'[o.of].row = "ready" => media[o.of].row = "ready",
         recorder'[o.of[1]].finalized = recorder[o.of[1]].finalized,
         recorder[o.of[1]].state = "truncated" => recorder'[o.of[1]].state = "truncated"
  PROVE  Stands(o, conv', media', recorder')
  BY DEF Stands

\* The first operation is over, and what it was about is not ready.
LEMMA Leaving ==
  ASSUME RetentionInv, up # "down", UNCHANGED <<conv, order, up>>, ops # <<>>,
         NEW more \in Failures, Leaves(more),
         more # <<>> => /\ more = <<Op("fail", head.of)>> /\ head.op # "delete"
                        /\ recorder'[head.of[1]].state = "truncated",
         jobs' \subseteq Conversations, mishaps' \in Nat, recorder' \in [Conversations -> Recorders],
         \A t \in Conversations :
            /\ recorder'[t].finalized = recorder[t].finalized /\ recorder'[t].accepted = recorder[t].accepted
            /\ recorder[t].state = "truncated" => recorder'[t].state = "truncated"
            /\ recorder'[t] # recorder[t] => conv[t] # "none",
         head.op = "frame" => at = "write" \/ recorder'[head.of[1]].state = "truncated",
         \/ media' = media /\ at # "commit"
         \/ \E f \in Rows : /\ f.row # "ready" /\ f.file # "kept" /\ head.op # "delete"
                            /\ f.row = "none" \/ conv[head.of[1]] \notin {"none", "deleted"}
                            /\ media' = [media EXCEPT ![head.of] = f],
         charged' = [charged EXCEPT !.reserved = @ - Weight(head)]
  PROVE  RetentionInv'
<1> USE DEF RetentionInv
<1>1. /\ ops' = Tail(ops) \o more /\ at' = "next" /\ victim' = Nobody /\ cands' = {}
      BY DEF Leaves
<1>2. /\ ops' \in Seq(Operations) /\ InOrder(ops')
      /\ ToSet(ops') = ToSet(Tail(ops)) \union ToSet(more)
      /\ \A y \in ToSet(more) : y \in Operations /\ y.op = "fail" /\ more = <<y>>
      /\ head \in Operations /\ ToSet(ops) = ToSet(Tail(ops)) \union {head}
      /\ \A y \in ToSet(Tail(ops)) : y \in Operations
      BY <1>1, LeavesIs
<1>3. /\ head.of \in Assets /\ head.of[1] \in Conversations
      /\ Stands(head, conv, media, recorder)
      BY <1>2, OpOf DEF OpsPart
<1> DEFINE Rest == /\ media' \in [Assets -> Rows]
                   /\ \A a \in Assets : /\ media'[a].row = "ready" <=> media[a].row = "ready"
                                        /\ media[a].row = "ready" => media'[a] = media[a]
                                        /\ a # head.of => media'[a] = media[a]
<1>4. Rest
  <2>1. CASE media' = media
        BY <2>1 DEF RetentionTypes
  <2>2. ASSUME NEW f \in Rows, f.row # "ready", head.op # "delete", media' = [media EXCEPT ![head.of] = f]
        PROVE  Rest
    <3>1. media[head.of].row # "ready"
          BY <1>3, <2>2 DEF Stands
    <3> QED BY <1>3, <2>2, <3>1 DEF RetentionTypes
  <2> QED BY <2>1, <2>2
<1>5. RetentionTypes'
  <2>1. charged' \in [ready : Nat, reserved : Nat]
    <3>1. Weight(head) \in Nat /\ Weight(head) <= charged.reserved
          BY WeightIs
    <3> QED BY <3>1, SMTT(30) DEF RetentionTypes
  <2> QED BY <1>1, <1>2, <1>4, <2>1 DEF RetentionTypes
<1>6. StepPart'
      BY <1>1 DEF StepPart
<1>7. OpsPart'
  <2> SUFFICES ASSUME NEW y \in ToSet(ops') PROVE Stands(y, conv', media', recorder')
      BY <1>2 DEF OpsPart
  <2>1. CASE y \in ToSet(Tail(ops))
    <3>1. y \in Operations /\ Stands(y, conv, media, recorder)
          BY <1>2, <2>1 DEF OpsPart
    <3>2. y.of \in Assets /\ y.of[1] \in Conversations
          BY <3>1, OpOf
    <3> QED BY <1>4, <3>1, <3>2, StandsOn
  <2>2. CASE y \in ToSet(more)
    <3>1. /\ y = Op("fail", head.of) /\ head.op # "delete"
          /\ recorder'[head.of[1]].state = "truncated"
      <4>1. more = <<y>> /\ <<y>> # <<>> /\ <<y>>[1] = y
            BY <1>2, <2>2
      <4>2. more = <<Op("fail", head.of)>> /\ more[1] = Op("fail", head.of)
            BY <4>1
      <4> QED BY <4>1, <4>2
    <3>2. y.op = "fail" /\ y.of = head.of
          BY <3>1 DEF Op
    <3>3. media[head.of].row # "ready" /\ conv[head.of[1]] # "none"
          BY <1>3, <3>1 DEF Stands
    <3> QED BY <1>3, <1>4, <3>1, <3>2, <3>3 DEF Stands, Begun
  <2> QED BY <1>2, <2>1, <2>2
<1>8. StoredPart'
  <2> DEFINE Sound(a) == /\ media'[a].row = "ready" => media'[a].file = "kept" \/ conv[a[1]] \in Gone
                         /\ conv[a[1]] \in {"none", "deleted"} => media'[a].row = "none"
                         /\ media'[a].file = "kept" => media'[a].row = "ready"
  <2> SUFFICES ASSUME NEW a \in Assets PROVE Sound(a)
      BY DEF StoredPart, Gone
  <2>1. CASE media' = media /\ at # "commit"
        BY <2>1 DEF StoredPart
  <2>2. ASSUME NEW f \in Rows, f.row # "ready", f.file # "kept",
               f.row = "none" \/ conv[head.of[1]] \notin {"none", "deleted"},
               media' = [media EXCEPT ![head.of] = f]
        PROVE  Sound(a)
    <3>1. CASE a = head.of
      <4>1. media'[a] = f
            BY <1>3, <2>2, <3>1 DEF RetentionTypes
      <4> QED BY <2>2, <3>1, <4>1
    <3>2. CASE a # head.of
          BY <1>4, <3>2 DEF StoredPart
    <3> QED BY <3>1, <3>2
  <2> QED BY <2>1, <2>2
<1>9. RecorderPart'
  <2>1. \A s \in Conversations : <<s, "output">> \in Assets
        BY DEF Assets
  <2> QED BY <1>4, <2>1 DEF RecorderPart
<1>10. DownPart'
      BY DEF DownPart
<1>11. BytesPart'
  <2>1. ReadyBytes(Assets)' = ReadyBytes(Assets)
        BY <1>4, <1>5, ReadyStays
  <2> QED BY <1>1, <1>5, <2>1, BytesLeave
<1> QED BY <1>5, <1>6, <1>7, <1>8, <1>9, <1>10, <1>11

\* The first operation goes on, and what it is about is not ready.
LEMMA Going ==
  ASSUME RetentionInv, up # "down", UNCHANGED <<conv, order, up, ops, recorder, charged, jobs, mishaps>>,
         ops # <<>>, at # "commit", StepPart',
         at' \in {"room", "write", "rename", "commit", "unlink"},
         cands' \subseteq Conversations, victim' \in Conversations \union {Nobody},
         \/ media' = media
         \/ \E f \in Rows : /\ f.row # "ready" /\ head.op # "delete"
                            /\ f.row = "none" \/ conv[head.of[1]] \notin {"none", "deleted"}
                            /\ f.file = "kept" => at' = "commit"
                            /\ media' = [media EXCEPT ![head.of] = f],
         \/ Passed' <= Passed /\ Granted' \subseteq Granted
         \/ at' = "write" /\ Fits
  PROVE  RetentionInv'
<1> USE DEF RetentionInv
<1>1. head \in Operations /\ head \in ToSet(ops)
      BY TailOrder DEF RetentionTypes, OpsPart, head
<1>2. /\ head.of \in Assets /\ head.of[1] \in Conversations /\ head' = head
      /\ Stands(head, conv, media, recorder)
      BY <1>1, OpOf DEF OpsPart, head
<1> DEFINE Rest == /\ media' \in [Assets -> Rows]
                   /\ \A a \in Assets : /\ media'[a].row = "ready" <=> media[a].row = "ready"
                                        /\ media[a].row = "ready" => media'[a] = media[a]
                                        /\ a # head.of => media'[a] = media[a]
<1>3. Rest
  <2>1. CASE media' = media
        BY <2>1 DEF RetentionTypes
  <2>2. ASSUME NEW f \in Rows, f.row # "ready", head.op # "delete", media' = [media EXCEPT ![head.of] = f]
        PROVE  Rest
    <3>1. media[head.of].row # "ready"
          BY <1>2, <2>2 DEF Stands
    <3> QED BY <1>2, <2>2, <3>1 DEF RetentionTypes
  <2> QED BY <2>1, <2>2
<1>4. RetentionTypes'
      BY <1>3 DEF RetentionTypes
<1>5. OpsPart'
  <2> SUFFICES ASSUME NEW y \in ToSet(ops) PROVE Stands(y, conv', media', recorder')
      BY DEF OpsPart
  <2>1. y \in Operations
        BY DEF RetentionTypes, ToSet
  <2>2. y.of \in Assets /\ Stands(y, conv, media, recorder)
        BY <2>1, OpOf DEF OpsPart
  <2> QED BY <1>3, <2>1, <2>2, StandsOn
<1>6. StoredPart'
  <2> DEFINE Sound(a) == /\ media'[a].row = "ready" => media'[a].file = "kept" \/ conv[a[1]] \in Gone
                         /\ conv[a[1]] \in {"none", "deleted"} => media'[a].row = "none"
                         /\ media'[a].file = "kept" => media'[a].row = "ready" \/ (at' = "commit" /\ head.of = a)
  <2> SUFFICES ASSUME NEW a \in Assets PROVE Sound(a)
      BY <1>2 DEF StoredPart, Gone
  <2>1. CASE media' = media
        BY <2>1 DEF StoredPart
  <2>2. ASSUME NEW f \in Rows, f.row # "ready", f.file = "kept" => at' = "commit",
               f.row = "none" \/ conv[head.of[1]] \notin {"none", "deleted"},
               media' = [media EXCEPT ![head.of] = f]
        PROVE  Sound(a)
    <3>1. CASE a = head.of
      <4>1. media'[a] = f
            BY <1>2, <2>2, <3>1 DEF RetentionTypes
      <4> QED BY <2>2, <3>1, <4>1
    <3>2. CASE a # head.of
          BY <1>3, <3>2 DEF StoredPart
    <3> QED BY <3>1, <3>2
  <2> QED BY <2>1, <2>2
<1>7. RecorderPart'
  <2>1. \A s \in Conversations : <<s, "output">> \in Assets
        BY DEF Assets
  <2> QED BY <1>3, <2>1 DEF RecorderPart
<1>8. DownPart'
      BY DEF DownPart
<1>9. ReadyBytes(Assets)' = ReadyBytes(Assets)
      BY <1>3, <1>4, ReadyStays
<1>10. Waiting' = Waiting /\ Open' = Open /\ Accepted' = Accepted
      BY DEF Waiting, Open, Accepted
<1>11. BytesPart'
  <2>1. CASE Passed' <= Passed /\ Granted' \subseteq Granted
        BY <1>4, <1>9, <1>10, <2>1, BytesStay
  <2>2. CASE at' = "write" /\ Fits
    <3> DEFINE A == Accepted  O == Open  W == Waiting  H == Granted'
    <3>1. /\ A \in [Conversations -> Nat] /\ O \in SUBSET Conversations /\ H \in SUBSET O
          /\ IsFiniteSet(W) /\ Cardinality(W) \in Nat
          BY <1>10, Counts DEF Granted
    <3>2. /\ SumOver(Accepted, Open)' = SumOver(A, O) /\ SumOver(Accepted, Granted)' = SumOver(A, H)
          /\ Cardinality(Waiting)' = Cardinality(W)
          BY <1>10
    <3>3. SumOver(A, H) \in Nat /\ SumOver(A, O) \in Nat /\ SumOver(A, H) <= SumOver(A, O)
      <4> HIDE DEF A, O, H
      <4> QED BY <3>1, Finitely, SumLess
    <3>4. Passed' \in Nat /\ Passed' <= Cardinality(W)
      <4>1. CASE head.op = "input"
        <5>1. head.of[1] \in W
          <6>1. head = Op("input", <<head.of[1], "input">>)
                BY <1>1, <4>1, OpOf
          <6> QED BY <1>1, <1>2, <6>1 DEF Waiting
        <5>2. Cardinality(W) # 0
              BY <3>1, <5>1, FS_EmptySet
        <5>3. Passed' \in {0, 1}
              BY DEF Passed
        <5> QED BY <3>1, <5>2, <5>3
      <4>2. CASE head.op # "input"
        <5>1. Passed' = 0
              BY <1>2, <4>2 DEF Passed
        <5> QED BY <3>1, <5>1
      <4> QED BY <4>1, <4>2
    <3>5. /\ charged.ready = ReadyBytes(Assets) /\ charged.reserved = Cardinality(W) + SumOver(A, O)
          /\ ReadyBytes(Assets) <= MaxBytes /\ charged.ready + charged.reserved <= MaxBytes
          /\ charged.ready \in Nat /\ charged.reserved \in Nat /\ MaxBytes \in Nat
          BY <2>2, RetentionAssumption DEF BytesPart, RetentionTypes, Fits
    <3>6. charged.ready + SumOver(A, H) + Passed' <= MaxBytes
      <4> HIDE DEF A, O, H, W
      <4> QED BY <3>1, <3>3, <3>4, <3>5
    <3> QED BY <1>9, <3>2, <3>5, <3>6 DEF BytesPart
  <2> QED BY <2>1, <2>2
<1> QED BY <1>4, <1>5, <1>6, <1>7, <1>8, <1>11

\* Nobody waits for room who did not, unless the first goes to write.
LEMMA GrantedStays ==
  ASSUME UNCHANGED <<ops, recorder>>, at = "write" <=> at' = "write"
  PROVE  Granted' = Granted
<1>1. Open' = Open /\ Roomless' = Roomless
      BY DEF Open, Roomless
<1> QED BY <1>1 DEF Granted

\* Conversations end and are marked, and nothing that waits is about them otherwise.
Marks == \A t \in Conversations :
            \/ conv'[t] = conv[t]
            \/ conv[t] \in {"active", "ended"} /\ conv'[t] \in {"ended", "deleting"}

\* What waits stands as it did when conversations end or are marked.
LEMMA MarksStand ==
  ASSUME RetentionTypes, Marks, UNCHANGED media, NEW o \in Operations,
         Stands(o, conv, media, recorder),
         recorder[o.of[1]].finalized => recorder'[o.of[1]].finalized,
         recorder[o.of[1]].state = "truncated" => recorder'[o.of[1]].state = "truncated"
  PROVE  Stands(o, conv', media', recorder')
<1>1. o.of[1] \in Conversations
      BY OpOf
<1>2. \/ conv'[o.of[1]] = conv[o.of[1]]
      \/ conv[o.of[1]] \in {"active", "ended"} /\ conv'[o.of[1]] \in {"ended", "deleting"}
      BY <1>1 DEF Marks
<1> QED BY <1>2 DEF Stands, Gone

\* And so does what is stored.
LEMMA MarksKeep ==
  ASSUME RetentionInv, Marks, UNCHANGED <<media, up>>, up # "down",
         at = "commit" => at' = "commit" /\ head' = head,
         \A s \in Conversations : /\ recorder[s].finalized => recorder'[s].finalized
                                  /\ conv[s] = "none" => recorder'[s] = recorder[s]
  PROVE  StoredPart' /\ RecorderPart' /\ DownPart' /\ ReadyBytes(Assets)' = ReadyBytes(Assets)
<1> USE DEF RetentionInv
<1>1. \A t \in Conversations : /\ conv[t] \in Gone => conv'[t] \in Gone
                               /\ conv'[t] \in {"none", "deleted"} => conv[t] = conv'[t]
      BY DEF Marks, Gone
<1>2. \A a \in Assets : a[1] \in Conversations
      BY DEF Assets
<1>3. StoredPart'
      BY <1>1, <1>2 DEF StoredPart
<1>4. RecorderPart'
  <2> SUFFICES ASSUME NEW s \in Conversations
               PROVE  /\ conv'[s] = "none" => recorder'[s] = NoRecorder
                      /\ ~recorder'[s].finalized => media[<<s, "output">>].row # "ready"
      BY DEF RecorderPart, NoRecorder
  <2>1. conv'[s] = "none" => conv[s] = "none" /\ recorder'[s] = recorder[s]
        BY <1>1
  <2>2. ~recorder'[s].finalized => ~recorder[s].finalized
        OBVIOUS
  <2> QED BY <2>1, <2>2 DEF RecorderPart
<1>5. ReadyBytes(Assets)' = ReadyBytes(Assets)
      BY DEF ReadyBytes
<1> QED BY <1>3, <1>4, <1>5 DEF DownPart

-----------------------------------------------------------------------------
(* Operations are appended.                                                *)

\* What is appended waits behind everything, and the first stays first.
LEMMA AppendIs ==
  ASSUME RetentionTypes, OpsPart, StepPart, NEW more \in Seq(Operations), InOrder(more), ops' = ops \o more,
         \A x \in ToSet(ops), y \in ToSet(more) : Behind(x, y), UNCHANGED at
  PROVE  /\ ops' \in Seq(Operations) /\ InOrder(ops')
         /\ ToSet(ops') = ToSet(ops) \union ToSet(more)
         /\ ToSet(Roomless') = ToSet(Roomless) \union ToSet(more)
         /\ ops # <<>> => ops' # <<>> /\ head' = head
         /\ Passed' = Passed
<1>1. /\ ops' \in Seq(Operations) /\ InOrder(ops')
      /\ ToSet(ops') = ToSet(ops) \union ToSet(more)
      /\ ops # <<>> => ops' # <<>> /\ head' = head
  <2>1. ops \in Seq(Operations) /\ InOrder(ops)
        BY DEF RetentionTypes, OpsPart
  <2> QED BY <2>1, JoinOrder DEF head
<1>2. ToSet(Roomless') = ToSet(Roomless) \union ToSet(more)
  <2>1. CASE at = "write"
    <3>1. ops # <<>> /\ ops \in Seq(Operations)
          BY <2>1 DEF StepPart, RetentionTypes
    <3> DEFINE q == ops
    <3> HIDE DEF q
    <3>2. q \in Seq(Operations) /\ q # <<>> /\ InOrder(q) /\ \A x \in ToSet(q), y \in ToSet(more) : Behind(x, y)
          BY <3>1 DEF q, OpsPart
    <3>3. Tail(q \o more) = Tail(q) \o more
          BY <3>2
    <3>4. /\ Tail(q) \in Seq(Operations) /\ InOrder(Tail(q))
          /\ ToSet(q) = ToSet(Tail(q)) \union {Head(q)}
          BY <3>2, TailOrder
    <3>5. ToSet(Tail(q) \o more) = ToSet(Tail(q)) \union ToSet(more)
          BY <3>2, <3>4, JoinOrder
    <3> QED BY <2>1, <3>3, <3>5 DEF q, Roomless
  <2>2. CASE at # "write"
        BY <1>1, <2>2 DEF Roomless
  <2> QED BY <2>1, <2>2
<1>3. Passed' = Passed
  <2>1. CASE ops # <<>>
        BY <1>1, <2>1 DEF Passed
  <2>2. CASE ops = <<>>
    <3>1. at = "next"
          BY <2>2 DEF StepPart
    <3> QED BY <3>1 DEF Passed
  <2> QED BY <2>1, <2>2
<1> QED BY <1>1, <1>2, <1>3

\* Callbacks append what stands where they append it.
LEMMA Appending ==
  ASSUME RetentionInv, up # "down", UNCHANGED <<media, up, running>>, Marks,
         NEW more \in Seq(Operations), InOrder(more), ops' = ops \o more,
         \A x \in ToSet(ops), y \in ToSet(more) : Behind(x, y),
         \A y \in ToSet(more) : Stands(y, conv', media', recorder'),
         conv' \in [Conversations -> {"none", "active", "ended", "deleting", "deleted", "evicted"}],
         order' \in Seq(Conversations), charged' \in [ready : Nat, reserved : Nat],
         jobs' \subseteq Conversations, mishaps' \in Nat, recorder' \in [Conversations -> Recorders],
         \A s \in Conversations :
            /\ recorder[s].finalized => recorder'[s] = recorder[s]
            /\ recorder[s].state = "truncated" => recorder'[s].state = "truncated"
            /\ conv[s] = "none" => recorder'[s] = recorder[s],
         BytesPart'
  PROVE  RetentionInv'
<1> USE DEF RetentionInv
<1>1. /\ ops' \in Seq(Operations) /\ InOrder(ops')
      /\ ToSet(ops') = ToSet(ops) \union ToSet(more)
      /\ ops # <<>> => ops' # <<>> /\ head' = head
      /\ at' = at /\ victim' = victim /\ cands' = cands
  <2>1. at' = at /\ victim' = victim /\ cands' = cands
        BY DEF running
  <2> QED BY <2>1, AppendIs
<1>2. RetentionTypes'
      BY <1>1 DEF RetentionTypes
<1>3. ASSUME NEW o \in ToSet(ops)
      PROVE  o \in Operations /\ Stands(o, conv, media, recorder) /\ o.of[1] \in Conversations
  <2>1. o \in Operations
        BY DEF RetentionTypes, ToSet
  <2> QED BY <2>1, OpOf DEF OpsPart
<1>4. OpsPart'
  <2> SUFFICES ASSUME NEW o \in ToSet(ops) PROVE Stands(o, conv', media', recorder')
      BY <1>1 DEF OpsPart
  <2>1. /\ recorder[o.of[1]].finalized => recorder'[o.of[1]].finalized
        /\ recorder[o.of[1]].state = "truncated" => recorder'[o.of[1]].state = "truncated"
        BY <1>3
  <2> QED BY <1>3, <2>1, MarksStand
<1>5. StepPart'
  <2>1. CASE at = "next"
        BY <1>1, <2>1 DEF StepPart
  <2>2. CASE at # "next"
    <3>1. ops # <<>> /\ head' = head /\ ops' # <<>>
          BY <1>1, <2>2 DEF StepPart
    <3>2. head \in ToSet(ops)
          BY <3>1, TailOrder DEF RetentionTypes, OpsPart, head
    <3>3. head.op = "finalize" => recorder'[head.of[1]] = recorder[head.of[1]]
          BY <1>3, <3>2 DEF Stands
    <3>4. \A t \in Conversations : conv[t] \in Gone => conv'[t] \in Gone
          BY DEF Marks, Gone
    <3> QED BY <1>1, <3>1, <3>3, <3>4 DEF StepPart
  <2> QED BY <2>1, <2>2
<1>6. at = "commit" => at' = "commit" /\ head' = head
      BY <1>1 DEF StepPart
<1>7. StoredPart' /\ RecorderPart' /\ DownPart'
      BY <1>6, MarksKeep
<1> QED BY <1>2, <1>4, <1>5, <1>7

-----------------------------------------------------------------------------
(* The callbacks.                                                          *)

\* A conversation begins: nothing is known of it yet.
LEMMA BeginKeeps ==
  ASSUME RetentionInv, NEW s \in Conversations, Begin(s) PROVE RetentionInv'
<1> USE DEF RetentionInv
<1>1. /\ up = "up" /\ conv[s] = "none" /\ conv' = [conv EXCEPT ![s] = "active"]
      /\ UNCHANGED <<order, media, up, ops, at, cands, victim, recorder, charged, jobs, mishaps>>
      BY DEF Begin, running
<1>2. /\ conv'[s] = "active" /\ \A t \in Conversations : t # s => conv'[t] = conv[t]
      BY <1>1 DEF RetentionTypes
<1>3. \A a \in Assets : a[1] \in Conversations
      BY DEF Assets
<1>4. RetentionTypes'
      BY <1>1 DEF RetentionTypes
<1>5. StepPart'
      BY <1>1, <1>2 DEF StepPart, Gone, head
<1>6. OpsPart'
  <2> SUFFICES ASSUME NEW o \in ToSet(ops) PROVE Stands(o, conv', media, recorder)
      BY <1>1 DEF OpsPart
  <2>1. o.of[1] \in Conversations /\ Stands(o, conv, media, recorder)
    <3>1. o \in Operations
          BY DEF RetentionTypes, ToSet
    <3> QED BY <3>1, OpOf DEF OpsPart
  <2> QED BY <1>1, <1>2, <2>1 DEF Stands, Gone
<1>7. StoredPart'
      BY <1>1, <1>2, <1>3 DEF StoredPart, Gone, head
<1>8. RecorderPart'
      BY <1>1, <1>2 DEF RecorderPart, NoRecorder
<1>9. BytesPart'
  <2>1. ReadyBytes(Assets)' = ReadyBytes(Assets)
        BY <1>1 DEF ReadyBytes
  <2>2. Waiting' = Waiting /\ Open' = Open /\ Accepted' = Accepted /\ Granted' = Granted /\ Passed' = Passed
        BY <1>1 DEF Waiting, Open, Accepted, Granted, Passed, Roomless, head
  <2> QED BY <1>1, <2>1, <2>2 DEF BytesPart
<1> QED BY <1>1, <1>4, <1>5, <1>6, <1>7, <1>8, <1>9 DEF DownPart

\* An utterance is to be retained: it is charged when there is room for it.
LEMMA RetainInputKeeps ==
  ASSUME RetentionInv, NEW s \in Conversations, RetainInput(s) PROVE RetentionInv'
<1> USE DEF RetentionInv
<1> DEFINE a == <<s, "input">>
           o == Op(IF HasRoom THEN "input" ELSE "refused", a)
           more == <<o>>
<1>1. /\ up = "up" /\ conv[s] = "active" /\ media[a].row = "none"
      /\ \A i \in DOMAIN ops : ops[i].of # a
      /\ IF HasRoom THEN charged' = [charged EXCEPT !.reserved = @ + 1] ELSE UNCHANGED charged
      /\ ops' = Append(ops, o)
      /\ UNCHANGED <<conv, order, media, up, at, cands, victim, recorder, jobs, mishaps>>
      BY DEF RetainInput, Reserve, durable, running
<1>2. /\ a \in Assets /\ o \in Operations /\ o.of = a /\ a[1] = s
      /\ o.op = IF HasRoom THEN "input" ELSE "refused"
  <2>1. CASE HasRoom
        BY <2>1, OpIs DEF Kinds
  <2>2. CASE ~HasRoom
        BY <2>2, OpIs DEF Kinds
  <2> QED BY <2>1, <2>2
<1> HIDE DEF o
<1>3. more \in Seq(Operations) /\ InOrder(more) /\ ToSet(more) = {o} /\ ops' = ops \o more
      BY <1>1, <1>2, OneIs DEF RetentionTypes
<1> HIDE DEF more
<1>4. ASSUME NEW x \in ToSet(ops) PROVE Behind(x, o)
  <2>1. x \in Operations /\ x.of # a /\ Stands(x, conv, media, recorder)
        BY <1>1 DEF RetentionTypes, ToSet, OpsPart
  <2>2. x.op \in Kinds /\ x.of[1] \in Conversations
        BY <2>1, OpOf
  <2>3. x.of[1] = s => x.op # "delete"
        BY <1>1, <2>1 DEF Stands, Gone
  <2> QED BY <1>2, <2>1, <2>3 DEF Behind
<1>5. Stands(o, conv', media', recorder')
      BY <1>1, <1>2 DEF Stands, Begun
<1>6. /\ ToSet(ops') = ToSet(ops) \union {o} /\ ToSet(Roomless') = ToSet(Roomless) \union {o}
      /\ Passed' = Passed
      BY <1>1, <1>3, <1>4, AppendIs
<1>7. \A t : /\ Op("finalize", <<t, "output">>) # o /\ Op("frame", <<t, "output">>) # o
             /\ Op("input", <<t, "input">>) = o <=> HasRoom /\ t = s
  <2> TAKE t
  <2>1. /\ Op("finalize", <<t, "output">>).op = "finalize" /\ Op("frame", <<t, "output">>).op = "frame"
        /\ Op("input", <<t, "input">>).of = <<t, "input">> /\ Op("input", <<t, "input">>).op = "input"
        BY DEF Op
  <2>2. Op("input", <<t, "input">>) = o => HasRoom /\ t = s
        BY <1>2, <2>1
  <2> QED BY <1>2, <2>1, <2>2 DEF o
<1>8. /\ Open' = Open /\ Accepted' = Accepted /\ Granted' = Granted
      /\ Waiting' = IF HasRoom THEN Waiting \union {s} ELSE Waiting
  <2>1. Open' = Open /\ Accepted' = Accepted
        BY <1>1, <1>6, <1>7 DEF Open, Accepted
  <2>2. Granted' = Granted
        BY <1>1, <1>6, <1>7, <2>1 DEF Granted
  <2>3. CASE HasRoom
    <3>1. \A t : Op("input", <<t, "input">>) \in ToSet(ops') <=> Op("input", <<t, "input">>) \in ToSet(ops) \/ t = s
          BY <1>6, <1>7, <2>3
    <3> QED BY <2>1, <2>2, <2>3, <3>1 DEF Waiting
  <2>4. CASE ~HasRoom
    <3>1. \A t : Op("input", <<t, "input">>) \in ToSet(ops') <=> Op("input", <<t, "input">>) \in ToSet(ops)
          BY <1>6, <1>7, <2>4
    <3> QED BY <2>1, <2>2, <2>4, <3>1 DEF Waiting
  <2> QED BY <2>3, <2>4
<1>9. s \notin Waiting
  <2>1. Op("input", <<s, "input">>).of = a
        BY DEF Op
  <2> QED BY <1>1, <2>1 DEF Waiting, ToSet
<1>10. BytesPart'
  <2>1. Cardinality(Waiting)' = IF HasRoom THEN Cardinality(Waiting) + 1 ELSE Cardinality(Waiting)
    <3>1. IsFiniteSet(Waiting) /\ Cardinality(Waiting) \in Nat
          BY Counts
    <3>2. Cardinality(Waiting \union {s}) = Cardinality(Waiting) + 1
          BY <1>9, <3>1, FS_AddElement
    <3> QED BY <1>8, <3>2
  <2>2. ReadyBytes(Assets)' = ReadyBytes(Assets)
        BY <1>1 DEF ReadyBytes
  <2>3. SumOver(Accepted, Open)' = SumOver(Accepted, Open) /\ SumOver(Accepted, Granted)' = SumOver(Accepted, Granted)
        BY <1>8
  <2>4. /\ charged'.ready = charged.ready
        /\ charged'.reserved = IF HasRoom THEN charged.reserved + 1 ELSE charged.reserved
        BY <1>1 DEF RetentionTypes
  <2>5. Cardinality(Waiting) \in Nat /\ SumOver(Accepted, Open) \in Nat
        BY Counts
  <2>6. charged'.reserved = Cardinality(Waiting)' + SumOver(Accepted, Open)'
    <3>1. charged.reserved = Cardinality(Waiting) + SumOver(Accepted, Open)
          BY <1>1 DEF BytesPart
    <3> QED BY <2>1, <2>3, <2>4, <2>5, <3>1
  <2> QED BY <1>1, <1>6, <2>2, <2>3, <2>4, <2>6 DEF BytesPart
<1>11. charged' \in [ready : Nat, reserved : Nat]
      BY <1>1 DEF RetentionTypes
<1>12. Marks
      BY <1>1 DEF Marks
<1> QED BY <1>1, <1>3, <1>4, <1>5, <1>10, <1>11, <1>12, Appending DEF RetentionTypes, running

\* A frame comes: it is accepted and charged, or the reply is truncated.
LEMMA WriteKeeps ==
  ASSUME RetentionInv, NEW s \in Conversations, Write(s) PROVE RetentionInv'
<1> USE DEF RetentionInv
<1> DEFINE a == <<s, "output">>
           open == IF recorder[s].accepted = 0 THEN <<Op("init", a)>> ELSE <<>>
           o == Op(IF HasRoom THEN "frame" ELSE "fail", a)
           more == open \o <<o>>
           n == recorder[s].accepted
<1>1. /\ up = "up" /\ conv[s] = "active" /\ ~recorder[s].finalized /\ recorder[s].state = "pending"
      /\ ops' = ops \o open \o <<o>>
      /\ HasRoom => /\ recorder' = [recorder EXCEPT ![s].accepted = @ + 1]
                    /\ charged' = [charged EXCEPT !.reserved = @ + 1]
      /\ ~HasRoom => recorder' = [recorder EXCEPT ![s].state = "truncated"] /\ UNCHANGED charged
      /\ UNCHANGED <<conv, order, media, up, at, cands, victim, jobs, mishaps>>
      BY DEF Write, Reserve, durable, running
<1>2. /\ a \in Assets /\ o \in Operations /\ o.of = a /\ a[1] = s
      /\ o.op = IF HasRoom THEN "frame" ELSE "fail"
      /\ Op("init", a) \in Operations /\ Op("init", a).op = "init" /\ Op("init", a).of = a
  <2>1. Op("init", a) \in Operations /\ Op("init", a).op = "init" /\ Op("init", a).of = a
        BY OpIs DEF Kinds
  <2>2. CASE HasRoom
        BY <2>1, <2>2, OpIs DEF Kinds
  <2>3. CASE ~HasRoom
        BY <2>1, <2>3, OpIs DEF Kinds
  <2> QED BY <2>2, <2>3
<1>3. /\ open \in Seq(Operations) /\ InOrder(open) /\ ToSet(open) \subseteq {Op("init", a)}
      /\ <<o>> \in Seq(Operations) /\ InOrder(<<o>>) /\ ToSet(<<o>>) = {o}
      BY <1>2, OneIs
<1> HIDE DEF o, open
<1>4. /\ more \in Seq(Operations) /\ InOrder(more) /\ ToSet(more) = ToSet(open) \union {o}
  <2>1. \A x \in ToSet(open), y \in ToSet(<<o>>) : Behind(x, y)
        BY <1>2, <1>3 DEF Behind
  <2> QED BY <1>3, <2>1, JoinOrder
<1>5. ops' = ops \o more
  <2>1. ops \in Seq(Operations)
        BY DEF RetentionTypes
  <2> QED BY <1>1, <1>3, <2>1, ConcatAssociative
<1> HIDE DEF more
<1>6. ASSUME NEW x \in ToSet(ops), NEW y \in ToSet(more) PROVE Behind(x, y)
  <2>1. x \in Operations /\ Stands(x, conv, media, recorder)
        BY DEF RetentionTypes, ToSet, OpsPart
  <2>2. x.op \in Kinds /\ x.of[1] \in Conversations
        BY <2>1, OpOf
  <2>3. y.of = a /\ y.op \in {"init", "frame", "fail"}
        BY <1>2, <1>3, <1>4
  <2>4. x.of[1] = s => x.op # "delete"
        BY <1>1, <2>1 DEF Stands, Gone
  <2>5. x.of = a => x.op # "finalize"
        BY <1>1, <1>2, <2>1 DEF Stands
  <2> QED BY <1>2, <2>3, <2>4, <2>5 DEF Behind
<1>7. /\ recorder' \in [Conversations -> Recorders]
      /\ \A t \in Conversations : /\ recorder'[t].finalized = recorder[t].finalized
                                  /\ t # s => recorder'[t] = recorder[t]
      /\ recorder'[s].state = IF HasRoom THEN "pending" ELSE "truncated"
      /\ recorder'[s].accepted = IF HasRoom THEN n + 1 ELSE n
  <2> DEFINE r == recorder[s]
  <2>1. r \in Recorders /\ recorder \in [Conversations -> Recorders]
        BY DEF RetentionTypes
  <2>2. CASE HasRoom
    <3> DEFINE q == [r EXCEPT !.accepted = r.accepted + 1]
    <3>1. recorder' = [recorder EXCEPT ![s] = q]
          BY <1>1, <2>2
    <3>2. q \in Recorders /\ q.finalized = r.finalized /\ q.state = r.state /\ q.accepted = r.accepted + 1
          BY <2>1 DEF Recorders
    <3> HIDE DEF q
    <3> QED BY <1>1, <2>1, <2>2, <3>1, <3>2
  <2>3. CASE ~HasRoom
    <3> DEFINE q == [r EXCEPT !.state = "truncated"]
    <3>1. recorder' = [recorder EXCEPT ![s] = q]
          BY <1>1, <2>3
    <3>2. q \in Recorders /\ q.finalized = r.finalized /\ q.state = "truncated" /\ q.accepted = r.accepted
          BY <2>1 DEF Recorders
    <3> HIDE DEF q
    <3> QED BY <1>1, <2>1, <2>3, <3>1, <3>2
  <2> QED BY <2>2, <2>3
<1>8. ASSUME NEW y \in ToSet(more) PROVE Stands(y, conv', media', recorder')
  <2>1. y.of = a /\ (y = o \/ y.op = "init")
        BY <1>2, <1>3, <1>4
  <2>2. media[a].row # "ready"
        BY <1>1 DEF RecorderPart
  <2>3. y.op \in {"init", "frame", "fail"} /\ (y.op = "fail" => ~HasRoom)
        BY <1>2, <2>1
  <2> QED BY <1>1, <1>2, <1>7, <2>1, <2>2, <2>3 DEF Stands, Begun
<1>9. /\ ToSet(ops') = ToSet(ops) \union ToSet(more) /\ ToSet(Roomless') = ToSet(Roomless) \union ToSet(more)
      /\ Passed' = Passed
      BY <1>1, <1>4, <1>5, <1>6, AppendIs
<1>10. \A t : /\ Op("finalize", <<t, "output">>) \notin ToSet(more) /\ Op("input", <<t, "input">>) \notin ToSet(more)
  <2> TAKE t
  <2>1. Op("finalize", <<t, "output">>).op = "finalize" /\ Op("input", <<t, "input">>).op = "input"
        BY DEF Op
  <2>2. \A y \in ToSet(more) : y.op \in {"init", "frame", "fail"}
        BY <1>2, <1>3, <1>4
  <2> QED BY <2>1, <2>2
<1>11. Open' = Open /\ Waiting' = Waiting /\ s \in Open
  <2>1. Open' = Open
        BY <1>7, <1>9, <1>10 DEF Open
  <2>2. Waiting' = Waiting
        BY <1>9, <1>10 DEF Waiting
  <2> QED BY <1>1, <2>1, <2>2 DEF Open
<1>12. Granted' \subseteq Granted /\ s \notin Granted'
  <2>1. s \notin Granted'
    <3>1. CASE HasRoom
      <4>1. o = Op("frame", a)
            BY <3>1 DEF o
      <4>2. Op("frame", a) \in ToSet(Roomless')
            BY <1>4, <1>9, <4>1
      <4> QED BY <4>2 DEF Granted
    <3>2. CASE ~HasRoom
          BY <1>7, <3>2 DEF Granted
    <3> QED BY <3>1, <3>2
  <2>2. ASSUME NEW t \in Granted' PROVE t \in Granted
    <3>1. t # s /\ t \in Open /\ t \in Conversations
          BY <1>11, <2>1, <2>2 DEF Granted, Open
    <3>2. recorder'[t].state = "pending" /\ Op("frame", <<t, "output">>) \notin ToSet(Roomless')
          BY <2>2 DEF Granted
    <3>3. recorder[t].state = "pending" /\ Op("frame", <<t, "output">>) \notin ToSet(Roomless)
          BY <1>7, <1>9, <3>1, <3>2
    <3> QED BY <3>1, <3>3 DEF Granted
  <2> QED BY <2>1, <2>2
<1>13. BytesPart'
  <2> DEFINE f == Accepted  g == Accepted'  O == Open  G == Granted  H == Granted'
  <2>1. f \in [Conversations -> Nat] /\ O \in SUBSET Conversations /\ G \in SUBSET O /\ H \in SUBSET G
        BY <1>12, Counts
  <2>2. g \in [Conversations -> Nat]
        BY <1>7 DEF Accepted, Recorders
  <2>3. \A y \in Conversations \ {s} : f[y] = g[y]
        BY <1>7 DEF Accepted
  <2>4. f[s] = n /\ g[s] = (IF HasRoom THEN n + 1 ELSE n)
        BY <1>7 DEF Accepted
  <2>5. s \in O /\ s \notin H
        BY <1>11, <1>12
  <2>6. /\ SumOver(Accepted, Open)' = SumOver(g, O) /\ SumOver(Accepted, Granted)' = SumOver(g, H)
        /\ Cardinality(Waiting)' = Cardinality(Waiting)
        BY <1>11
  <2>7. SumOver(g, O) = SumOver(f, O) + (IF HasRoom THEN 1 ELSE 0) /\ SumOver(f, O) \in Nat
    <3> HIDE DEF f, g, O, G, H
    <3>1. /\ SumOver(f, O) \in Nat /\ SumOver(g, O) \in Nat
          /\ SumOver(f, O) + g[s] = SumOver(g, O) + f[s]
          BY <2>1, <2>2, <2>3, <2>5, Finitely, SumMoves
    <3>2. f[s] \in Nat
          BY <2>1
    <3> QED BY <2>4, <3>1, <3>2
  <2>8. SumOver(g, H) \in Nat /\ SumOver(g, H) <= SumOver(f, G) /\ SumOver(f, G) \in Nat
    <3> HIDE DEF f, g, O, G, H
    <3>1. IsFiniteSet(H) /\ (\A x \in H : f[x] \in Nat /\ g[x] = f[x]) /\ G \in SUBSET Conversations
          BY <2>1, <2>3, <2>5, Finitely, FS_Subset
    <3>2. SumOver(g, H) = SumOver(f, H)
          BY <3>1, SumSame
    <3>3. SumOver(f, H) \in Nat /\ SumOver(f, G) \in Nat /\ SumOver(f, H) <= SumOver(f, G)
          BY <2>1, <3>1, Finitely, SumLess
    <3> QED BY <3>2, <3>3
  <2>9. /\ charged'.ready = charged.ready
        /\ charged'.reserved = charged.reserved + (IF HasRoom THEN 1 ELSE 0)
    <3>1. CASE HasRoom
          BY <1>1, <3>1 DEF RetentionTypes
    <3>2. CASE ~HasRoom
          BY <1>1, <3>2 DEF RetentionTypes
    <3> QED BY <3>1, <3>2
  <2>10. ReadyBytes(Assets)' = ReadyBytes(Assets)
        BY <1>1 DEF ReadyBytes
  <2>11. /\ charged.ready = ReadyBytes(Assets) /\ charged.reserved = Cardinality(Waiting) + SumOver(f, O)
         /\ charged.ready + SumOver(f, G) + Passed <= MaxBytes /\ ReadyBytes(Assets) <= MaxBytes
         /\ charged.ready \in Nat /\ Cardinality(Waiting) \in Nat /\ MaxBytes \in Nat /\ Passed \in Nat
        BY <1>1, RetentionAssumption, Counts, SMTT(30) DEF BytesPart, RetentionTypes
  <2>12. /\ charged'.reserved = Cardinality(Waiting) + SumOver(g, O)
         /\ charged'.ready + SumOver(g, H) + Passed' <= MaxBytes
    <3> HIDE DEF f, g, O, G, H
    <3> QED BY <1>9, <2>7, <2>8, <2>9, <2>11
  <2> QED BY <2>6, <2>9, <2>10, <2>11, <2>12 DEF BytesPart
<1>14. charged' \in [ready : Nat, reserved : Nat]
  <2>1. CASE HasRoom
        BY <1>1, <2>1 DEF RetentionTypes
  <2>2. CASE ~HasRoom
        BY <1>1, <2>2 DEF RetentionTypes
  <2> QED BY <2>1, <2>2
<1>15. Marks
      BY <1>1 DEF Marks
<1>16. \A t \in Conversations :
          /\ recorder[t].finalized => recorder'[t] = recorder[t]
          /\ recorder[t].state = "truncated" => recorder'[t].state = "truncated"
          /\ conv[t] = "none" => recorder'[t] = recorder[t]
      BY <1>1, <1>7
<1> QED BY <1>1, <1>4, <1>5, <1>6, <1>7, <1>8, <1>13, <1>14, <1>15, <1>16, Appending
        DEF RetentionTypes, running

\* A recording is over: its last operation goes behind its frames.
LEMMA FinalizeKeeps ==
  ASSUME RetentionInv, NEW s \in Conversations, Finalize(s) PROVE RetentionInv'
<1> USE DEF RetentionInv
<1> DEFINE a == <<s, "output">>
           o == Op("finalize", a)
           more == <<o>>
<1>1. /\ up # "down" /\ ~recorder[s].finalized /\ (recorder[s].accepted > 0 \/ recorder[s].state = "truncated")
      /\ recorder' = [recorder EXCEPT ![s].finalized = TRUE] /\ ops' = Append(ops, o)
      /\ UNCHANGED <<conv, order, media, up, at, cands, victim, charged, jobs, mishaps>>
      BY DEF Finalize, durable, running
<1>2. a \in Assets /\ o \in Operations /\ o.of = a /\ a[1] = s /\ o.op = "finalize"
      BY OpIs DEF Kinds
<1> HIDE DEF o
<1>3. more \in Seq(Operations) /\ InOrder(more) /\ ToSet(more) = {o} /\ ops' = ops \o more
      BY <1>1, <1>2, OneIs DEF RetentionTypes
<1> HIDE DEF more
<1>4. ASSUME NEW x \in ToSet(ops) PROVE Behind(x, o)
  <2>1. x \in Operations /\ Stands(x, conv, media, recorder)
        BY DEF RetentionTypes, ToSet, OpsPart
  <2>2. x.of = a => x.op # "finalize"
        BY <1>1, <1>2, <2>1 DEF Stands
  <2> QED BY <1>2, <2>2 DEF Behind, Begun
<1>5. /\ recorder' \in [Conversations -> Recorders] /\ recorder'[s].finalized
      /\ \A t \in Conversations : /\ recorder'[t].accepted = recorder[t].accepted
                                  /\ recorder'[t].state = recorder[t].state
                                  /\ t # s => recorder'[t] = recorder[t]
      BY <1>1 DEF RetentionTypes, Recorders
<1>6. conv[s] # "none"
  <2>1. conv[s] = "none" => recorder[s] = NoRecorder
        BY <1>1 DEF RecorderPart
  <2>2. NoRecorder.accepted = 0 /\ NoRecorder.state = "pending"
        BY DEF NoRecorder
  <2> QED BY <1>1, <2>1, <2>2
<1>7. Stands(o, conv', media', recorder')
  <2>1. media[a].row # "ready"
        BY <1>1 DEF RecorderPart
  <2> QED BY <1>1, <1>2, <1>5, <1>6, <2>1 DEF Stands, Begun
<1>8. /\ ToSet(ops') = ToSet(ops) \union {o} /\ ToSet(Roomless') = ToSet(Roomless) \union {o}
      /\ Passed' = Passed
      BY <1>1, <1>3, <1>4, AppendIs
<1>9. \A t : /\ Op("input", <<t, "input">>) # o /\ Op("frame", <<t, "output">>) # o
             /\ t # s => Op("finalize", <<t, "output">>) # o
  <2> TAKE t
  <2>1. /\ Op("input", <<t, "input">>).op = "input" /\ Op("frame", <<t, "output">>).op = "frame"
        /\ Op("finalize", <<t, "output">>).of = <<t, "output">>
        BY DEF Op
  <2> QED BY <1>2, <2>1
<1>10. Open' = Open /\ Waiting' = Waiting /\ Accepted' = Accepted
  <2>1. Open' = Open
    <3>1. s \in Open /\ s \in Open'
          BY <1>1, <1>8 DEF Open, o
    <3>2. \A t \in Conversations \ {s} : t \in Open <=> t \in Open'
          BY <1>5, <1>8, <1>9 DEF Open
    <3> QED BY <3>1, <3>2 DEF Open
  <2>2. Waiting' = Waiting
        BY <1>8, <1>9 DEF Waiting
  <2>3. Accepted' = Accepted
        BY <1>5 DEF Accepted
  <2> QED BY <2>1, <2>2, <2>3
<1>11. Granted' = Granted
  <2>1. Open \subseteq Conversations
        BY DEF Open
  <2> QED BY <1>5, <1>8, <1>9, <1>10, <2>1 DEF Granted
<1>12. BytesPart'
  <2>1. ReadyBytes(Assets)' = ReadyBytes(Assets)
        BY <1>1 DEF ReadyBytes
  <2> QED BY <1>1, <1>8, <1>10, <1>11, <2>1 DEF BytesPart
<1>13. Marks
      BY <1>1 DEF Marks
<1>14. \A t \in Conversations :
          /\ recorder[t].finalized => recorder'[t] = recorder[t]
          /\ recorder[t].state = "truncated" => recorder'[t].state = "truncated"
          /\ conv[t] = "none" => recorder'[t] = recorder[t]
      BY <1>1, <1>5, <1>6
<1>15. /\ conv' \in [Conversations -> {"none", "active", "ended", "deleting", "deleted", "evicted"}]
       /\ order' \in Seq(Conversations) /\ charged' \in [ready : Nat, reserved : Nat]
       /\ jobs' \subseteq Conversations /\ mishaps' \in Nat /\ UNCHANGED <<media, up, running>>
      BY <1>1 DEF RetentionTypes, running
<1>16. /\ \A x \in ToSet(ops), y \in ToSet(more) : Behind(x, y)
       /\ \A y \in ToSet(more) : Stands(y, conv', media', recorder')
      BY <1>3, <1>4, <1>7
<1>17. \A t \in Conversations :
          /\ recorder[t].finalized => recorder'[t] = recorder[t]
          /\ recorder[t].state = "truncated" => recorder'[t].state = "truncated"
          /\ conv[t] = "none" => recorder'[t] = recorder[t]
      BY <1>14
<1> QED BY <1>1, <1>3, <1>5, <1>12, <1>13, <1>15, <1>16, <1>17, Appending

\* The deletions that are scheduled.
LEMMA DeletionsAre ==
  ASSUME NEW S \in SUBSET Conversations, NEW p \in SetToSeqs(S), NEW q,
         q = [i \in DOMAIN p |-> Op("delete", <<p[i], "input">>)]
  PROVE  /\ q \in Seq(Operations) /\ InOrder(q)
         /\ \A y \in ToSet(q) : y.op = "delete" /\ y.of[1] \in S
<1>1. /\ Cardinality(S) \in Nat /\ DOMAIN p = 1..Cardinality(S)
      /\ \A i \in 1..Cardinality(S) : p[i] \in S
  <2>1. Cardinality(S) \in Nat
        BY Finitely, FS_Subset, FS_CardinalityType
  <2> QED BY <2>1 DEF SetToSeqs
<1> DEFINE n == Cardinality(S)
<1> HIDE DEF n
<1>2. DOMAIN q = 1..n /\ q = [i \in 1..n |-> Op("delete", <<p[i], "input">>)] /\ n \in Nat
      BY <1>1 DEF n
<1>3. ASSUME NEW i \in 1..n
      PROVE  q[i] \in Operations /\ q[i].op = "delete" /\ q[i].of[1] \in S
  <2>1. q[i] = Op("delete", <<p[i], "input">>) /\ p[i] \in S
        BY <1>1, <1>2 DEF n
  <2>2. /\ Op("delete", <<p[i], "input">>) \in Operations /\ Op("delete", <<p[i], "input">>).op = "delete"
        /\ Op("delete", <<p[i], "input">>).of = <<p[i], "input">> /\ <<p[i], "input">>[1] = p[i]
    <3>1. p[i] \in Conversations
          BY <2>1
    <3> QED BY <3>1, OpIs DEF Kinds
  <2> QED BY <2>1, <2>2
<1>4. q \in Seq(Operations)
      BY <1>2, <1>3
<1>5. InOrder(q)
      BY <1>2, <1>3 DEF InOrder, Behind, Begun
<1>6. \A y \in ToSet(q) : y.op = "delete" /\ y.of[1] \in S
  <2> SUFFICES ASSUME NEW y \in ToSet(q) PROVE y.op = "delete" /\ y.of[1] \in S
      OBVIOUS
  <2>1. PICK i \in 1..n : y = q[i]
        BY <1>2 DEF ToSet
  <2> QED BY <1>3, <2>1
<1> QED BY <1>4, <1>5, <1>6

\* Deletions are scheduled of what has been marked.
LEMMA Scheduling ==
  ASSUME RetentionInv, up # "down", UNCHANGED <<media, up, running, recorder, charged, mishaps>>, Marks,
         order' \in Seq(Conversations),
         conv' \in [Conversations -> {"none", "active", "ended", "deleting", "deleted", "evicted"}],
         NEW S \in SUBSET Conversations, \A t \in S : conv'[t] = "deleting", Schedules(S)
  PROVE  RetentionInv'
<1> USE DEF RetentionInv
<1>1. PICK p \in SetToSeqs(S \ jobs) : ops' = ops \o [i \in DOMAIN p |-> Op("delete", <<p[i], "input">>)]
      BY DEF Schedules
<1> DEFINE more == [i \in DOMAIN p |-> Op("delete", <<p[i], "input">>)]
<1>2. /\ more \in Seq(Operations) /\ InOrder(more) /\ ops' = ops \o more
      /\ \A y \in ToSet(more) : y.op = "delete" /\ y.of[1] \in S
  <2>1. S \ jobs \in SUBSET Conversations /\ p \in SetToSeqs(S \ jobs)
        OBVIOUS
  <2>2. /\ more \in Seq(Operations) /\ InOrder(more)
        /\ \A y \in ToSet(more) : y.op = "delete" /\ y.of[1] \in S \ jobs
        BY <2>1, DeletionsAre
  <2> QED BY <1>1, <2>2
<1> HIDE DEF more
<1>3. \A x \in ToSet(ops), y \in ToSet(more) : Behind(x, y)
  <2> SUFFICES ASSUME NEW x \in ToSet(ops), NEW y \in ToSet(more) PROVE Behind(x, y)
      OBVIOUS
  <2>1. x \in Operations /\ y \in Operations /\ y.op = "delete"
    <3>1. ToSet(more) \subseteq Operations
          BY <1>2 DEF ToSet
    <3> QED BY <1>2, <3>1 DEF RetentionTypes, ToSet
  <2>2. x.op = "finalize" => y.of # x.of
    <3>1. y.of[2] = "input" /\ (x.op = "finalize" => x.of[2] = "output")
          BY <2>1 DEF Operations
    <3> QED BY <3>1
  <2> QED BY <2>1, <2>2 DEF Behind, Begun
<1>4. \A y \in ToSet(more) : Stands(y, conv', media', recorder')
      BY <1>2 DEF Stands, Begun, Gone
<1>5. /\ ToSet(ops') = ToSet(ops) \union ToSet(more) /\ ToSet(Roomless') = ToSet(Roomless) \union ToSet(more)
      /\ Passed' = Passed
      BY <1>2, <1>3, AppendIs DEF running
<1>6. \A t : /\ Op("input", <<t, "input">>) \notin ToSet(more) /\ Op("finalize", <<t, "output">>) \notin ToSet(more)
             /\ Op("frame", <<t, "output">>) \notin ToSet(more)
      BY <1>2 DEF Op
<1>7. Waiting' = Waiting /\ Open' = Open /\ Accepted' = Accepted
      BY <1>5, <1>6 DEF Waiting, Open, Accepted
<1>8. Granted' = Granted
      BY <1>5, <1>6, <1>7 DEF Granted
<1>9. BytesPart'
  <2>1. ReadyBytes(Assets)' = ReadyBytes(Assets)
        BY DEF ReadyBytes
  <2> QED BY <1>5, <1>7, <1>8, <2>1 DEF BytesPart
<1>10. jobs' \subseteq Conversations
      BY DEF Schedules, RetentionTypes
<1>11. \A t \in Conversations :
          /\ recorder[t].finalized => recorder'[t] = recorder[t]
          /\ recorder[t].state = "truncated" => recorder'[t].state = "truncated"
          /\ conv[t] = "none" => recorder'[t] = recorder[t]
      OBVIOUS
<1>12. /\ charged' \in [ready : Nat, reserved : Nat] /\ mishaps' \in Nat
       /\ recorder' \in [Conversations -> Recorders]
      BY DEF RetentionTypes
<1> QED BY <1>2, <1>3, <1>4, <1>9, <1>10, <1>11, <1>12, Appending

\* Pruning marks the oldest that ended, and schedules every deletion left behind.
LEMMA Pruning ==
  ASSUME RetentionInv, up = "up", UNCHANGED <<media, up, running, recorder, charged, mishaps>>,
         order' \in Seq(Conversations),
         NEW c \in [Conversations -> {"none", "active", "ended", "deleting", "deleted", "evicted"}],
         \A t \in Conversations : c[t] = conv[t] \/ (conv[t] = "active" /\ c[t] = "ended"),
         NEW expired, \A t \in expired : t \in Conversations /\ c[t] = "ended", prunes(c, expired)
  PROVE  RetentionInv'
<1>1. conv' = [s \in Conversations |-> IF s \in expired THEN "deleting" ELSE c[s]]
      BY DEF prunes
<1>2. conv' \in [Conversations -> {"none", "active", "ended", "deleting", "deleted", "evicted"}]
      BY <1>1
<1>3. Marks
      BY <1>1 DEF Marks
<1> DEFINE S == {s \in Conversations : conv'[s] = "deleting"}
<1>4. Schedules(S) /\ S \in SUBSET Conversations /\ \A t \in S : conv'[t] = "deleting"
      BY DEF prunes
<1> HIDE DEF S
<1> QED BY <1>2, <1>3, <1>4, Scheduling

\* A conversation ends, and the oldest may go.
LEMMA FinishKeeps ==
  ASSUME RetentionInv, NEW s \in Conversations, Finish(s) PROVE RetentionInv'
<1> DEFINE c == [conv EXCEPT ![s] = "ended"]
<1>1. /\ up = "up" /\ conv[s] = "active" /\ order' = Append(order, s)
      /\ UNCHANGED <<media, up, running, recorder, charged, mishaps>>
      BY DEF Finish
<1>2. PICK expired \in Expired(c, order', Holding) : prunes(c, expired)
      BY DEF Finish
<1>3. \A t \in expired : t \in Conversations /\ c[t] = "ended"
      BY <1>2 DEF Expired
<1>4. /\ c \in [Conversations -> {"none", "active", "ended", "deleting", "deleted", "evicted"}]
      /\ \A t \in Conversations : c[t] = conv[t] \/ (conv[t] = "active" /\ c[t] = "ended")
      BY <1>1 DEF RetentionInv, RetentionTypes
<1>5. order' \in Seq(Conversations)
      BY <1>1 DEF RetentionInv, RetentionTypes
<1>6. PICK d : d = c
      OBVIOUS
<1>7. prunes(d, expired)
      BY <1>2, <1>6
<1> HIDE DEF c
<1> QED BY <1>1, <1>3, <1>4, <1>5, <1>6, <1>7, Pruning

\* A reader or the timer prunes.
LEMMA PruneKeeps ==
  ASSUME RetentionInv, Prune PROVE RetentionInv'
<1>1. up = "up" /\ UNCHANGED <<order, media, up, running, recorder, charged, mishaps>>
      BY DEF Prune
<1>2. PICK expired \in Expired(conv, order, Holding) : prunes(conv, expired)
      BY DEF Prune
<1>3. \A t \in expired : t \in Conversations /\ conv[t] = "ended"
      BY <1>2 DEF Expired
<1>4. /\ conv \in [Conversations -> {"none", "active", "ended", "deleting", "deleted", "evicted"}]
      /\ order' \in Seq(Conversations)
      BY <1>1 DEF RetentionInv, RetentionTypes
<1>5. PICK d : d = conv
      OBVIOUS
<1>6. prunes(d, expired)
      BY <1>2, <1>5
<1> QED BY <1>1, <1>3, <1>4, <1>5, <1>6, Pruning

\* A conversation is removed.
LEMMA RemoveKeeps ==
  ASSUME RetentionInv, NEW s \in Conversations, removeConversation(s) PROVE RetentionInv'
<1>1. /\ up = "up" /\ conv[s] \in {"ended", "deleting"} /\ conv' = [conv EXCEPT ![s] = "deleting"]
      /\ Schedules({s}) /\ UNCHANGED <<order, media, up, running, recorder, charged, mishaps>>
      BY DEF removeConversation
<1>2. /\ conv' \in [Conversations -> {"none", "active", "ended", "deleting", "deleted", "evicted"}]
      /\ conv'[s] = "deleting" /\ order' \in Seq(Conversations)
      /\ \A t \in Conversations : t # s => conv'[t] = conv[t]
      BY <1>1 DEF RetentionInv, RetentionTypes
<1>3. Marks
      BY <1>1, <1>2 DEF Marks
<1>4. {s} \in SUBSET Conversations /\ \A t \in {s} : conv'[t] = "deleting"
      BY <1>2
<1> QED BY <1>1, <1>2, <1>3, <1>4, Scheduling

-----------------------------------------------------------------------------
(* The queue's operations.                                                 *)

\* What the first operation says.
LEMMA FirstIs ==
  ASSUME RetentionInv, up # "down", ops # <<>>
  PROVE  /\ head \in Operations /\ head \in ToSet(ops) /\ head.op \in Kinds
         /\ head.of \in Assets /\ head.of[1] \in Conversations /\ media[head.of] \in Rows
         /\ recorder[head.of[1]] \in Recorders /\ Stands(head, conv, media, recorder)
         /\ head.op # "delete" => /\ media[head.of].row # "ready"
                                  /\ at # "commit" => media[head.of].file # "kept"
         /\ head.op \notin {"input", "refused", "delete"} => head.of = <<head.of[1], "output">>
         /\ head.op \notin {"input", "finalize"} => [charged EXCEPT !.reserved = @ - Weight(head)] = charged
<1> USE DEF RetentionInv
<1>1. head \in Operations /\ head \in ToSet(ops)
      BY TailOrder DEF RetentionTypes, OpsPart, head
<1>2. /\ head.op \in Kinds /\ head.of \in Assets /\ head.of[1] \in Conversations
      /\ head.of = <<head.of[1], IF head.op \in {"input", "refused", "delete"} THEN "input" ELSE "output">>
      /\ Stands(head, conv, media, recorder)
      BY <1>1, OpOf DEF OpsPart
<1>3. media[head.of] \in Rows /\ recorder[head.of[1]] \in Recorders
      BY <1>2 DEF RetentionTypes
<1>4. head.op # "delete" => media[head.of].row # "ready"
      BY <1>2 DEF Stands
<1>5. head.op # "delete" /\ at # "commit" => media[head.of].file # "kept"
      BY <1>2, <1>4 DEF StoredPart
<1>6. head.op \notin {"input", "finalize"} => [charged EXCEPT !.reserved = @ - Weight(head)] = charged
  <2> SUFFICES ASSUME head.op \notin {"input", "finalize"}
               PROVE  [charged EXCEPT !.reserved = @ - Weight(head)] = charged
      OBVIOUS
  <2>1. Weight(head) = 0
        BY WeightIs
  <2> QED BY <2>1 DEF RetentionTypes
<1> QED BY <1>1, <1>2, <1>3, <1>4, <1>5, <1>6

\* What becomes of a row that may not be there.
LEMMA RowIs ==
  ASSUME RetentionInv, up # "down", ops # <<>>, head.op # "delete", NEW st \in {"missing", "truncated"},
         NEW f, f = Row(head.of, st)
  PROVE  /\ f \in Rows /\ f.row # "ready" /\ f.file = media[head.of].file
         /\ f.row = "none" \/ conv[head.of[1]] \notin {"none", "deleted"}
<1>1. media[head.of] \in Rows /\ head.of \in Assets /\ media[head.of].row # "ready"
      BY FirstIs
<1>2. conv[head.of[1]] \in {"none", "deleted"} => media[head.of].row = "none"
      BY <1>1 DEF RetentionInv, StoredPart
<1>3. CASE media[head.of].row = "none"
      BY <1>1, <1>3 DEF Row
<1>4. CASE media[head.of].row # "none"
  <2>1. f = [media[head.of] EXCEPT !.row = st]
        BY <1>4 DEF Row
  <2> QED BY <1>1, <1>2, <1>4, <2>1 DEF Rows
<1> QED BY <1>3, <1>4

\* Nothing is appended, or that the recording failed.
LEMMA FailsIs ==
  ASSUME RetentionInv, up # "down", ops # <<>>, head.op \notin {"input", "refused", "delete"}
  PROVE  /\ <<>> \in Failures /\ Fails(head.of) \in Failures
         /\ Fails(head.of) # <<>> => Fails(head.of) = <<Op("fail", head.of)>>
<1>1. head.of = <<head.of[1], "output">> /\ head.of[1] \in Conversations
      BY FirstIs
<1>2. <<Op("fail", head.of)>> \in Failures
      BY <1>1 DEF Failures
<1> QED BY <1>2 DEF Failures, Fails

\* The first operation is over at once, nothing being recorded.
LEMMA LeavingStill ==
  ASSUME RetentionInv, up # "down", UNCHANGED <<conv, order, up, jobs, mishaps, recorder>>, ops # <<>>, Leaves(<<>>),
         head.op = "frame" => at = "write" \/ recorder[head.of[1]].state = "truncated",
         \/ media' = media /\ at # "commit"
         \/ \E f \in Rows : /\ f.row # "ready" /\ f.file # "kept" /\ head.op # "delete"
                            /\ f.row = "none" \/ conv[head.of[1]] \notin {"none", "deleted"}
                            /\ media' = [media EXCEPT ![head.of] = f],
         charged' = [charged EXCEPT !.reserved = @ - Weight(head)]
  PROVE  RetentionInv'
<1>1. jobs' \subseteq Conversations /\ mishaps' \in Nat /\ recorder' \in [Conversations -> Recorders]
      BY DEF RetentionInv, RetentionTypes
<1>2. <<>> \in Failures
      BY DEF Failures
<1>3. \A t \in Conversations :
            /\ recorder'[t].finalized = recorder[t].finalized /\ recorder'[t].accepted = recorder[t].accepted
            /\ recorder[t].state = "truncated" => recorder'[t].state = "truncated"
            /\ recorder'[t] # recorder[t] => conv[t] # "none"
      OBVIOUS
<1>4. head.op = "frame" => at = "write" \/ recorder'[head.of[1]].state = "truncated"
      OBVIOUS
<1> QED BY <1>1, <1>2, <1>3, <1>4, Leaving

\* The first operation looks for room.
LEMMA Looking ==
  ASSUME RetentionInv, up # "down", UNCHANGED <<conv, order, up, ops, recorder, charged, jobs, mishaps, victim>>,
         ops # <<>>, at = "next", at' = "room", cands' \subseteq Conversations,
         head.op \in {"input", "init", "frame"},
         \/ media' = media
         \/ \E f \in Rows : /\ f.row # "ready" /\ f.file # "kept"
                            /\ f.row = "none" \/ conv[head.of[1]] \notin {"none", "deleted"}
                            /\ media' = [media EXCEPT ![head.of] = f]
  PROVE  RetentionInv'
<1>1. head' = head /\ victim' \in Conversations \union {Nobody}
      BY DEF head, RetentionInv, RetentionTypes
<1>2. StepPart'
      BY <1>1 DEF StepPart
<1>3. Passed' <= Passed /\ Granted' \subseteq Granted
  <2>1. Passed = 0 /\ Passed' = 0
        BY DEF Passed
  <2> QED BY <2>1, GrantedStays
<1> QED BY <1>1, <1>2, <1>3, Going

\* The first operation is taken up.
LEMMA StartOpKeeps ==
  ASSUME RetentionInv, StartOp PROVE RetentionInv'
<1> DEFINE a == head.of
           rec == recorder[a[1]].state
<1>1. /\ up # "down" /\ ops # <<>> /\ at = "next" /\ UNCHANGED <<conv, order, up, recorder, mishaps>>
      BY DEF StartOp
<1>2. /\ head.op \in Kinds /\ a \in Assets /\ a[1] \in Conversations /\ media[a] \in Rows
      /\ recorder[a[1]] \in Recorders /\ Stands(head, conv, media, recorder)
      /\ head.op # "delete" => media[a].row # "ready" /\ media[a].file # "kept"
      /\ head.op \notin {"input", "finalize"} => [charged EXCEPT !.reserved = @ - Weight(head)] = charged
      BY <1>1, FirstIs
<1>3. Candidates \subseteq Conversations
      BY DEF Candidates, RetentionInv, RetentionTypes, ToSet
<1>4. rec \in {"pending", "truncated"}
      BY <1>2 DEF Recorders
<1>5. head.op \in Begun => conv[a[1]] \notin {"none", "deleted"}
      BY <1>2 DEF Stands, Begun
<1>6. CASE head.op = "input"
  <2> DEFINE f == [media[a] EXCEPT !.row = "pending"]
  <2>1. /\ media' = [media EXCEPT ![a] = f] /\ at' = "room" /\ cands' = Candidates
        /\ UNCHANGED <<ops, victim, charged, jobs>>
        BY <1>6 DEF StartOp, Set
  <2>2. f \in Rows /\ f.row = "pending" /\ f.file # "kept"
        BY <1>2, <1>6 DEF Rows
  <2> HIDE DEF f
  <2> QED BY <1>1, <1>3, <1>5, <1>6, <2>1, <2>2, Looking DEF Begun
<1>7. CASE head.op = "refused"
  <2> DEFINE f == [media[a] EXCEPT !.row = "missing"]
  <2>1. media' = [media EXCEPT ![a] = f] /\ Leaves(<<>>) /\ UNCHANGED <<charged, jobs>>
        BY <1>7 DEF StartOp, Set
  <2>2. f \in Rows /\ f.row = "missing" /\ f.file # "kept"
        BY <1>2, <1>7 DEF Rows
  <2> HIDE DEF f
  <2> QED BY <1>1, <1>2, <1>5, <1>7, <2>1, <2>2, LeavingStill DEF Begun
<1>8. CASE head.op = "init"
  <2> DEFINE f == [media[a] EXCEPT !.row = rec]
  <2>1. /\ media' = [media EXCEPT ![a] = f] /\ UNCHANGED <<charged, jobs>>
        /\ IF rec = "pending" THEN at' = "room" /\ cands' = Candidates /\ UNCHANGED <<ops, victim>>
                              ELSE Leaves(<<>>)
        BY <1>8 DEF StartOp, Set
  <2>2. f \in Rows /\ f.row = rec /\ f.file # "kept"
        BY <1>2, <1>4, <1>8 DEF Rows
  <2> HIDE DEF f
  <2>3. f.row # "ready"
        BY <1>4, <2>2
  <2>4. CASE rec = "pending"
        BY <1>1, <1>3, <1>5, <1>8, <2>1, <2>2, <2>3, <2>4, Looking DEF Begun
  <2>5. CASE rec # "pending"
        BY <1>1, <1>2, <1>5, <1>8, <2>1, <2>2, <2>3, <2>5, LeavingStill DEF Begun
  <2> QED BY <2>4, <2>5
<1>9. CASE head.op = "frame"
  <2>1. /\ UNCHANGED <<media, charged, jobs>>
        /\ IF rec = "pending" THEN at' = "room" /\ cands' = Candidates /\ UNCHANGED <<ops, victim>>
                              ELSE Leaves(<<>>)
        BY <1>9 DEF StartOp
  <2>2. CASE rec = "pending"
        BY <1>1, <1>3, <1>9, <2>1, <2>2, Looking
  <2>3. CASE rec # "pending"
        BY <1>1, <1>2, <1>4, <1>9, <2>1, <2>3, LeavingStill
  <2> QED BY <2>2, <2>3
<1>10. CASE head.op = "fail"
  <2>1. media' = [media EXCEPT ![a] = Row(a, "truncated")] /\ Leaves(<<>>) /\ UNCHANGED <<charged, jobs>>
        BY <1>10 DEF StartOp, Set
  <2>2. PICK f : f = Row(a, "truncated")
        OBVIOUS
  <2>3. /\ f \in Rows /\ f.row # "ready" /\ f.file # "kept"
        /\ f.row = "none" \/ conv[head.of[1]] \notin {"none", "deleted"}
        BY <1>1, <1>2, <1>10, <2>2, RowIs
  <2> QED BY <1>1, <1>2, <1>10, <2>1, <2>2, <2>3, LeavingStill
<1>11. CASE head.op = "finalize" /\ rec = "truncated"
  <2>1. /\ media' = [media EXCEPT ![a] = [Row(a, "truncated") EXCEPT !.file = "none"]] /\ Leaves(<<>>)
        /\ charged' = [charged EXCEPT !.reserved = @ - Weight(head)] /\ UNCHANGED jobs
        BY <1>11 DEF StartOp, Set, Gives
  <2>2. PICK g : g = Row(a, "truncated")
        OBVIOUS
  <2>3. /\ g \in Rows /\ g.row # "ready"
        /\ g.row = "none" \/ conv[head.of[1]] \notin {"none", "deleted"}
        BY <1>1, <1>11, <2>2, RowIs
  <2> DEFINE f == [g EXCEPT !.file = "none"]
  <2>4. f \in Rows /\ f.row = g.row /\ f.file = "none"
        BY <2>3 DEF Rows
  <2>5. media' = [media EXCEPT ![a] = f]
        BY <2>1, <2>2
  <2> HIDE DEF f
  <2> QED BY <1>1, <1>11, <2>1, <2>3, <2>4, <2>5, LeavingStill
<1>12. CASE head.op = "finalize" /\ rec = "pending"
  <2>1. at' = "rename" /\ UNCHANGED <<ops, cands, victim, media, charged, jobs>>
        BY <1>12 DEF StartOp, GoesTo
  <2>2. head' = head /\ cands' \subseteq Conversations /\ victim' \in Conversations \union {Nobody}
        BY <2>1 DEF head, RetentionInv, RetentionTypes
  <2>3. StepPart'
        BY <1>1, <1>12, <2>1, <2>2 DEF StepPart
  <2>4. Passed' <= Passed /\ Granted' \subseteq Granted
    <3>1. Passed = 0 /\ Passed' = 0
          BY <1>1, <1>12, <2>1, <2>2 DEF Passed
    <3> QED BY <1>1, <2>1, <3>1, GrantedStays
  <2> QED BY <1>1, <2>1, <2>2, <2>3, <2>4, Going
<1>13. CASE head.op = "delete"
  <2>1. at' = "unlink" /\ victim' = a[1] /\ UNCHANGED <<ops, cands, media, charged, jobs>>
        BY <1>13 DEF StartOp
  <2>2. head' = head /\ cands' \subseteq Conversations /\ victim' \in Conversations \union {Nobody}
        BY <1>2, <2>1 DEF head, RetentionInv, RetentionTypes
  <2>3. StepPart'
        BY <1>1, <1>2, <1>13, <2>1, <2>2 DEF StepPart, Stands
  <2>4. Passed' <= Passed /\ Granted' \subseteq Granted
    <3>1. Passed = 0 /\ Passed' = 0
          BY <1>1, <2>1 DEF Passed
    <3> QED BY <1>1, <2>1, <3>1, GrantedStays
  <2> QED BY <1>1, <2>1, <2>2, <2>3, <2>4, Going
<1> QED BY <1>2, <1>4, <1>6, <1>7, <1>8, <1>9, <1>10, <1>11, <1>12, <1>13 DEF Kinds

\* No room: the utterance is missing, or the reply is truncated.
LEMMA RefusesKeep ==
  ASSUME RetentionInv, up # "down", at \in {"room", "evict"}, refuses, UNCHANGED <<conv, order, up, jobs>>,
         mishaps' \in Nat
  PROVE  RetentionInv'
<1> DEFINE a == head.of
           s == a[1]
<1>1. ops # <<>> /\ head.op \in {"input", "init", "frame"}
      BY DEF RetentionInv, StepPart
<1>2. /\ s \in Conversations /\ recorder[s] \in Recorders /\ Stands(head, conv, media, recorder)
      /\ media[a].file # "kept"
      /\ head.op \notin {"input", "finalize"} => [charged EXCEPT !.reserved = @ - Weight(head)] = charged
      BY <1>1, FirstIs
<1>3. jobs' \subseteq Conversations /\ recorder \in [Conversations -> Recorders]
      BY DEF RetentionInv, RetentionTypes
<1>4. CASE head.op = "input"
  <2>1. /\ Leaves(<<>>) /\ media' = [media EXCEPT ![a] = Row(a, "missing")]
        /\ charged' = [charged EXCEPT !.reserved = @ - Weight(head)] /\ UNCHANGED recorder
        BY <1>4 DEF refuses, Set, Gives
  <2>2. PICK f : f = Row(a, "missing")
        OBVIOUS
  <2>3. /\ f \in Rows /\ f.row # "ready" /\ f.file # "kept"
        /\ f.row = "none" \/ conv[head.of[1]] \notin {"none", "deleted"}
        BY <1>1, <1>2, <2>2, RowIs
  <2>4. <<>> \in Failures
        BY DEF Failures
  <2>5. \A t \in Conversations :
            /\ recorder'[t].finalized = recorder[t].finalized /\ recorder'[t].accepted = recorder[t].accepted
            /\ recorder[t].state = "truncated" => recorder'[t].state = "truncated"
            /\ recorder'[t] # recorder[t] => conv[t] # "none"
        BY <2>1
  <2>6. recorder' \in [Conversations -> Recorders]
        BY <1>3, <2>1
  <2> QED BY <1>1, <1>3, <1>4, <2>1, <2>2, <2>3, <2>4, <2>5, <2>6, Leaving
<1>5. CASE head.op # "input"
  <2>1. /\ Leaves(Fails(a)) /\ recorder' = [recorder EXCEPT ![s].state = "truncated"]
        /\ UNCHANGED <<media, charged>>
        BY <1>5 DEF refuses
  <2>2. /\ Fails(a) \in Failures
        /\ Fails(a) # <<>> => Fails(a) = <<Op("fail", a)>>
        BY <1>1, <1>5, FailsIs
  <2>3. /\ recorder' \in [Conversations -> Recorders] /\ recorder'[s].state = "truncated"
        /\ \A t \in Conversations :
              /\ recorder'[t].finalized = recorder[t].finalized /\ recorder'[t].accepted = recorder[t].accepted
              /\ recorder[t].state = "truncated" => recorder'[t].state = "truncated"
              /\ t # s => recorder'[t] = recorder[t]
        BY <1>2, <1>3, <2>1 DEF Recorders
  <2>4. conv[s] # "none"
        BY <1>1, <1>2 DEF Stands
  <2>5. \A t \in Conversations :
            /\ recorder'[t].finalized = recorder[t].finalized /\ recorder'[t].accepted = recorder[t].accepted
            /\ recorder[t].state = "truncated" => recorder'[t].state = "truncated"
            /\ recorder'[t] # recorder[t] => conv[t] # "none"
        BY <2>3, <2>4
  <2>6. charged' = [charged EXCEPT !.reserved = @ - Weight(head)]
        BY <1>1, <1>2, <1>5, <2>1
  <2>7. PICK more : more = Fails(a)
        OBVIOUS
  <2>8. /\ more \in Failures /\ Leaves(more)
        /\ more # <<>> => /\ more = <<Op("fail", head.of)>> /\ head.op # "delete"
                          /\ recorder'[head.of[1]].state = "truncated"
    <3>1. Leaves(more)
          BY <2>1, <2>7 DEF Leaves
    <3>2. more # <<>> => more = <<Op("fail", head.of)>>
          BY <2>2, <2>7
    <3> QED BY <1>1, <2>2, <2>3, <2>7, <3>1, <3>2
  <2>9. media' = media /\ at # "commit"
        BY <2>1
  <2> QED BY <1>1, <1>3, <2>3, <2>5, <2>6, <2>8, <2>9, Leaving
<1> QED BY <1>4, <1>5

\* Room is made, or found, or there is none.
LEMMA RoomKeeps ==
  ASSUME RetentionInv, Room PROVE RetentionInv'
<1> USE DEF RetentionInv
<1>1. up # "down" /\ at = "room" /\ UNCHANGED <<order, up, jobs, mishaps>>
      BY DEF Room
<1>2. ops # <<>> /\ head.op \in {"input", "init", "frame"}
      BY <1>1 DEF StepPart
<1> DEFINE worth == {s \in cands \intersect Holding : conv[s] = "ended"}
<1>3. CASE Fits
  <2>1. at' = "write" /\ UNCHANGED <<ops, cands, victim, conv, media, recorder, charged>>
        BY <1>3 DEF Room, GoesTo
  <2>2. head' = head /\ cands' \subseteq Conversations /\ victim' \in Conversations \union {Nobody}
        BY <2>1 DEF head, RetentionTypes
  <2>3. StepPart'
        BY <1>2, <2>1, <2>2 DEF StepPart
  <2> QED BY <1>1, <1>2, <1>3, <2>1, <2>2, <2>3, Going
<1>4. CASE ~Fits /\ worth # {}
  <2>1. PICK s \in Oldest(worth) : at' = "evict" /\ victim' = s /\ cands' = cands \ {s} /\ hides(s)
        BY <1>4 DEF Room
  <2>2. UNCHANGED <<ops, media, recorder, charged>>
        BY <1>4 DEF Room
  <2>3. s \in Conversations /\ conv[s] = "ended" /\ conv' = [conv EXCEPT ![s] = "deleting"]
        BY <2>1 DEF Oldest, hides, RetentionTypes
  <2>4. /\ conv' \in [Conversations -> {"none", "active", "ended", "deleting", "deleted", "evicted"}]
        /\ conv'[s] = "deleting" /\ \A t \in Conversations : t # s => conv'[t] = conv[t]
        BY <2>3 DEF RetentionTypes
  <2>5. Marks
        BY <2>3, <2>4 DEF Marks
  <2>6. RetentionTypes'
        BY <1>1, <2>1, <2>2, <2>3, <2>4 DEF RetentionTypes
  <2>7. head' = head
        BY <2>2 DEF head
  <2>8. StepPart'
        BY <1>2, <2>1, <2>2, <2>3, <2>4, <2>7 DEF StepPart, Gone
  <2>9. OpsPart'
    <3> SUFFICES ASSUME NEW o \in ToSet(ops) PROVE Stands(o, conv', media', recorder')
        BY <2>2 DEF OpsPart
    <3>1. o \in Operations /\ Stands(o, conv, media, recorder)
          BY DEF RetentionTypes, ToSet, OpsPart
    <3> QED BY <2>2, <2>5, <3>1, MarksStand
  <2>10. StoredPart' /\ RecorderPart' /\ DownPart' /\ ReadyBytes(Assets)' = ReadyBytes(Assets)
        BY <1>1, <2>2, <2>5, MarksKeep
  <2>11. BytesPart'
    <3>1. Waiting' = Waiting /\ Open' = Open /\ Accepted' = Accepted
          BY <2>2 DEF Waiting, Open, Accepted
    <3>2. Granted' = Granted /\ Passed = 0 /\ Passed' = 0
          BY <1>1, <2>1, <2>2, GrantedStays DEF Passed
    <3> QED BY <1>1, <2>2, <2>6, <2>10, <3>1, <3>2, BytesStay
  <2> QED BY <2>6, <2>8, <2>9, <2>10, <2>11
<1>5. CASE ~Fits /\ worth = {}
  <2>1. refuses /\ UNCHANGED conv
        BY <1>5 DEF Room
  <2>2. mishaps' \in Nat
        BY <1>1 DEF RetentionTypes
  <2> QED BY <1>1, <2>1, <2>2, RefusesKeep
<1> QED BY <1>3, <1>4, <1>5

\* A file goes, its conversation being hidden.
LEMMA UnlinkKeeps ==
  ASSUME RetentionInv, NEW a \in Assets, Unlink(a) PROVE RetentionInv'
<1> USE DEF RetentionInv
<1>1. /\ up # "down" /\ at \in {"unlink", "evict"} /\ a \in Of(victim)
      /\ media' = [media EXCEPT ![a].file = "none"]
      /\ UNCHANGED <<conv, order, up, ops, at, cands, victim, recorder, charged, jobs, mishaps>>
      BY DEF Unlink, running
<1>2. /\ media' \in [Assets -> Rows] /\ media'[a].file = "none"
      /\ \A b \in Assets : /\ media'[b].row = media[b].row /\ media'[b].bytes = media[b].bytes
                           /\ b # a => media'[b] = media[b]
      BY <1>1 DEF RetentionTypes, Rows
<1>3. RetentionTypes'
      BY <1>1, <1>2 DEF RetentionTypes
<1>4. head' = head /\ at' = at
      BY <1>1 DEF head
<1>5. StepPart'
      BY <1>1, <1>4 DEF StepPart
<1>6. OpsPart'
  <2> SUFFICES ASSUME NEW o \in ToSet(ops) PROVE Stands(o, conv', media', recorder')
      BY <1>1 DEF OpsPart
  <2>1. o \in Operations /\ Stands(o, conv, media, recorder)
        BY DEF RetentionTypes, ToSet, OpsPart
  <2>2. o.of \in Assets /\ o.of[1] \in Conversations
        BY <2>1, OpOf
  <2> QED BY <1>1, <1>2, <2>1, <2>2, StandsOn
<1>7. StoredPart'
  <2>1. conv[a[1]] \in Gone
        BY <1>1 DEF StepPart, Of
  <2>2. conv' = conv /\ up' = up
        BY <1>1
  <2> SUFFICES ASSUME NEW b \in Assets
               PROVE  /\ media'[b].row = "ready" => media'[b].file = "kept" \/ conv[b[1]] \in Gone
                      /\ conv[b[1]] \in {"none", "deleted"} => media'[b].row = "none"
                      /\ media'[b].file = "kept" => media'[b].row = "ready" \/ (at = "commit" /\ head.of = b)
      BY <1>4, <2>2 DEF StoredPart, Gone
  <2>3. CASE b = a
        BY <1>2, <2>1, <2>3 DEF StoredPart
  <2>4. CASE b # a
        BY <1>1, <1>2, <2>4 DEF StoredPart
  <2> QED BY <2>3, <2>4
<1>8. RecorderPart'
  <2>1. \A s \in Conversations : <<s, "output">> \in Assets
        BY DEF Assets
  <2> QED BY <1>1, <1>2, <2>1 DEF RecorderPart
<1>9. BytesPart'
  <2>1. ReadyBytes(Assets)' = ReadyBytes(Assets)
        BY <1>2, <1>3, ReadyStays
  <2>2. Waiting' = Waiting /\ Open' = Open /\ Accepted' = Accepted
        BY <1>1 DEF Waiting, Open, Accepted
  <2>3. Granted' = Granted /\ Passed' = 0 /\ Passed = 0
        BY <1>1, GrantedStays DEF Passed
  <2> QED BY <1>1, <1>3, <2>1, <2>2, <2>3, BytesStay
<1> QED BY <1>1, <1>3, <1>5, <1>6, <1>7, <1>8, <1>9 DEF DownPart

\* The rows go, and what they were charged.
LEMMA RowsGoKeeps ==
  ASSUME RetentionInv, RowsGo PROVE RetentionInv'
<1> USE DEF RetentionInv
<1>1. /\ up # "down" /\ at \in {"unlink", "evict"}
      /\ \A a \in Of(victim) : ~(media[a].row = "ready" /\ media[a].file = "kept")
      /\ media' = [a \in Assets |-> IF a \in Of(victim)
                                    THEN [NoRow EXCEPT !.file = media[a].file] ELSE media[a]]
      /\ charged' = [charged EXCEPT !.ready = @ - ReadyBytes(Of(victim))]
      /\ at' = IF at = "evict" THEN "evicted" ELSE "unlinked"
      /\ UNCHANGED <<conv, order, up, ops, cands, victim, recorder, jobs, mishaps>>
      BY DEF RowsGo
<1>2. victim \in Conversations /\ conv[victim] \in Gone /\ Of(victim) \subseteq Assets
      BY <1>1, Finitely DEF StepPart
<1>3. /\ media' \in [Assets -> Rows]
      /\ \A a \in Of(victim) : media'[a].row = "none" /\ media'[a].file # "kept"
      /\ \A a \in Assets \ Of(victim) : media'[a] = media[a]
  <2>1. media \in [Assets -> Rows]
        BY DEF RetentionTypes
  <2>2. ASSUME NEW a \in Of(victim)
        PROVE  /\ [NoRow EXCEPT !.file = media[a].file] \in Rows
               /\ media'[a] = [NoRow EXCEPT !.file = media[a].file]
               /\ media'[a].row = "none" /\ media'[a].file = media[a].file /\ media[a].file # "kept"
    <3>1. a \in Assets /\ media[a] \in Rows
          BY <1>2, <2>1
    <3>2. media[a].file # "kept"
          BY <1>1, <3>1 DEF StoredPart
    <3> QED BY <1>1, <3>1, <3>2 DEF NoRow, Rows
  <2>3. \A a \in Assets : (IF a \in Of(victim) THEN [NoRow EXCEPT !.file = media[a].file] ELSE media[a]) \in Rows
        BY <2>1, <2>2
  <2> QED BY <1>1, <2>2, <2>3
<1>4. head' = head
      BY <1>1 DEF head
<1> DEFINE f == [a \in Assets |-> media[a].bytes]
           g == [a \in Assets |-> media'[a].bytes]
           S == {a \in Assets : media[a].row = "ready"}
           U == {a \in Of(victim) : media[a].row = "ready"}
           T == {a \in Assets : media'[a].row = "ready"}
<1>5. /\ ReadyBytes(Assets) = SumOver(f, S) /\ ReadyBytes(Of(victim)) = SumOver(f, U)
      /\ ReadyBytes(Assets)' = SumOver(g, T)
      BY DEF ReadyBytes
<1>6. /\ S \in SUBSET Assets /\ U \in SUBSET S /\ T = S \ U
      /\ f \in [Assets -> Nat] /\ (\A a \in T : f[a] \in Nat /\ g[a] = f[a])
  <2>1. S \in SUBSET Assets /\ U \in SUBSET S
        BY <1>2
  <2>2. T = S \ U
        BY <1>3
  <2>3. f \in [Assets -> Nat]
        BY DEF RetentionTypes, Rows
  <2>4. \A a \in T : g[a] = f[a]
        BY <1>3
  <2> QED BY <2>1, <2>2, <2>3, <2>4
<1>7. /\ SumOver(f, S) \in Nat /\ SumOver(f, U) \in Nat /\ SumOver(g, T) \in Nat
      /\ SumOver(f, S) = SumOver(f, U) + SumOver(g, T)
  <2> HIDE DEF f, g, S, U, T
  <2>1. IsFiniteSet(S) /\ IsFiniteSet(T)
        BY <1>6, Finitely, FS_Subset
  <2>2. SumOver(g, T) = SumOver(f, T)
        BY <1>6, <2>1, SumSame
  <2>3. /\ SumOver(f, S) \in Nat /\ SumOver(f, U) \in Nat /\ SumOver(f, S \ U) \in Nat
        /\ SumOver(f, S) = SumOver(f, U) + SumOver(f, S \ U)
    <3>1. f \in [Assets -> Nat] /\ IsFiniteSet(Assets) /\ S \in SUBSET Assets /\ U \in SUBSET S
          BY <1>6, Finitely
    <3> QED BY ONLY <3>1, SumParts
  <2> QED BY <1>6, <2>2, <2>3
<1> HIDE DEF f, g, S, U, T
<1>8. /\ charged.ready = SumOver(f, S) /\ SumOver(f, S) <= MaxBytes
      /\ charged'.ready = charged.ready - SumOver(f, U) /\ charged'.reserved = charged.reserved
      /\ charged' \in [ready : Nat, reserved : Nat]
  <2>1. charged.ready = SumOver(f, S) /\ SumOver(f, S) <= MaxBytes /\ charged \in [ready : Nat, reserved : Nat]
        BY <1>1, <1>5 DEF BytesPart, RetentionTypes
  <2>2. charged' = [charged EXCEPT !.ready = @ - SumOver(f, U)]
        BY <1>1, <1>5
  <2>3. charged.ready - SumOver(f, U) \in Nat
        BY <1>7, <2>1
  <2> QED BY <2>1, <2>2, <2>3
<1>9. RetentionTypes'
      BY <1>1, <1>3, <1>8 DEF RetentionTypes
<1>10. StepPart'
      BY <1>1, <1>2, <1>3, <1>4 DEF StepPart
<1>11. OpsPart'
  <2> SUFFICES ASSUME NEW o \in ToSet(ops) PROVE Stands(o, conv', media', recorder')
      BY <1>1 DEF OpsPart
  <2>1. o \in Operations /\ Stands(o, conv, media, recorder)
        BY DEF RetentionTypes, ToSet, OpsPart
  <2>2. o.of \in Assets /\ o.of[1] \in Conversations
        BY <2>1, OpOf
  <2>3. media'[o.of].row = "ready" => media[o.of].row = "ready"
        BY <1>3, <2>2
  <2> QED BY <1>1, <2>1, <2>2, <2>3, StandsOn
<1>12. StoredPart'
  <2>1. conv' = conv /\ up' = up
        BY <1>1
  <2> SUFFICES ASSUME NEW b \in Assets
               PROVE  /\ media'[b].row = "ready" => media'[b].file = "kept" \/ conv[b[1]] \in Gone
                      /\ conv[b[1]] \in {"none", "deleted"} => media'[b].row = "none"
                      /\ media'[b].file = "kept" => media'[b].row = "ready"
      BY <2>1 DEF StoredPart, Gone
  <2>2. CASE b \in Of(victim)
        BY <1>3, <2>2
  <2>3. CASE b \notin Of(victim)
        BY <1>1, <1>3, <2>3 DEF StoredPart
  <2> QED BY <2>2, <2>3
<1>13. RecorderPart'
  <2> SUFFICES ASSUME NEW s \in Conversations
               PROVE  /\ conv[s] = "none" => recorder[s] = NoRecorder
                      /\ ~recorder[s].finalized => media'[<<s, "output">>].row # "ready"
      BY <1>1 DEF RecorderPart, NoRecorder
  <2>1. <<s, "output">> \in Assets
        BY DEF Assets
  <2>2. media'[<<s, "output">>].row = "ready" => media[<<s, "output">>].row = "ready"
        BY <1>3, <2>1
  <2> QED BY <1>1, <2>2 DEF RecorderPart
<1>14. BytesPart'
  <2>1. Waiting' = Waiting /\ Open' = Open /\ Accepted' = Accepted
        BY <1>1 DEF Waiting, Open, Accepted
  <2>2. Granted' = Granted /\ Passed' = 0 /\ Passed = 0
        BY <1>1, GrantedStays DEF Passed
  <2>3. /\ charged.reserved = Cardinality(Waiting) + SumOver(Accepted, Open)
        /\ charged.ready + SumOver(Accepted, Granted) + 0 <= MaxBytes
        BY <1>1, <2>2 DEF BytesPart
  <2>4. /\ charged'.reserved = Cardinality(Waiting)' + SumOver(Accepted, Open)'
        /\ SumOver(Accepted, Granted)' = SumOver(Accepted, Granted) /\ SumOver(Accepted, Granted) \in Nat
        BY <1>8, <2>1, <2>2, <2>3, Counts
  <2>5. /\ charged'.ready = SumOver(g, T) /\ SumOver(g, T) <= MaxBytes
        /\ charged'.ready + SumOver(Accepted, Granted)' + 0 <= MaxBytes
        BY <1>7, <1>8, <2>3, <2>4, RetentionAssumption
  <2> QED BY <1>5, <2>2, <2>4, <2>5 DEF BytesPart
<1> QED BY <1>1, <1>9, <1>10, <1>11, <1>12, <1>13, <1>14 DEF DownPart

\* The conversation is forgotten, its rows being gone.
LEMMA ForgetKeeps ==
  ASSUME RetentionInv, Forget PROVE RetentionInv'
<1> USE DEF RetentionInv
<1>1. /\ up # "down" /\ at \in {"unlinked", "evicted"}
      /\ conv' = [conv EXCEPT ![victim] =
                    IF @ # "deleting" THEN @ ELSE IF at = "evicted" THEN "evicted" ELSE "deleted"]
      /\ UNCHANGED <<order, media, up, recorder, charged, mishaps>>
      BY DEF Forget
<1>2. /\ victim \in Conversations /\ conv[victim] \in Gone /\ ops # <<>>
      /\ \A a \in Of(victim) : media[a].row = "none"
      /\ at = "unlinked" => head.op = "delete" /\ victim = head.of[1]
      /\ at = "evicted" => head.op \in {"input", "init", "frame"}
      BY <1>1 DEF StepPart
<1>3. /\ conv' \in [Conversations -> {"none", "active", "ended", "deleting", "deleted", "evicted"}]
      /\ conv'[victim] \in Gone /\ (conv'[victim] = "deleted" => at = "unlinked" \/ conv[victim] = "deleted")
      /\ \A t \in Conversations : t # victim => conv'[t] = conv[t]
      BY <1>1, <1>2 DEF RetentionTypes, Gone
<1>4. \A a \in Assets : a[1] \in Conversations /\ (a[1] = victim => a \in Of(victim))
      BY DEF Assets, Of
<1>5. ASSUME NEW o \in Operations, Stands(o, conv, media, recorder),
             o.of[1] = victim /\ at = "unlinked" => o.op \notin Begun
      PROVE  Stands(o, conv', media', recorder')
  <2>1. o.of[1] \in Conversations
        BY OpOf
  <2> QED BY <1>1, <1>2, <1>3, <1>5, <2>1 DEF Stands, Gone
<1>6. StoredPart'
  <2> SUFFICES ASSUME NEW b \in Assets
               PROVE  /\ media[b].row = "ready" => media[b].file = "kept" \/ conv'[b[1]] \in Gone
                      /\ conv'[b[1]] \in {"none", "deleted"} => media[b].row = "none"
                      /\ media[b].file = "kept" => media[b].row = "ready"
      BY <1>1 DEF StoredPart
  <2>1. /\ media[b].row = "ready" => media[b].file = "kept" \/ conv[b[1]] \in Gone
        /\ conv[b[1]] \in {"none", "deleted"} => media[b].row = "none"
        /\ media[b].file = "kept" => media[b].row = "ready"
        BY <1>1 DEF StoredPart
  <2>2. CASE b[1] = victim
        BY <1>2, <1>3, <1>4, <2>1, <2>2
  <2>3. CASE b[1] # victim
        BY <1>3, <1>4, <2>1, <2>3
  <2> QED BY <2>2, <2>3
<1>7. RecorderPart'
  <2>1. \A s \in Conversations : conv'[s] = "none" => conv[s] = "none"
        BY <1>3 DEF Gone
  <2> QED BY <1>1, <2>1 DEF RecorderPart, NoRecorder
<1>8. DownPart' /\ ReadyBytes(Assets)' = ReadyBytes(Assets)
      BY <1>1 DEF DownPart, ReadyBytes
<1>9. CASE at = "evicted"
  <2>1. at' = "room" /\ victim' = Nobody /\ UNCHANGED <<ops, cands, jobs>>
        BY <1>9 DEF Forget
  <2>2. RetentionTypes'
        BY <1>1, <1>3, <2>1 DEF RetentionTypes
  <2>3. head' = head
        BY <2>1 DEF head
  <2>4. StepPart'
        BY <1>2, <1>9, <2>1, <2>3 DEF StepPart
  <2>5. OpsPart'
    <3> SUFFICES ASSUME NEW o \in ToSet(ops) PROVE Stands(o, conv', media', recorder')
        BY <2>1 DEF OpsPart
    <3>1. o \in Operations /\ Stands(o, conv, media, recorder)
          BY DEF RetentionTypes, ToSet, OpsPart
    <3> QED BY <1>5, <1>9, <3>1
  <2>6. BytesPart'
    <3>1. Waiting' = Waiting /\ Open' = Open /\ Accepted' = Accepted
          BY <1>1, <2>1 DEF Waiting, Open, Accepted
    <3>2. Granted' = Granted /\ Passed = 0 /\ Passed' = 0
          BY <1>1, <1>9, <2>1, GrantedStays DEF Passed
    <3> QED BY <1>1, <1>8, <2>2, <3>1, <3>2, BytesStay
  <2> QED BY <1>6, <1>7, <1>8, <2>2, <2>4, <2>5, <2>6
<1>10. CASE at = "unlinked"
  <2>1. Leaves(<<>>) /\ jobs' = jobs \ {victim}
        BY <1>10 DEF Forget
  <2>2. ops' = Tail(ops) \o <<>> /\ at' = "next" /\ victim' = Nobody /\ cands' = {}
        BY <2>1 DEF Leaves
  <2>3. <<>> \in Failures /\ ToSet(<<>>) = {}
        BY DEF Failures, ToSet
  <2>4. /\ ops' \in Seq(Operations) /\ InOrder(ops')
        /\ ToSet(ops') = ToSet(Tail(ops)) /\ ToSet(ops) = ToSet(Tail(ops)) \union {head}
        /\ \A y \in ToSet(Tail(ops)) : y \in Operations /\ Behind(head, y)
        BY <1>2, <2>2, <2>3, LeavesIs
  <2>5. RetentionTypes'
        BY <1>1, <1>3, <2>1, <2>2, <2>4 DEF RetentionTypes
  <2>6. StepPart'
        BY <2>2 DEF StepPart
  <2>7. OpsPart'
    <3> SUFFICES ASSUME NEW o \in ToSet(Tail(ops)) PROVE Stands(o, conv', media', recorder')
        BY <2>4 DEF OpsPart
    <3>1. o \in Operations /\ Stands(o, conv, media, recorder)
          BY <2>4 DEF OpsPart
    <3>2. o.of[1] = victim => o.op \notin Begun
          BY <1>2, <1>10, <2>4 DEF Behind
    <3> QED BY <1>5, <3>1, <3>2
  <2>8. BytesPart'
    <3>1. head.op = "delete" /\ head.op # "frame"
          BY <1>2, <1>10
    <3>2. charged' = [charged EXCEPT !.reserved = @ - Weight(head)]
          BY <1>1, <1>2, <3>1, FirstIs
    <3>3. \A t \in Conversations : /\ recorder'[t].finalized = recorder[t].finalized
                                   /\ recorder'[t].accepted = recorder[t].accepted
                                   /\ recorder[t].state = "truncated" => recorder'[t].state = "truncated"
          BY <1>1
    <3> QED BY <1>1, <1>2, <1>8, <2>2, <2>3, <2>5, <3>1, <3>2, <3>3, BytesLeave
  <2> QED BY <1>6, <1>7, <1>8, <2>5, <2>6, <2>7, <2>8
<1> QED BY <1>1, <1>9, <1>10

\* A file cannot be removed.
LEMMA UnlinkFailsKeeps ==
  ASSUME RetentionInv, UnlinkFails PROVE RetentionInv'
<1>1. /\ up # "down" /\ at \in {"unlink", "evict"} /\ mishaps' = mishaps + 1
      /\ UNCHANGED <<conv, order, up>>
      BY DEF UnlinkFails
<1>2. mishaps' \in Nat /\ ops # <<>>
      BY <1>1 DEF RetentionInv, RetentionTypes, StepPart
<1>3. CASE at = "evict"
  <2>1. refuses /\ UNCHANGED jobs
        BY <1>3 DEF UnlinkFails
  <2> QED BY <1>1, <1>2, <1>3, <2>1, RefusesKeep
<1>4. CASE at = "unlink"
  <2>1. Leaves(<<>>) /\ jobs' = jobs \ {victim} /\ UNCHANGED <<media, recorder, charged>>
        BY <1>4 DEF UnlinkFails
  <2>2. head.op = "delete"
        BY <1>4 DEF RetentionInv, StepPart
  <2>3. jobs' \subseteq Conversations /\ recorder' \in [Conversations -> Recorders]
        BY <2>1 DEF RetentionInv, RetentionTypes
  <2>4. charged' = [charged EXCEPT !.reserved = @ - Weight(head)]
        BY <1>1, <1>2, <2>1, <2>2, FirstIs
  <2>5. \A t \in Conversations :
            /\ recorder'[t].finalized = recorder[t].finalized /\ recorder'[t].accepted = recorder[t].accepted
            /\ recorder[t].state = "truncated" => recorder'[t].state = "truncated"
            /\ recorder'[t] # recorder[t] => conv[t] # "none"
        BY <2>1
  <2>6. <<>> \in Failures
        BY DEF Failures
  <2> QED BY <1>1, <1>2, <1>4, <2>1, <2>2, <2>3, <2>4, <2>5, <2>6, Leaving
<1> QED BY <1>1, <1>3, <1>4

\* The bytes are written.
LEMMA WriteTempKeeps ==
  ASSUME RetentionInv, WriteTemp PROVE RetentionInv'
<1> DEFINE a == head.of
           f == [media[a] EXCEPT !.file = "temp"]
<1>1. /\ up # "down" /\ at = "write" /\ media' = [media EXCEPT ![a] = f]
      /\ UNCHANGED <<conv, order, up, recorder, charged, jobs, mishaps>>
      BY DEF WriteTemp
<1>2. ops # <<>> /\ head.op \in {"input", "init", "frame"}
      BY <1>1 DEF RetentionInv, StepPart
<1>3. /\ media[a] \in Rows /\ media[a].row # "ready" /\ Stands(head, conv, media, recorder)
      /\ head.op \notin {"input", "finalize"} => [charged EXCEPT !.reserved = @ - Weight(head)] = charged
      BY <1>1, <1>2, FirstIs
<1>4. f \in Rows /\ f.row # "ready" /\ f.file = "temp" /\ conv[a[1]] \notin {"none", "deleted"}
      BY <1>2, <1>3 DEF Rows, Stands, Begun
<1> HIDE DEF f
<1>5. CASE head.op = "input"
  <2>1. at' = "rename" /\ UNCHANGED <<ops, cands, victim>>
        BY <1>5 DEF WriteTemp, GoesTo
  <2>2. head' = head /\ cands' \subseteq Conversations /\ victim' \in Conversations \union {Nobody}
        BY <2>1 DEF head, RetentionInv, RetentionTypes
  <2>3. StepPart'
        BY <1>2, <1>5, <2>1, <2>2 DEF StepPart
  <2>4. Passed' <= Passed
        BY <1>1, <1>5, <2>1, <2>2 DEF Passed
  <2>5. Granted' \subseteq Granted
    <3>1. Open' = Open
          BY <1>1, <2>1 DEF Open
    <3>2. ToSet(Roomless') = ToSet(Roomless) \union {head}
      <4>1. Roomless' = ops /\ Roomless = Tail(ops)
            BY <1>1, <2>1 DEF Roomless
      <4> QED BY <1>2, <4>1, TailOrder DEF RetentionInv, RetentionTypes, OpsPart, head
    <3> QED BY <1>1, <3>1, <3>2 DEF Granted
  <2> QED BY <1>1, <1>2, <1>4, <1>5, <2>1, <2>2, <2>3, <2>4, <2>5, Going
<1>6. CASE head.op # "input"
  <2>1. Leaves(<<>>)
        BY <1>6 DEF WriteTemp
  <2>2. charged' = [charged EXCEPT !.reserved = @ - Weight(head)]
        BY <1>1, <1>2, <1>3, <1>6
  <2> QED BY <1>1, <1>2, <1>4, <2>1, <2>2, LeavingStill
<1> QED BY <1>5, <1>6

\* The file takes its name.
LEMMA RenameKeeps ==
  ASSUME RetentionInv, Rename PROVE RetentionInv'
<1> DEFINE a == head.of
           f == [media[a] EXCEPT !.file = "kept"]
<1>1. /\ up # "down" /\ at = "rename" /\ media' = [media EXCEPT ![a] = f]
      /\ at' = "commit" /\ UNCHANGED <<ops, cands, victim>>
      /\ UNCHANGED <<conv, order, up, recorder, charged, jobs, mishaps>>
      BY DEF Rename, GoesTo
<1>2. /\ ops # <<>>
      /\ \/ head.op = "input"
         \/ head.op = "finalize" /\ recorder[head.of[1]].state = "pending"
      BY <1>1 DEF RetentionInv, StepPart
<1>3. media[a] \in Rows /\ a \in Assets /\ media[a].row # "ready" /\ head.op # "delete"
      BY <1>1, <1>2, FirstIs
<1>4. /\ f \in Rows /\ f.row = media[a].row
      /\ f.row = "none" \/ conv[a[1]] \notin {"none", "deleted"}
      BY <1>3 DEF Rows, RetentionInv, StoredPart
<1> HIDE DEF f
<1>5. f.row # "ready"
      BY <1>3, <1>4
<1>6. head' = head /\ cands' \subseteq Conversations /\ victim' \in Conversations \union {Nobody}
      BY <1>1 DEF head, RetentionInv, RetentionTypes
<1>7. StepPart'
      BY <1>1, <1>2, <1>6 DEF StepPart
<1>8. Passed' <= Passed
      BY <1>1, <1>6 DEF Passed
<1>9. Granted' \subseteq Granted
      BY <1>1, GrantedStays
<1> QED BY <1>1, <1>2, <1>3, <1>4, <1>5, <1>6, <1>7, <1>8, <1>9, Going

\* The disk fails, and what was written goes.
LEMMA DiskFailsKeeps ==
  ASSUME RetentionInv, DiskFails PROVE RetentionInv'
<1> DEFINE a == head.of
           s == a[1]
<1>1. /\ up # "down" /\ at \in {"write", "rename", "commit"} /\ mishaps' = mishaps + 1
      /\ UNCHANGED <<conv, order, up, jobs>>
      BY DEF DiskFails
<1>2. /\ ops # <<>> /\ head.op \in {"input", "finalize", "init", "frame"}
      /\ head.op \notin {"input", "finalize"} => at = "write"
      BY <1>1 DEF RetentionInv, StepPart
<1>3. /\ mishaps' \in Nat /\ jobs' \subseteq Conversations /\ recorder \in [Conversations -> Recorders]
      BY <1>1 DEF RetentionInv, RetentionTypes
<1>4. /\ s \in Conversations /\ recorder[s] \in Recorders /\ Stands(head, conv, media, recorder)
      /\ media[a] \in Rows /\ media[a].row # "ready" /\ (at # "commit" => media[a].file # "kept")
      /\ head.op \notin {"input", "finalize"} => [charged EXCEPT !.reserved = @ - Weight(head)] = charged
      /\ a \in Assets
      BY <1>1, <1>2, FirstIs
<1>5. CASE head.op \in {"input", "finalize"}
  <2>1. /\ media' = [media EXCEPT ![a] = [Row(a, "missing") EXCEPT !.file = "none"]] /\ Leaves(<<>>)
        /\ charged' = [charged EXCEPT !.reserved = @ - Weight(head)] /\ UNCHANGED recorder
        BY <1>5 DEF DiskFails, Set, Gives
  <2>2. PICK g : g = Row(a, "missing")
        OBVIOUS
  <2>3. /\ g \in Rows /\ g.row # "ready"
        /\ g.row = "none" \/ conv[head.of[1]] \notin {"none", "deleted"}
        BY <1>1, <1>2, <2>2, RowIs
  <2> DEFINE f == [g EXCEPT !.file = "none"]
  <2>4. f \in Rows /\ f.row = g.row /\ f.file = "none"
        BY <2>3 DEF Rows
  <2>5. media' = [media EXCEPT ![a] = f]
        BY <2>1, <2>2
  <2> HIDE DEF f
  <2>6. <<>> \in Failures
        BY DEF Failures
  <2>7. \A t \in Conversations :
            /\ recorder'[t].finalized = recorder[t].finalized /\ recorder'[t].accepted = recorder[t].accepted
            /\ recorder[t].state = "truncated" => recorder'[t].state = "truncated"
            /\ recorder'[t] # recorder[t] => conv[t] # "none"
        BY <2>1
  <2>8. recorder' \in [Conversations -> Recorders]
        BY <1>3, <2>1
  <2> QED BY <1>1, <1>2, <1>3, <1>5, <2>1, <2>3, <2>4, <2>5, <2>6, <2>7, <2>8, Leaving
<1>6. CASE head.op \notin {"input", "finalize"}
  <2>1. /\ media' = [media EXCEPT ![a] = IF head.op = "init" THEN Row(a, "truncated") ELSE media[a]]
        /\ recorder' = [recorder EXCEPT ![s].state = "truncated"]
        /\ Leaves(Fails(a)) /\ UNCHANGED charged
        BY <1>6 DEF DiskFails, Set
  <2>2. PICK g : g = Row(a, "truncated")
        OBVIOUS
  <2>3. /\ g \in Rows /\ g.row # "ready" /\ g.file = media[a].file
        BY <1>1, <1>2, <2>2, RowIs
  <2>4. PICK f : f = IF head.op = "init" THEN g ELSE media[a]
        OBVIOUS
  <2>5. conv[a[1]] \notin {"none", "deleted"}
        BY <1>2, <1>4, <1>6 DEF Stands, Begun
  <2>6. /\ f \in Rows /\ f.row # "ready" /\ f.file # "kept"
        BY <1>2, <1>4, <1>6, <2>3, <2>4
  <2>7. media' = [media EXCEPT ![a] = f]
        BY <2>1, <2>2, <2>4
  <2>8. /\ Fails(a) \in Failures
        /\ Fails(a) # <<>> => Fails(a) = <<Op("fail", a)>>
        BY <1>1, <1>2, <1>6, FailsIs
  <2>9. /\ recorder' \in [Conversations -> Recorders] /\ recorder'[s].state = "truncated"
        /\ \A t \in Conversations :
              /\ recorder'[t].finalized = recorder[t].finalized /\ recorder'[t].accepted = recorder[t].accepted
              /\ recorder[t].state = "truncated" => recorder'[t].state = "truncated"
              /\ t # s => recorder'[t] = recorder[t]
        BY <1>3, <1>4, <2>1 DEF Recorders
  <2>10. \A t \in Conversations :
            /\ recorder'[t].finalized = recorder[t].finalized /\ recorder'[t].accepted = recorder[t].accepted
            /\ recorder[t].state = "truncated" => recorder'[t].state = "truncated"
            /\ recorder'[t] # recorder[t] => conv[t] # "none"
        BY <2>5, <2>9
  <2>11. charged' = [charged EXCEPT !.reserved = @ - Weight(head)]
        BY <1>4, <1>6, <2>1
  <2>12. PICK more : more = Fails(a)
        OBVIOUS
  <2>13. /\ more \in Failures /\ Leaves(more)
         /\ more # <<>> => /\ more = <<Op("fail", head.of)>> /\ head.op # "delete"
                           /\ recorder'[head.of[1]].state = "truncated"
    <3>1. Leaves(more)
          BY <2>1, <2>12 DEF Leaves
    <3> QED BY <1>2, <2>8, <2>9, <2>12, <3>1
  <2> QED BY <1>1, <1>2, <1>3, <1>6, <2>5, <2>6, <2>7, <2>9, <2>10, <2>11, <2>13, Leaving
<1> QED BY <1>5, <1>6

\* The row becomes ready if it is still there, and its bytes are charged.
LEMMA CommitKeeps ==
  ASSUME RetentionInv, Commit PROVE RetentionInv'
<1> USE DEF RetentionInv
<1> DEFINE a == head.of
           s == a[1]
           w == Weight(head)
           f == [row |-> "ready", file |-> "kept", bytes |-> w]
<1>1. /\ up # "down" /\ at = "commit" /\ Leaves(<<>>)
      /\ UNCHANGED <<conv, order, up, recorder, jobs, mishaps>>
      BY DEF Commit
<1>2. /\ ops # <<>>
      /\ \/ head.op = "input"
         \/ head.op = "finalize" /\ recorder[s].state = "pending"
      BY <1>1 DEF StepPart
<1>3. /\ media[a] \in Rows /\ a \in Assets /\ media[a].row # "ready" /\ s \in Conversations
      /\ Stands(head, conv, media, recorder) /\ head \in Operations
      BY <1>1, <1>2, FirstIs
<1>4. CASE media[a].row # "pending"
  <2> DEFINE h == [media[a] EXCEPT !.file = "none"]
  <2>1. media' = [media EXCEPT ![a] = h] /\ charged' = [charged EXCEPT !.reserved = @ - Weight(head)]
        BY <1>4 DEF Commit, Gives
  <2>2. /\ h \in Rows /\ h.row # "ready" /\ h.file = "none"
        /\ h.row = "none" \/ conv[a[1]] \notin {"none", "deleted"}
        BY <1>3 DEF Rows, StoredPart
  <2> HIDE DEF h
  <2> QED BY <1>1, <1>2, <1>3, <2>1, <2>2, LeavingStill
<1>5. CASE media[a].row = "pending"
  <2>1. /\ media' = [media EXCEPT ![a] = f]
        /\ charged' = [ready |-> charged.ready + w, reserved |-> charged.reserved - w]
        BY <1>5 DEF Commit
  <2>2. ops' = Tail(ops) \o <<>> /\ at' = "next" /\ victim' = Nobody /\ cands' = {}
        BY <1>1 DEF Leaves
  <2>3. <<>> \in Failures /\ ToSet(<<>>) = {}
        BY DEF Failures, ToSet
  <2>4. /\ ops' \in Seq(Operations) /\ InOrder(ops')
        /\ ToSet(ops') = ToSet(Tail(ops)) /\ ToSet(ops) = ToSet(Tail(ops)) \union {head}
        /\ \A y \in ToSet(Tail(ops)) : y \in Operations /\ Behind(head, y)
        BY <1>2, <2>2, <2>3, LeavesIs
  <2>5. /\ w \in Nat /\ w <= charged.reserved
        /\ head.op = "input" => w = 1
        /\ head.op = "finalize" => w = Accepted[s]
        BY <1>1, <1>2, WeightIs
  <2> HIDE DEF w
  <2>6. f \in Rows /\ f.row = "ready" /\ f.file = "kept" /\ f.bytes = w
        BY <2>5 DEF Rows
  <2> HIDE DEF f
  <2>7. /\ media' \in [Assets -> Rows] /\ media'[a] = f
        /\ \A b \in Assets : b # a => media'[b] = media[b]
        BY <1>3, <2>1, <2>6 DEF RetentionTypes
  <2>8. charged' \in [ready : Nat, reserved : Nat]
    <3>1. charged.ready + w \in Nat /\ charged.reserved - w \in Nat
          BY <2>5 DEF RetentionTypes
    <3> QED BY <2>1, <3>1
  <2>9. RetentionTypes'
        BY <1>1, <2>2, <2>4, <2>7, <2>8 DEF RetentionTypes
  <2>10. StepPart'
        BY <2>2 DEF StepPart
  <2>11. OpsPart'
    <3> SUFFICES ASSUME NEW y \in ToSet(Tail(ops)) PROVE Stands(y, conv', media', recorder')
        BY <2>4 DEF OpsPart
    <3>1. y \in Operations /\ Behind(head, y) /\ Stands(y, conv, media, recorder) /\ y.op \in Kinds
      <4>1. y \in Operations /\ Behind(head, y) /\ Stands(y, conv, media, recorder)
            BY <2>4 DEF OpsPart
      <4> QED BY <4>1, OpOf
    <3>2. y.of \in Assets /\ y.of[1] \in Conversations
          BY <3>1, OpOf
    <3>3. y.op # "delete" => y.of # a
      <4>1. CASE head.op = "input"
        <5>1. a[2] = "input"
              BY <1>3, <4>1 DEF Operations
        <5>2. y.of[2] = "input" => y.op \in {"input", "refused", "delete"}
              BY <3>1 DEF Operations
        <5> QED BY <3>1, <4>1, <5>1, <5>2 DEF Behind
      <4>2. CASE head.op = "finalize"
        <5>1. SUFFICES ASSUME y.of = a PROVE FALSE
              OBVIOUS
        <5>2. y.op = "fail"
              BY <3>1, <4>2, <5>1 DEF Behind
        <5>3. recorder[s].state = "truncated"
              BY <3>1, <5>1, <5>2 DEF Stands
        <5> QED BY <1>2, <4>2, <5>3
      <4> QED BY <1>2, <4>1, <4>2
    <3>4. CASE y.op = "delete"
          BY <1>1, <3>1, <3>4 DEF Stands, Begun
    <3>5. CASE y.op # "delete"
      <4>1. media'[y.of] = media[y.of]
            BY <2>7, <3>2, <3>3, <3>5
      <4> QED BY <1>1, <3>1, <4>1 DEF Stands
    <3> QED BY <3>4, <3>5
  <2>12. StoredPart'
    <3> SUFFICES ASSUME NEW b \in Assets
                 PROVE  /\ media'[b].row = "ready" => media'[b].file = "kept" \/ conv[b[1]] \in Gone
                        /\ conv[b[1]] \in {"none", "deleted"} => media'[b].row = "none"
                        /\ media'[b].file = "kept" => media'[b].row = "ready"
        BY <1>1 DEF StoredPart, Gone
    <3>1. CASE b = a
      <4>1. conv[a[1]] \notin {"none", "deleted"}
            BY <1>3, <1>5 DEF StoredPart
      <4> QED BY <2>6, <2>7, <3>1, <4>1
    <3>2. CASE b # a
          BY <1>1, <2>7, <3>2 DEF StoredPart
    <3> QED BY <3>1, <3>2
  <2>13. RecorderPart'
    <3> SUFFICES ASSUME NEW t \in Conversations
                 PROVE  /\ conv[t] = "none" => recorder[t] = NoRecorder
                        /\ ~recorder[t].finalized => media'[<<t, "output">>].row # "ready"
        BY <1>1 DEF RecorderPart, NoRecorder
    <3>1. <<t, "output">> \in Assets
          BY DEF Assets
    <3>2. <<t, "output">> = a => recorder[t].finalized
      <4> SUFFICES ASSUME <<t, "output">> = a PROVE recorder[t].finalized
          OBVIOUS
      <4>1. s = t /\ a[2] = "output"
            BY <1>3
      <4>2. head.op # "input"
            BY <1>3, <4>1 DEF Operations
      <4> QED BY <1>2, <1>3, <4>1, <4>2 DEF Stands
    <3> QED BY <1>1, <2>7, <3>1, <3>2 DEF RecorderPart
  <2>14. BytesPart'
    <3> DEFINE A == Accepted  O == Open  G == Granted  W == Waiting
               P == Open'  H == Granted'  X == Waiting'
    <3>1. /\ X = IF head.op = "input" THEN W \ {s} ELSE W
          /\ head.op = "input" => s \in W
          /\ P = IF head.op = "finalize" THEN O \ {s} ELSE O
          /\ head.op = "finalize" => s \in O
      <4>1. recorder' \in [Conversations -> Recorders] /\ \A t \in Conversations : recorder'[t].finalized = recorder[t].finalized
            BY <1>1 DEF RetentionTypes
      <4> QED BY <1>2, <2>2, <2>3, <4>1, LeavesWho
    <3>2. /\ A \in [Conversations -> Nat] /\ O \in SUBSET Conversations /\ G \in SUBSET O
          /\ IsFiniteSet(W) /\ Cardinality(W) \in Nat
          /\ SumOver(A, O) \in Nat /\ SumOver(A, G) \in Nat
          BY Counts
    <3>3. Accepted' = A /\ Passed' = 0 /\ Passed = IF head.op = "input" THEN 1 ELSE 0
          BY <1>1, <2>2 DEF Accepted, Passed
    <3>4. H = IF head.op = "finalize" THEN G \ {s} ELSE G
      <4> DEFINE fr(t) == Op("frame", <<t, "output">>)
      <4>1. Roomless = ops /\ Roomless' = ops'
            BY <1>1, <2>2 DEF Roomless
      <4>2. \A t : fr(t).op = "frame"
            BY DEF Op
      <4> HIDE DEF fr
      <4>3. \A t : fr(t) \in ToSet(Roomless') <=> fr(t) \in ToSet(Roomless)
            BY <1>2, <2>4, <4>1, <4>2
      <4>4. /\ G = {t \in O : recorder[t].state = "pending" /\ fr(t) \notin ToSet(Roomless)}
            /\ H = {t \in P : recorder[t].state = "pending" /\ fr(t) \notin ToSet(Roomless')}
            BY <1>1 DEF Granted, fr
      <4> HIDE DEF G, H, O, P
      <4>5. CASE head.op = "finalize"
        <5>1. P = O \ {s}
              BY <3>1, <4>5
        <5> QED BY <4>3, <4>4, <4>5, <5>1
      <4>6. CASE head.op # "finalize"
        <5>1. P = O
              BY <3>1, <4>6
        <5> QED BY <4>3, <4>4, <4>6, <5>1
      <4> QED BY <4>5, <4>6
    <3>5. head.op = "finalize" => s \in G
      <4> SUFFICES ASSUME head.op = "finalize" PROVE s \in G
          OBVIOUS
      <4> DEFINE fr == Op("frame", <<s, "output">>)
      <4>1. fr.op = "frame" /\ fr.of = <<s, "output">>
            BY DEF Op
      <4>2. a = <<s, "output">>
            BY <1>3, OpOf
      <4>3. fr \notin ToSet(ops)
        <5>1. fr # head
              BY <4>1
        <5>2. fr \notin ToSet(Tail(ops))
              BY <2>4, <4>1, <4>2 DEF Behind
        <5> QED BY <2>4, <5>1, <5>2
      <4>4. Roomless = ops
            BY <1>1 DEF Roomless
      <4> QED BY <1>2, <3>1, <4>3, <4>4 DEF Granted
    <3>6. Cardinality(X) \in Nat /\ Cardinality(W) = Cardinality(X) + (IF head.op = "input" THEN 1 ELSE 0)
      <4> HIDE DEF X, W
      <4>1. CASE head.op = "input"
        <5>1. X = W \ {s} /\ s \in W
              BY <3>1, <4>1
        <5>2. /\ IsFiniteSet(W \ {s}) /\ Cardinality(W \ {s}) = Cardinality(W) - 1
              /\ Cardinality(W \ {s}) \in Nat
              BY <3>2, <5>1, FS_RemoveElement, FS_CardinalityType
        <5> QED BY <3>2, <4>1, <5>1, <5>2
      <4>2. CASE head.op # "input"
        <5>1. X = W
              BY <3>1, <4>2
        <5> QED BY <3>2, <4>2, <5>1
      <4> QED BY <4>1, <4>2
    <3>7. /\ SumOver(A, P) \in Nat /\ SumOver(A, H) \in Nat
          /\ SumOver(A, O) = SumOver(A, P) + (IF head.op = "finalize" THEN A[s] ELSE 0)
          /\ SumOver(A, G) = SumOver(A, H) + (IF head.op = "finalize" THEN A[s] ELSE 0)
      <4> HIDE DEF A, O, G, P, H, s
      <4>1. CASE head.op = "finalize"
        <5>1. P = O \ {s} /\ s \in O /\ H = G \ {s} /\ s \in G
              BY <3>1, <3>4, <3>5, <4>1
        <5>2. /\ IsFiniteSet(O) /\ \A x \in O : A[x] \in Nat
              BY <3>2, Finitely, FS_Subset
        <5>3. /\ IsFiniteSet(G) /\ \A x \in G : A[x] \in Nat
              BY <3>2, <5>2, FS_Subset
        <5>4. SumOver(A, O) = A[s] + SumOver(A, O \ {s}) /\ SumOver(A, O \ {s}) \in Nat
          <6>1. s \in O
                BY <5>1
          <6> QED BY ONLY <6>1, <5>2, SumTakes
        <5>5. SumOver(A, G) = A[s] + SumOver(A, G \ {s}) /\ SumOver(A, G \ {s}) \in Nat
          <6>1. \A x \in G : SumOver(A, G) = A[x] + SumOver(A, G \ {x}) /\ SumOver(A, G \ {x}) \in Nat
            <7> TAKE x \in G
            <7> QED BY ONLY x \in G, <5>3, SumTakes
          <6> QED BY ONLY <5>1, <4>1, <6>1
        <5>6. A[s] \in Nat
              BY <5>1, <5>2
        <5> QED BY <4>1, <5>1, <5>4, <5>5, <5>6
      <4>2. CASE head.op # "finalize"
        <5>1. P = O /\ H = G
              BY <3>1, <3>4, <4>2
        <5> QED BY <3>2, <4>2, <5>1
      <4> QED BY <4>1, <4>2
    <3>8. ReadyBytes(Assets)' = ReadyBytes(Assets) + w
      <4>1. ReadyBytes(Assets) + (IF media'[a].row = "ready" THEN media'[a].bytes ELSE 0)
               = ReadyBytes(Assets)' + (IF media[a].row = "ready" THEN media[a].bytes ELSE 0)
        <5>1. \A b \in Assets \ {a} : media'[b] = media[b]
              BY <2>7
        <5> QED BY <1>3, <2>9, <5>1, ReadyMoves
      <4>2. media'[a].row = "ready" /\ media'[a].bytes = w
            BY <2>6, <2>7
      <4>3. ReadyBytes(Assets)' \in Nat
        <5> DEFINE g == [b \in Assets |-> media'[b].bytes]
                   T == {b \in Assets : media'[b].row = "ready"}
        <5>1. g \in [Assets -> Nat] /\ T \in SUBSET Assets
              BY <2>7 DEF Rows
        <5>2. ReadyBytes(Assets)' = SumOver(g, T)
              BY DEF ReadyBytes
        <5> HIDE DEF g, T
        <5> QED BY <5>1, <5>2, Finitely, SumLess
      <4>4. ReadyBytes(Assets) \in Nat
            BY Counts
      <4> QED BY <1>3, <2>5, <4>1, <4>2, <4>3, <4>4
    <3>9. /\ charged.ready = ReadyBytes(Assets) /\ charged.reserved = Cardinality(W) + SumOver(A, O)
          /\ charged.ready + SumOver(A, G) + Passed <= MaxBytes
          /\ charged.ready \in Nat /\ charged.reserved \in Nat /\ MaxBytes \in Nat
          /\ charged'.ready = charged.ready + w /\ charged'.reserved = charged.reserved - w
          BY <1>1, <2>1, RetentionAssumption DEF BytesPart, RetentionTypes
    <3>10. /\ Cardinality(Waiting)' = Cardinality(X) /\ SumOver(Accepted, Open)' = SumOver(A, P)
           /\ SumOver(Accepted, Granted)' = SumOver(A, H)
          BY <3>3
    <3>11. /\ charged'.reserved = Cardinality(X) + SumOver(A, P)
           /\ charged'.ready + SumOver(A, H) + 0 <= MaxBytes
           /\ charged'.ready <= MaxBytes
      <4>1. head.op = "finalize" => w = A[s]
            BY <2>5
      <4> HIDE DEF A, O, G, P, H, W, X, s
      <4>2. CASE head.op = "input"
            BY <2>5, <3>2, <3>3, <3>6, <3>7, <3>9, <4>2
      <4>3. CASE head.op = "finalize"
            BY <2>5, <3>2, <3>3, <3>6, <3>7, <3>9, <4>1, <4>3
      <4> QED BY <1>2, <4>2, <4>3
    <3> QED BY <3>3, <3>8, <3>9, <3>10, <3>11 DEF BytesPart
  <2> QED BY <1>1, <2>9, <2>10, <2>11, <2>12, <2>13, <2>14 DEF DownPart
<1> QED BY <1>4, <1>5

-----------------------------------------------------------------------------
(* The process.                                                            *)

\* What counts for nothing sums to nothing.
LEMMA SumOfZeros ==
  ASSUME NEW f, NEW S, IsFiniteSet(S), \A x \in S : f[x] = 0 PROVE SumOver(f, S) = 0
<1> DEFINE R == {T \in SUBSET S : SumOver(f, T) = 0}
<1>1. {} \in R
      BY SumOfNone
<1>2. ASSUME NEW T \in SUBSET S, T # {} PROVE \E x \in T : T \ {x} \in R => T \in R
  <2>1. PICK x \in T : f[x] = 0
        BY <1>2
  <2>2. IsFiniteSet(T) /\ \A y \in T : f[y] \in Nat
        BY FS_Subset
  <2>3. SumOver(f, T) = f[x] + SumOver(f, T \ {x})
        BY ONLY <2>1, <2>2, SumTakes
  <2> QED BY <2>1, <2>3
<1>3. S \in R
  <2> HIDE DEF R
  <2> QED BY <1>1, <1>2, FiniteInductive
<1> QED BY <1>3

\* What the rows of the start say.
LEMMA InitHolds ==
  ASSUME RetentionInit PROVE RetentionInv
<1> USE DEF RetentionInit
<1>1. RetentionTypes
      BY DEF RetentionTypes, NoRow, NoRecorder, Rows, Recorders
<1>2. ToSet(ops) = {}
      BY DEF ToSet
<1>3. StepPart /\ OpsPart /\ DownPart
      BY <1>2 DEF StepPart, OpsPart, InOrder, DownPart
<1>4. StoredPart /\ RecorderPart
      BY DEF StoredPart, RecorderPart, NoRow, NoRecorder, Assets
<1>5. BytesPart
  <2> DEFINE A == Accepted  O == Open  G == Granted
             f == [a \in Assets |-> media[a].bytes]
             S == {a \in Assets : media[a].row = "ready"}
  <2>1. Waiting = {} /\ Passed = 0
        BY <1>2 DEF Waiting, Passed
  <2>2. S = {} /\ ReadyBytes(Assets) = SumOver(f, S)
        BY DEF ReadyBytes, NoRow
  <2>3. /\ IsFiniteSet(O) /\ IsFiniteSet(G)
        /\ (\A s \in O : A[s] = 0) /\ \A s \in G : A[s] = 0
    <3>1. O \subseteq Conversations /\ G \subseteq O /\ \A s \in Conversations : A[s] = 0
          BY DEF Open, Granted, Accepted, NoRecorder
    <3> QED BY <3>1, Finitely, FS_Subset
  <2>4. MaxBytes \in Nat
        BY RetentionAssumption
  <2> HIDE DEF A, O, G, f, S
  <2>5. SumOver(A, O) = 0 /\ SumOver(A, G) = 0 /\ ReadyBytes(Assets) = 0
        BY <2>2, <2>3, SumOfZeros, SumOfNone
  <2>6. Cardinality(Waiting) = 0
        BY <2>1, FS_EmptySet
  <2> QED BY <2>1, <2>4, <2>5, <2>6 DEF BytesPart, A, O, G
<1> QED BY <1>1, <1>3, <1>4, <1>5 DEF RetentionInv

\* The store begins to close: nothing else changes.
LEMMA CloseKeeps ==
  ASSUME RetentionInv, Close PROVE RetentionInv'
<1> USE DEF RetentionInv
<1>1. /\ up = "up" /\ up' = "closing"
      /\ UNCHANGED <<conv, order, media, ops, at, cands, victim, recorder, charged, jobs, mishaps>>
      BY DEF Close, durable, running
<1>2. RetentionTypes'
      BY <1>1 DEF RetentionTypes
<1>3. OpsPart'
      BY <1>1 DEF OpsPart, Stands
<1>4. StoredPart' /\ RecorderPart' /\ DownPart'
      BY <1>1 DEF StoredPart, RecorderPart, DownPart, head
<1>5. /\ ReadyBytes(Assets)' = ReadyBytes(Assets) /\ Waiting' = Waiting /\ Open' = Open
      /\ Accepted' = Accepted /\ Passed' = Passed /\ Roomless' = Roomless
      BY <1>1 DEF ReadyBytes, Waiting, Open, Accepted, Passed, Roomless, head
<1>6. Granted' = Granted
      BY <1>1, <1>5 DEF Granted
<1>7. BytesPart'
      BY <1>1, <1>5, <1>6 DEF BytesPart
<1>8. StepPart'
      BY <1>1 DEF StepPart, head
<1> QED BY <1>2, <1>3, <1>4, <1>7, <1>8

\* What is volatile is lost, in a crash or when the store has closed.
LEMMA LostKeeps ==
  ASSUME RetentionInv, Lost PROVE RetentionInv'
<1> USE DEF RetentionInv
<1>1. /\ up' = "down" /\ mishaps' = mishaps + 1
      /\ ops' = <<>> /\ at' = "next" /\ cands' = {} /\ victim' = Nobody
      /\ recorder' = [s \in Conversations |-> [NoRecorder EXCEPT !.finalized = TRUE]]
      /\ charged' = [ready |-> 0, reserved |-> 0] /\ jobs' = {}
      /\ UNCHANGED <<conv, order, media>>
      BY DEF Lost, durable
<1>2. [NoRecorder EXCEPT !.finalized = TRUE] \in Recorders /\ [NoRecorder EXCEPT !.finalized = TRUE].finalized
      BY DEF NoRecorder, Recorders
<1>3. RetentionTypes'
      BY <1>1, <1>2 DEF RetentionTypes
<1>4. StepPart' /\ StoredPart' /\ RecorderPart' /\ DownPart'
      BY <1>1, <1>2 DEF StepPart, StoredPart, RecorderPart, DownPart
<1>5. OpsPart'
      BY <1>1 DEF OpsPart, InOrder, ToSet
<1>6. BytesPart'
  <2>1. ReadyBytes(Assets)' = ReadyBytes(Assets)
        BY <1>1 DEF ReadyBytes
  <2> QED BY <1>1, <2>1 DEF BytesPart
<1> QED BY <1>3, <1>4, <1>5, <1>6

-----------------------------------------------------------------------------
(* Both stores begin again.                                                *)

\* What restarting leaves of the rows and the files: what was whole, of who is known.
LEMMA RowsRestart ==
  ASSUME RetentionInv, Restart
  PROVE  /\ media' \in [Assets -> Rows]
         /\ \A a \in Assets :
               /\ media'[a].row = "ready" <=> /\ media[a].row = "ready" /\ media[a].file = "kept"
                                              /\ conv[a[1]] \notin {"deleted", "evicted"}
               /\ media'[a].row = "ready" => media'[a] = media[a]
               /\ media'[a].file = "kept" => media'[a].row = "ready"
               /\ conv[a[1]] \in {"none", "deleted"} => media'[a].row = "none"
<1> USE DEF RetentionInv
<1> DEFINE stays(a) == /\ media[a].row = "ready" /\ media[a].file = "kept"
                       /\ conv[a[1]] \notin {"deleted", "evicted"}
           row(a) == IF conv[a[1]] \in {"deleted", "evicted"} THEN "none"
                     ELSE IF media[a].row \in {"pending", "ready"} THEN "missing" ELSE media[a].row
<1>1. ASSUME NEW a \in Assets
      PROVE  media'[a] = IF stays(a) THEN media[a] ELSE [row |-> row(a), file |-> "none", bytes |-> 0]
      BY DEF Restart, NoRow
<1>2. \A a \in Assets : media[a] \in Rows /\ (conv[a[1]] \in {"none", "deleted"} => media[a].row = "none")
      BY DEF RetentionTypes, StoredPart
<1>3. media' = [a \in Assets |-> media'[a]]
      BY DEF Restart
<1>4. ASSUME NEW a \in Assets
      PROVE  /\ media'[a] \in Rows
             /\ media'[a].row = "ready" <=> stays(a)
             /\ media'[a].row = "ready" => media'[a] = media[a]
             /\ media'[a].file = "kept" => media'[a].row = "ready"
             /\ conv[a[1]] \in {"none", "deleted"} => media'[a].row = "none"
  <2>1. row(a) \in {"none", "missing", "truncated"} /\ (media[a].row = "none" => row(a) = "none")
        BY <1>2 DEF Rows
  <2>2. CASE stays(a)
        BY <1>1, <1>2, <2>2
  <2>3. CASE ~stays(a)
    <3>1. media'[a] = [row |-> row(a), file |-> "none", bytes |-> 0]
          BY <1>1, <2>3
    <3> HIDE DEF row
    <3>2. media'[a].row = row(a) /\ media'[a].file = "none" /\ media'[a] \in Rows
          BY <2>1, <3>1 DEF Rows
    <3> QED BY <1>2, <2>1, <2>3, <3>2
  <2> QED BY <2>2, <2>3
<1>5. media' \in [Assets -> Rows]
  <2> DEFINE f == media'
  <2>1. f = [a \in Assets |-> f[a]] /\ \A a \in Assets : f[a] \in Rows
        BY <1>3, <1>4
  <2> HIDE DEF f
  <2>2. f \in [Assets -> Rows]
        BY <2>1
  <2> QED BY <2>2 DEF f
<1> QED BY <1>4, <1>5

\* Both constructors.
LEMMA RestartKeeps ==
  ASSUME RetentionInv, Restart PROVE RetentionInv'
<1> USE DEF RetentionInv
<1> DEFINE abandoned == {s \in Conversations : conv[s] = "active"}
           c == [s \in Conversations |-> IF s \in abandoned THEN "ended" ELSE conv[s]]
           K == {a \in Assets : /\ media[a].row = "ready" /\ media[a].file = "kept"
                                /\ conv[a[1]] \notin {"deleted", "evicted"}}
           B == {a[1] : a \in K}
<1>1. /\ up = "down" /\ up' = "up" /\ UNCHANGED <<at, cands, victim, mishaps>>
      /\ charged' = [charged EXCEPT !.ready = ReadyBytes(K)]
      /\ recorder' = [s \in Conversations |-> IF conv[s] = "none" THEN NoRecorder ELSE recorder[s]]
      BY DEF Restart, running
<1>2. PICK last \in SetToSeqs(abandoned) : order' = order \o last
      BY DEF Restart
<1>3. PICK expired \in Expired(c, order', B) : prunes(c, expired)
      BY DEF Restart
<1>4. /\ ops = <<>> /\ at = "next" /\ victim = Nobody /\ cands = {}
      /\ charged = [ready |-> 0, reserved |-> 0]
      /\ \A s \in Conversations : recorder[s].finalized
      BY <1>1 DEF DownPart, NoRecorder
<1>5. /\ conv' = [s \in Conversations |-> IF s \in expired THEN "deleting" ELSE c[s]]
      /\ \A s \in expired : s \in Conversations /\ c[s] = "ended"
      BY <1>3 DEF prunes, Expired
<1>6. /\ conv' \in [Conversations -> {"none", "active", "ended", "deleting", "deleted", "evicted"}]
      /\ \A s \in Conversations : conv'[s] \in {"none", "deleted", "evicted"} => conv[s] = conv'[s]
      BY <1>5 DEF RetentionTypes
<1>7. order' \in Seq(Conversations)
  <2>1. PICK S \in SUBSET Conversations : S = abandoned
        OBVIOUS
  <2>2. Cardinality(S) \in Nat
        BY Finitely, FS_Subset, FS_CardinalityType
  <2>3. last \in [1..Cardinality(S) -> S]
        BY <1>2, <2>1 DEF SetToSeqs
  <2>4. last \in [1..Cardinality(S) -> Conversations]
        BY <2>1, <2>3
  <2>5. last \in Seq(Conversations)
        BY ONLY <2>2, <2>4
  <2>6. order \in Seq(Conversations)
        BY DEF RetentionTypes
  <2> QED BY <1>2, <2>5, <2>6
<1>8. /\ ops' \in Seq(Operations) /\ InOrder(ops')
      /\ \A y \in ToSet(ops') : y.op = "delete" /\ conv'[y.of[1]] = "deleting"
  <2> DEFINE S == {s \in Conversations : conv'[s] = "deleting"} \ jobs
  <2>1. PICK p \in SetToSeqs(S) : ops' = ops \o [i \in DOMAIN p |-> Op("delete", <<p[i], "input">>)]
        BY <1>3 DEF prunes, Schedules
  <2>2. PICK q : q = [i \in DOMAIN p |-> Op("delete", <<p[i], "input">>)]
        OBVIOUS
  <2>3. S \in SUBSET Conversations
        OBVIOUS
  <2>4. /\ q \in Seq(Operations) /\ InOrder(q)
        /\ \A y \in ToSet(q) : y.op = "delete" /\ y.of[1] \in S
    <3> HIDE DEF S
    <3> QED BY <2>2, <2>3, DeletionsAre
  <2>5. ops' = q
        BY <1>4, <2>1, <2>2, <2>4
  <2> QED BY <2>4, <2>5
<1>9. recorder' \in [Conversations -> Recorders] /\ charged' \in [ready : Nat, reserved : Nat]
  <2>1. recorder' \in [Conversations -> Recorders]
        BY <1>1 DEF RetentionTypes, NoRecorder, Recorders
  <2>2. ReadyBytes(K) \in Nat
    <3>1. K \in SUBSET Assets
          OBVIOUS
    <3> HIDE DEF K
    <3> QED BY <3>1, Counts
  <2> HIDE DEF K
  <2> QED BY <1>1, <1>4, <2>1, <2>2
<1>10. jobs' \subseteq Conversations
       BY <1>3 DEF prunes, Schedules, RetentionTypes
<1>11. RetentionTypes'
  <2>1. media' \in [Assets -> Rows]
        BY RowsRestart
  <2> QED BY <1>1, <1>6, <1>7, <1>8, <1>9, <1>10, <2>1 DEF RetentionTypes
<1>12. StepPart'
       BY <1>1, <1>4 DEF StepPart
<1>13. OpsPart'
       BY <1>8 DEF OpsPart, Stands, Begun, Gone
<1>14. StoredPart'
  <2> SUFFICES ASSUME NEW a \in Assets
               PROVE  /\ media'[a].row = "ready" => media'[a].file = "kept"
                      /\ conv'[a[1]] \in {"none", "deleted"} => media'[a].row = "none"
                      /\ media'[a].file = "kept" => media'[a].row = "ready"
      BY DEF StoredPart
  <2>1. a[1] \in Conversations
        BY DEF Assets
  <2> QED BY <1>6, <2>1, RowsRestart
<1>15. RecorderPart'
  <2> SUFFICES ASSUME NEW s \in Conversations
               PROVE  /\ conv'[s] = "none" => recorder'[s] = NoRecorder
                      /\ ~recorder'[s].finalized => media'[<<s, "output">>].row # "ready"
      BY DEF RecorderPart, NoRecorder
  <2>1. <<s, "output">> \in Assets
        BY DEF Assets
  <2>2. ~recorder'[s].finalized => conv[s] = "none"
        BY <1>1, <1>4
  <2>3. conv[s] = "none" => media'[<<s, "output">>].row = "none"
        BY <2>1, RowsRestart
  <2> QED BY <1>1, <1>6, <2>2, <2>3
<1>16. DownPart'
       BY <1>1 DEF DownPart
<1>17. ReadyBytes(Assets)' = ReadyBytes(K) /\ ReadyBytes(K) <= ReadyBytes(Assets)
  <2> DEFINE f == [a \in Assets |-> media[a].bytes]
             g == [a \in Assets |-> media'[a].bytes]
             S == {a \in Assets : media[a].row = "ready"}
             T == {a \in Assets : media'[a].row = "ready"}
             U == {a \in K : media[a].row = "ready"}
  <2>1. T = K /\ U = K /\ K \in SUBSET S /\ S \in SUBSET Assets /\ f \in [Assets -> Nat]
        /\ \A x \in K : f[x] \in Nat /\ g[x] = f[x]
        BY RowsRestart DEF RetentionTypes, Rows
  <2>2. /\ ReadyBytes(Assets) = SumOver(f, S) /\ ReadyBytes(Assets)' = SumOver(g, T)
        /\ ReadyBytes(K) = SumOver(f, U)
        BY DEF ReadyBytes
  <2> HIDE DEF f, g, S, T, U, K
  <2>3. IsFiniteSet(K)
        BY <2>1, Finitely, FS_Subset
  <2>4. SumOver(g, K) = SumOver(f, K)
        BY <2>1, <2>3, SumSame
  <2>5. SumOver(f, K) <= SumOver(f, S)
        BY <2>1, Finitely, SumLess
  <2> QED BY <2>1, <2>2, <2>4, <2>5
<1>18. BytesPart'
  <2>1. Waiting' = {} /\ Passed' = 0
        BY <1>1, <1>4, <1>8 DEF Waiting, Passed, Op
  <2>2. \A s \in Open' : recorder'[s].accepted = 0
    <3>1. \A s \in Open' : s \in Conversations /\ conv[s] = "none"
          BY <1>1, <1>4, <1>8 DEF Open, Op
    <3> QED BY <1>1, <3>1 DEF NoRecorder
  <2>3. SumOver(Accepted, Open)' = 0 /\ SumOver(Accepted, Granted)' = 0
    <3> DEFINE A == Accepted'  O == Open'  G == Granted'
    <3>1. O \subseteq Conversations /\ G \subseteq O
          BY DEF Open, Granted
    <3>2. \A s \in O : A[s] = 0
          BY <2>2, <3>1 DEF Accepted
    <3> HIDE DEF A, O, G
    <3>3. IsFiniteSet(O) /\ IsFiniteSet(G) /\ \A s \in G : A[s] = 0
          BY <3>1, <3>2, Finitely, FS_Subset
    <3>4. SumOver(A, O) = 0 /\ SumOver(A, G) = 0
          BY <3>2, <3>3, SumOfZeros
    <3> QED BY <3>4 DEF A, O, G
  <2>4. Cardinality(Waiting') = 0
        BY <2>1, FS_EmptySet
  <2>5. ReadyBytes(Assets) <= MaxBytes /\ MaxBytes \in Nat /\ ReadyBytes(K) \in Nat /\ ReadyBytes(Assets) \in Nat
    <3>1. K \in SUBSET Assets
          OBVIOUS
    <3> HIDE DEF K
    <3> QED BY <3>1, Counts, RetentionAssumption DEF BytesPart
  <2>6. charged'.ready = ReadyBytes(K) /\ charged'.reserved = 0
    <3> HIDE DEF K
    <3> QED BY <1>1, <1>4
  <2> HIDE DEF K
  <2>7. ReadyBytes(K) <= MaxBytes
        BY <1>17, <2>5
  <2> QED BY <1>17, <2>1, <2>3, <2>4, <2>5, <2>6, <2>7 DEF BytesPart
<1> QED BY <1>11, <1>12, <1>13, <1>14, <1>15, <1>16, <1>18
-----------------------------------------------------------------------------
(* The theorems.                                                           *)

\* No step breaks the invariant.
LEMMA StepKeeps ==
  ASSUME RetentionInv, [RetentionNext]_retentionVars PROVE RetentionInv'
<1>1. CASE UNCHANGED retentionVars
  <2>1. /\ UNCHANGED <<conv, order, media, up, ops, at, cands, victim, recorder, charged, jobs, mishaps>>
        BY <1>1 DEF retentionVars
  <2>2. RetentionTypes' /\ StepPart' /\ OpsPart'
        BY <2>1 DEF RetentionInv, RetentionTypes, StepPart, OpsPart, Stands, head
  <2>3. StoredPart' /\ RecorderPart' /\ DownPart'
        BY <2>1 DEF RetentionInv, StoredPart, RecorderPart, DownPart, head
  <2>4. /\ ReadyBytes(Assets)' = ReadyBytes(Assets) /\ Waiting' = Waiting /\ Open' = Open
        /\ Accepted' = Accepted /\ Passed' = Passed /\ Roomless' = Roomless
        BY <2>1 DEF ReadyBytes, Waiting, Open, Accepted, Passed, Roomless, head
  <2>5. Granted' = Granted
        BY <2>1, <2>4 DEF Granted
  <2>6. BytesPart'
        BY <2>1, <2>4, <2>5 DEF RetentionInv, BytesPart
  <2> QED BY <2>2, <2>3, <2>6 DEF RetentionInv
<1>2. ASSUME NEW s \in Conversations,
             Begin(s) \/ RetainInput(s) \/ Write(s) \/ Finalize(s) \/ Finish(s) \/ removeConversation(s)
      PROVE  RetentionInv'
      BY <1>2, BeginKeeps, RetainInputKeeps, WriteKeeps, FinalizeKeeps, FinishKeeps, RemoveKeeps
<1>3. CASE DiskStep
  <2>1. ASSUME NEW a \in Assets, Unlink(a) PROVE RetentionInv'
        BY <2>1, UnlinkKeeps
  <2> QED BY <1>3, <2>1, StartOpKeeps, RoomKeeps, RowsGoKeeps, ForgetKeeps, WriteTempKeeps,
             RenameKeeps, CommitKeeps DEF DiskStep
<1>4. CASE Prune \/ UnlinkFails \/ DiskFails
      BY <1>4, PruneKeeps, UnlinkFailsKeeps, DiskFailsKeeps
<1>5. CASE Close \/ Closed \/ Crash \/ Restart
      BY <1>5, CloseKeeps, LostKeeps, RestartKeeps DEF Closed, Crash
<1> QED BY <1>1, <1>2, <1>3, <1>4, <1>5 DEF RetentionNext

\* The invariant of the two stores, the queue between them and their counters.
THEOREM RetentionInvariant == RetentionSpec => []RetentionInv
<1>1. RetentionInit => RetentionInv
      BY InitHolds
<1>2. RetentionInv /\ [RetentionNext]_retentionVars => RetentionInv'
      BY StepKeeps
<1> QED BY <1>1, <1>2, PTL DEF RetentionSpec

\* What the two stores say of retained audio is so, after any failure and crash:
\* no byte is counted that is not there, what waits is what is reserved, what is
\* listed can be heard, and a deleted conversation keeps nothing.
THEOREM StoresStayAgreed == RetentionSpec => []StoresAgree
<1>1. RetentionInv => CeilingKept
      BY DEF RetentionInv, BytesPart, CeilingKept
<1>2. RetentionInv => ReservationsReturn
  <2> SUFFICES ASSUME RetentionInv PROVE ReservationsReturn
      OBVIOUS
  <2>1. \A o : (\E i \in DOMAIN ops : ops[i] = o) <=> o \in ToSet(ops)
        BY DEF ToSet
  <2> QED BY <2>1 DEF RetentionInv, BytesPart, ReservationsReturn, Waiting, Open, Accepted
<1>3. RetentionInv => ListedAudioExists /\ DeletedLeavesNothing
  <2>1. \A a \in Assets : a[1] \in Conversations
        BY DEF Assets
  <2> QED BY <2>1 DEF RetentionInv, StoredPart, ListedAudioExists, DeletedLeavesNothing, Gone
<1>4. RetentionInv => StoresAgree
      BY <1>1, <1>2, <1>3 DEF StoresAgree, AudioAccounted, RemovalIsComplete
<1> QED BY <1>4, RetentionInvariant, PTL

-----------------------------------------------------------------------------
(* The capture library.                                                    *)

LibrarySpec == LibraryInit /\ [][LibraryNext]_libraryVars

Copies == [row : {"none", "kept", "gone"}, corrected : BOOLEAN, promoted : BOOLEAN,
           files : {"none", "tmp", "whole", "left"}, ref : BOOLEAN,
           owed : SUBSET {"delete", "sidecar", "rollback"}]
Ingests == [at : {"idle", "refused", "writing", "evicting", "checking", "rollback", "done", "past"},
            cands : SUBSET Captures, victim : Captures \union {NoCapture}]

\* What may wait for a capture: an eviction names the ingest that asked for it, and only
\* a capture's own ingest rolls it back.
Mutations(c) == {[op |-> k, for |-> NoCapture] : k \in {"correct", "clear", "promote", "remove"}}
                \union {[op |-> "evict", for |-> d] : d \in Captures}
                \union {[op |-> "remove", for |-> c]}

LibraryTypes ==
    /\ shelf \in [Captures -> Copies] /\ ingest \in [Captures -> Ingests]
    /\ DOMAIN tails = Captures /\ \A c \in Captures : tails[c] \in Seq(Mutations(c))
    /\ started \in [Captures -> BOOLEAN]
    /\ library \in {"open", "closing", "shut"} /\ opens \in Nat /\ requests \in Nat

\* A mutation that awaits something has looked up the row and has written it.
Removing(c) == started[c] /\ Head(tails[c]).op \in {"evict", "remove"}
Syncing(c) == started[c] /\ Head(tails[c]).op \in {"correct", "clear"}
StartedPart == \A c \in Captures : started[c] =>
    /\ tails[c] # <<>>
    /\ shelf[c].row = IF Removing(c) THEN "gone" ELSE "kept"
    /\ Syncing(c) => shelf[c].corrected = (Head(tails[c]).op = "correct")

\* Nothing is asked of a capture that never had a row, and none is chosen.
RowPart == \A c \in Captures :
    /\ ingest[c].at = "idle" => shelf[c] = NoCopy
    /\ ingest[c].at = "writing" => shelf[c].row = "none" /\ ~shelf[c].ref /\ ~shelf[c].corrected
    /\ ingest[c].at \in {"evicting", "checking", "rollback"} => shelf[c].row # "none"
    /\ \A d \in ingest[c].cands : shelf[d].row # "none"
    /\ shelf[c].row = "none" => tails[c] = <<>>

\* Whose files there are, which no row owns; what the disk refused is owed.
Stray(c) == shelf[c].row # "kept" /\ ~(shelf[c].files = "none" /\ ~shelf[c].ref)
FilesPart == \A c \in Captures :
    /\ shelf[c].row = "kept" => shelf[c].files = "whole"
    /\ library # "shut" /\ Stray(c) =>
          ingest[c].at = "writing" \/ Removing(c) \/ "delete" \in shelf[c].owed

\* A correction awaits its sidecar, has it, or is owed it.
SidecarPart == \A c \in Captures : shelf[c].row = "kept" =>
    shelf[c].ref = shelf[c].corrected \/ Syncing(c) \/ "sidecar" \in shelf[c].owed

\* A refused ingest keeps its row only if that could not be deleted.
RefusedPart == \A c \in Captures :
    shelf[c].row = "kept" /\ ingest[c].at = "refused" => "rollback" \in shelf[c].owed

ShutPart == library = "shut" => \A c \in Captures :
    ingest[c].at \in {"idle", "past"} /\ tails[c] = <<>> /\ ~started[c]

\* What has been committed and is not yet checked, or should have been rolled back, may
\* be over the quota.
Unchecked == Stuck \union {c \in Kept : ingest[c].at \in {"evicting", "checking", "rollback"}}
QuotaPart == library = "open" =>
    \/ Cardinality(Kept \ Unchecked) <= Quota
    \/ \A c \in Kept \ Unchecked : ingest[c].at = "past"

LibraryInv == /\ LibraryTypes /\ StartedPart /\ RowPart /\ FilesPart /\ SidecarPart /\ RefusedPart
              /\ ShutPart /\ QuotaPart

\* Captures are finitely many.
LEMMA CapturesFinite == IsFiniteSet(Captures) /\ NoCapture \notin Captures
  BY FS_Interval, LibraryAssumption DEF Captures, NoCapture

\* What is appended to a queue, and what is taken from it.
LEMMA QueueIs ==
  ASSUME NEW S, NEW q \in Seq(S)
  PROVE  /\ \A x \in S : Append(q, x) \in Seq(S) /\ Append(q, x) # <<>>
                         /\ (q # <<>> => Head(Append(q, x)) = Head(q))
         /\ q # <<>> => Head(q) \in S /\ Tail(q) \in Seq(S)
<1>1. ASSUME NEW x \in S
      PROVE  Append(q, x) \in Seq(S) /\ Append(q, x) # <<>> /\ (q # <<>> => Head(Append(q, x)) = Head(q))
  <2>1. Append(q, x) \in Seq(S)
        OBVIOUS
  <2>2. Len(Append(q, x)) = Len(q) + 1 /\ Len(q) \in Nat
        OBVIOUS
  <2>3. Append(q, x) # <<>>
        BY <2>2
  <2>4. q # <<>> => Head(Append(q, x)) = Head(q)
        BY HeadTailAppend
  <2> QED BY <2>1, <2>3, <2>4
<1>2. q # <<>> => Head(q) \in S /\ Tail(q) \in Seq(S)
      BY HeadTailProperties
<1> QED BY <1>1, <1>2

\* What a mutation is.
LEMMA MutationIs ==
  ASSUME NEW c \in Captures, NEW o \in Mutations(c)
  PROVE  /\ o.op \in {"correct", "clear", "promote", "remove", "evict"}
         /\ o.for \in Captures \union {NoCapture}
         /\ o.op = "evict" => o.for \in Captures
         /\ o.op # "evict" /\ o.for # NoCapture => o = [op |-> "remove", for |-> c] /\ o.op = "remove" /\ o.for = c
  BY LibraryAssumption DEF Mutations, Captures, NoCapture

\* One more waits for a capture that has, or had, a row.
LEMMA QueuesKeeps ==
  ASSUME LibraryTypes, StartedPart, NEW c \in Captures, NEW o \in Mutations(c), Queues(c, o), UNCHANGED started
  PROVE  /\ DOMAIN tails' = Captures /\ \A d \in Captures : tails'[d] \in Seq(Mutations(d))
         /\ \A d \in Captures : /\ d # c => tails'[d] = tails[d]
                                /\ started[d] => tails'[d] # <<>> /\ Head(tails'[d]) = Head(tails[d])
                                /\ Removing(d)' = Removing(d)
<1>1. tails' = [tails EXCEPT ![c] = Append(@, o)] /\ DOMAIN tails = Captures
      BY DEF Queues, LibraryTypes
<1>2. tails[c] \in Seq(Mutations(c))
      BY DEF LibraryTypes
<1>3. /\ tails'[c] \in Seq(Mutations(c)) /\ tails'[c] # <<>>
      /\ tails[c] # <<>> => Head(tails'[c]) = Head(tails[c])
      BY <1>1, <1>2, QueueIs
<1>4. \A d \in Captures : d # c => tails'[d] = tails[d]
      BY <1>1
<1>5. \A d \in Captures : tails'[d] \in Seq(Mutations(d))
      BY <1>3, <1>4 DEF LibraryTypes
<1>6. \A d \in Captures : started[d] => tails'[d] # <<>> /\ Head(tails'[d]) = Head(tails[d])
      BY <1>3, <1>4 DEF StartedPart
<1> QED BY <1>1, <1>4, <1>5, <1>6 DEF Removing

\* The first mutation of a capture is over.
LEMMA OverIs ==
  ASSUME LibraryTypes, StartedPart, NEW c \in Captures, NEW worked \in BOOLEAN, tails[c] # <<>>, OverWith(c, worked)
  PROVE  /\ DOMAIN tails' = Captures /\ \A d \in Captures : tails'[d] \in Seq(Mutations(d))
         /\ started' \in [Captures -> BOOLEAN] /\ ~started'[c] /\ ~Removing(c)'
         /\ ingest' \in [Captures -> Ingests]
         /\ \A d \in Captures : /\ d # c => /\ tails'[d] = tails[d] /\ started'[d] = started[d]
                                            /\ Removing(d)' = Removing(d)
                                /\ ingest'[d].cands \subseteq ingest[d].cands
                                /\ \/ ingest'[d].at = ingest[d].at
                                   \/ /\ d = c /\ ingest'[d].at = "refused"
                                      /\ Head(tails[c]) = [op |-> "remove", for |-> c]
<1> DEFINE o == Head(tails[c])
<1>1. /\ tails' = [tails EXCEPT ![c] = Tail(@)] /\ DOMAIN tails = Captures
      /\ started' = [started EXCEPT ![c] = FALSE]
      BY DEF OverWith, LibraryTypes
<1>2. tails[c] \in Seq(Mutations(c))
      BY DEF LibraryTypes
<1>3. o \in Mutations(c) /\ Tail(tails[c]) \in Seq(Mutations(c))
      BY <1>2, QueueIs
<1>4. \A d \in Captures : d # c => tails'[d] = tails[d] /\ started'[d] = started[d]
      BY <1>1
<1>5. started' \in [Captures -> BOOLEAN] /\ ~started'[c]
      BY <1>1 DEF LibraryTypes
<1>6. \A d \in Captures : tails'[d] \in Seq(Mutations(d))
  <2>1. tails'[c] = Tail(tails[c])
        BY <1>1
  <2> QED BY <1>3, <1>4, <2>1 DEF LibraryTypes
<1>7. /\ ingest' \in [Captures -> Ingests]
      /\ \A d \in Captures : /\ ingest'[d].cands \subseteq ingest[d].cands
                             /\ \/ ingest'[d].at = ingest[d].at
                                \/ d = c /\ ingest'[d].at = "refused" /\ o = [op |-> "remove", for |-> c]
  <2>1. ingest' = IF o.op = "evict"
                  THEN [ingest EXCEPT ![o.for].victim = NoCapture, ![o.for].cands = IF worked THEN @ ELSE {}]
                  ELSE IF o.for # NoCapture THEN [ingest EXCEPT ![o.for].at = "refused"]
                  ELSE ingest
        BY DEF OverWith
  <2>2. \A d \in Captures : ingest[d] \in Ingests
        BY DEF LibraryTypes
  <2> HIDE DEF o
  <2>3. CASE o.op = "evict"
    <3> DEFINE k == o.for
               g == [ingest[k] EXCEPT !.victim = NoCapture, !.cands = IF worked THEN @ ELSE {}]
    <3>1. ingest' = [ingest EXCEPT ![k].victim = NoCapture, ![k].cands = IF worked THEN @ ELSE {}] /\ k \in Captures
          BY <1>3, <2>1, <2>3, MutationIs
    <3>2. g \in Ingests /\ g.at = ingest[k].at /\ g.cands \subseteq ingest[k].cands
      <4>1. ingest[k] \in Ingests
            BY <2>2, <3>1
      <4> QED BY <4>1 DEF Ingests
    <3>3. ingest' = [ingest EXCEPT ![k] = g] /\ ingest \in [Captures -> Ingests]
          BY <3>1 DEF LibraryTypes
    <3> HIDE DEF g, k
    <3>4. ingest' \in [Captures -> Ingests] /\ \A d \in Captures : ingest'[d] = IF d = k THEN g ELSE ingest[d]
          BY <3>2, <3>3
    <3>5. \A d \in Captures : ingest'[d].cands \subseteq ingest[d].cands /\ ingest'[d].at = ingest[d].at
          BY <3>2, <3>4
    <3> QED BY <3>4, <3>5
  <2>4. CASE o.op # "evict" /\ o.for # NoCapture
    <3>1. ingest' = [ingest EXCEPT ![c].at = "refused"] /\ o = [op |-> "remove", for |-> c]
      <4>1. o = [op |-> "remove", for |-> c] /\ o.for = c
            BY <1>3, <2>4, MutationIs
      <4> QED BY <2>1, <2>4, <4>1
    <3>2. [ingest[c] EXCEPT !.at = "refused"] \in Ingests
          BY <2>2 DEF Ingests
    <3>3. \A d \in Captures : ingest'[d] = IF d = c THEN [ingest[c] EXCEPT !.at = "refused"] ELSE ingest[d]
          BY <3>1 DEF LibraryTypes
    <3>4. ingest' \in [Captures -> Ingests]
          BY <3>1, <3>2 DEF LibraryTypes
    <3>5. \A d \in Captures : /\ ingest'[d].cands = ingest[d].cands
                              /\ \/ ingest'[d].at = ingest[d].at
                                 \/ d = c /\ ingest'[d].at = "refused"
          BY <2>2, <3>3 DEF Ingests
    <3> QED BY <3>1, <3>4, <3>5
  <2>5. CASE o.op # "evict" /\ o.for = NoCapture
        BY <2>1, <2>5 DEF LibraryTypes
  <2> QED BY <2>3, <2>4, <2>5
<1> QED BY <1>1, <1>4, <1>5, <1>6, <1>7 DEF Removing

\* Nothing comes to be over the quota that was not.
LEMMA QuotaStays ==
  ASSUME LibraryTypes, QuotaPart, library' = "open" => library = "open",
         Kept' \ Unchecked' \subseteq Kept \ Unchecked,
         \A c \in Kept' \ Unchecked' : ingest'[c].at = ingest[c].at
  PROVE  QuotaPart'
<1> DEFINE K == Kept \ Unchecked
           L == Kept' \ Unchecked'
<1>1. L \subseteq K /\ K \subseteq Captures
      BY DEF Kept
<1>2. IsFiniteSet(K)
      BY <1>1, CapturesFinite, FS_Subset
<1>3. Cardinality(L) <= Cardinality(K) /\ Cardinality(L) \in Nat /\ Cardinality(K) \in Nat
      BY <1>1, <1>2, FS_Subset, FS_CardinalityType
<1>4. (Kept \ Unchecked)' = L
      OBVIOUS
<1>5. Quota \in Nat
      BY LibraryAssumption
<1> HIDE DEF K, L
<1>6. CASE library' = "open" /\ Cardinality(K) <= Quota
  <2>1. Cardinality(L) <= Quota
        BY <1>3, <1>5, <1>6
  <2> QED BY <1>4, <2>1 DEF QuotaPart, L
<1>7. CASE library' = "open" /\ \A c \in K : ingest[c].at = "past"
  <2>1. \A c \in L : ingest'[c].at = "past"
        BY <1>1, <1>7 DEF L
  <2> QED BY <2>1 DEF QuotaPart, L
<1> QED BY <1>6, <1>7 DEF QuotaPart, K

Stages == {"idle", "refused", "writing", "evicting", "checking", "rollback", "done", "past"}

\* The records of one capture.
LEMMA RecordsAre ==
  ASSUME LibraryTypes, NEW c \in Captures
  PROVE  /\ shelf[c] \in Copies /\ shelf[c].row \in {"none", "kept", "gone"} /\ shelf[c].ref \in BOOLEAN
         /\ shelf[c].corrected \in BOOLEAN
         /\ ingest[c] \in Ingests /\ ingest[c].at \in Stages /\ ingest[c].cands \subseteq Captures
         /\ tails[c] \in Seq(Mutations(c)) /\ started[c] \in BOOLEAN
  BY DEF LibraryTypes, Copies, Ingests, Stages

\* A step of an ingest changes nothing else of it, and no other ingest.
LEMMA StepsIs ==
  ASSUME LibraryTypes, NEW c \in Captures, NEW a \in Stages, Steps(c, a)
  PROVE  /\ ingest' \in [Captures -> Ingests] /\ ingest'[c].at = a
         /\ \A d \in Captures : ingest'[d].cands = ingest[d].cands /\ (d # c => ingest'[d] = ingest[d])
<1>1. ingest' = [ingest EXCEPT ![c].at = a] /\ ingest \in [Captures -> Ingests]
      BY DEF Steps, LibraryTypes
<1>2. /\ [ingest[c] EXCEPT !.at = a] \in Ingests
      /\ [ingest[c] EXCEPT !.at = a].at = a /\ [ingest[c] EXCEPT !.at = a].cands = ingest[c].cands
      BY <1>1 DEF Ingests, Stages
<1>3. ingest'[c] = [ingest[c] EXCEPT !.at = a] /\ \A d \in Captures : d # c => ingest'[d] = ingest[d]
      BY <1>1
<1>4. ingest' \in [Captures -> Ingests]
      BY <1>1, <1>2
<1> QED BY <1>2, <1>3, <1>4

\* A copy is replaced by another.
LEMMA ReplacedIs ==
  ASSUME LibraryTypes, NEW c \in Captures, NEW r \in Copies, shelf' = [shelf EXCEPT ![c] = r]
  PROVE  /\ shelf' \in [Captures -> Copies] /\ shelf'[c] = r
         /\ \A d \in Captures : d # c => shelf'[d] = shelf[d]
  BY DEF LibraryTypes

\* An ingest is admitted, or refused at once.
LEMMA IngestBeginsKeeps ==
  ASSUME LibraryInv, NEW c \in Captures, IngestBegins(c)
  PROVE  LibraryInv'
<1>1. /\ library = "open" /\ ingest[c].at = "idle" /\ shelf[c] = NoCopy
      /\ UNCHANGED <<tails, started, library, opens, requests>>
      BY DEF IngestBegins, LibraryInv, RowPart
<1>2. LibraryTypes /\ StartedPart /\ RowPart /\ FilesPart /\ SidecarPart /\ RefusedPart /\ QuotaPart
      BY DEF LibraryInv
<1>3. \A d \in Captures : Removing(d)' = Removing(d) /\ Syncing(d)' = Syncing(d)
      BY <1>1 DEF Removing, Syncing
<1>4. PICK a \in {"refused", "writing"} : Steps(c, a) /\ (a = "refused" => UNCHANGED shelf)
         /\ (a = "writing" => shelf' = [shelf EXCEPT ![c] = [NoCopy EXCEPT !.files = "tmp"]])
  <2>1. [shelf EXCEPT ![c].files = "tmp"] = [shelf EXCEPT ![c] = [shelf[c] EXCEPT !.files = "tmp"]]
        OBVIOUS
  <2> QED BY <1>1, <2>1 DEF IngestBegins
<1>5. /\ ingest' \in [Captures -> Ingests] /\ ingest'[c].at = a
      /\ \A d \in Captures : ingest'[d].cands = ingest[d].cands /\ (d # c => ingest'[d] = ingest[d])
      BY <1>2, <1>4, StepsIs DEF Stages
<1>6. /\ shelf' \in [Captures -> Copies] /\ \A d \in Captures : d # c => shelf'[d] = shelf[d]
      /\ shelf'[c].row = "none" /\ ~shelf'[c].ref /\ ~shelf'[c].corrected
      /\ a = "refused" => shelf'[c].files = "none"
  <2>1. [NoCopy EXCEPT !.files = "tmp"] \in Copies
        BY DEF NoCopy, Copies
  <2>2. CASE a = "writing"
        BY <1>2, <1>4, <2>1, <2>2, ReplacedIs DEF NoCopy
  <2>3. CASE a = "refused"
        BY <1>1, <1>2, <1>4, <2>3 DEF NoCopy, LibraryTypes
  <2> QED BY <2>2, <2>3
<1>7. shelf[c].row = "none"
      BY <1>1 DEF NoCopy
<1>8. LibraryTypes'
      BY <1>1, <1>2, <1>5, <1>6 DEF LibraryTypes
<1>9. \A d \in Captures : shelf'[d].row = shelf[d].row
      BY <1>6, <1>7
<1>10. StartedPart'
      BY <1>1, <1>2, <1>3, <1>6, <1>7, <1>9 DEF StartedPart
<1>11. RowPart'
  <2>1. \A d \in Captures : ingest[d].cands \subseteq Captures
        BY <1>2, RecordsAre
  <2> QED BY <1>1, <1>2, <1>4, <1>5, <1>6, <1>9, <2>1 DEF RowPart
<1>12. FilesPart' /\ SidecarPart' /\ RefusedPart'
  <2>1. FilesPart'
        BY <1>1, <1>2, <1>3, <1>4, <1>5, <1>6 DEF FilesPart, Stray
  <2>2. SidecarPart'
        BY <1>2, <1>3, <1>6 DEF SidecarPart
  <2>3. RefusedPart'
        BY <1>2, <1>5, <1>6 DEF RefusedPart
  <2> QED BY <2>1, <2>2, <2>3
<1>13. ShutPart'
      BY <1>1 DEF ShutPart
<1>14. QuotaPart'
  <2>1. c \notin Kept /\ Kept' = Kept
        BY <1>7, <1>9 DEF Kept
  <2>2. \A d \in Kept : ingest'[d] = ingest[d] /\ shelf'[d] = shelf[d]
        BY <1>5, <1>6, <2>1 DEF Kept
  <2>3. Unchecked' = Unchecked
        BY <2>1, <2>2 DEF Unchecked, Stuck
  <2> QED BY <1>1, <1>2, <2>1, <2>2, <2>3, QuotaStays
<1> QED BY <1>8, <1>10, <1>11, <1>12, <1>13, <1>14 DEF LibraryInv

\* The row is what makes the capture one of the library.
LEMMA IngestCommitsKeeps ==
  ASSUME LibraryInv, NEW c \in Captures, IngestCommits(c)
  PROVE  LibraryInv'
<1>1. /\ library # "shut" /\ ingest[c].at = "writing" /\ shelf[c].row = "none" /\ tails[c] = <<>>
      /\ ~shelf[c].ref /\ ~shelf[c].corrected
      /\ UNCHANGED <<tails, started, library, opens, requests>>
      BY DEF IngestCommits, LibraryInv, RowPart
<1>2. LibraryTypes /\ StartedPart /\ RowPart /\ FilesPart /\ SidecarPart /\ RefusedPart /\ QuotaPart
      BY DEF LibraryInv
<1>3. \A d \in Captures : Removing(d)' = Removing(d) /\ Syncing(d)' = Syncing(d)
      BY <1>1 DEF Removing, Syncing
<1>4. ~started[c]
      BY <1>1, <1>2 DEF StartedPart
<1> DEFINE r == [shelf[c] EXCEPT !.row = "kept", !.files = "whole"]
           g == [ingest[c] EXCEPT !.at = "evicting", !.cands = evictionCandidates(c)]
<1>5. r \in Copies /\ r.row = "kept" /\ r.files = "whole" /\ r.ref = r.corrected
  <2>1. shelf[c] \in Copies /\ shelf[c].ref = shelf[c].corrected
        BY <1>1, <1>2, RecordsAre
  <2> QED BY <2>1 DEF Copies
<1>6. g \in Ingests /\ g.at = "evicting" /\ g.cands = evictionCandidates(c)
  <2>1. evictionCandidates(c) \subseteq Captures
        BY DEF evictionCandidates, Kept
  <2>2. ingest[c] \in Ingests
        BY <1>2, RecordsAre
  <2> QED BY <2>1, <2>2 DEF Ingests
<1>7. /\ shelf' \in [Captures -> Copies] /\ shelf'[c] = r
      /\ \A d \in Captures : d # c => shelf'[d] = shelf[d]
  <2>1. shelf' = [shelf EXCEPT ![c] = r]
        BY DEF IngestCommits
  <2> HIDE DEF r
  <2> QED BY <1>2, <1>5, <2>1, ReplacedIs
<1>8. /\ ingest' \in [Captures -> Ingests] /\ ingest'[c] = g
      /\ \A d \in Captures : d # c => ingest'[d] = ingest[d]
  <2>1. ingest' = [ingest EXCEPT ![c] = g] /\ ingest \in [Captures -> Ingests]
        BY <1>2 DEF IngestCommits, LibraryTypes
  <2> HIDE DEF g
  <2> QED BY <1>6, <2>1
<1> HIDE DEF r, g
<1>9. LibraryTypes'
      BY <1>1, <1>2, <1>7, <1>8 DEF LibraryTypes
<1>10. StartedPart'
      BY <1>1, <1>2, <1>3, <1>4, <1>7 DEF StartedPart
<1>11. RowPart'
  <2>1. \A d \in evictionCandidates(c) : shelf[d].row # "none" /\ d \in Captures
        BY DEF evictionCandidates, Kept
  <2>2. \A d \in Captures : shelf[d].row # "none" => shelf'[d].row # "none"
        BY <1>1, <1>7
  <2>3. \A d \in Captures : ingest[d].cands \subseteq Captures
        BY <1>2, RecordsAre
  <2> QED BY <1>1, <1>2, <1>5, <1>6, <1>7, <1>8, <2>1, <2>2, <2>3 DEF RowPart
<1>12. FilesPart' /\ SidecarPart' /\ RefusedPart'
  <2>1. FilesPart'
        BY <1>1, <1>2, <1>3, <1>5, <1>7, <1>8 DEF FilesPart, Stray
  <2>2. SidecarPart'
        BY <1>2, <1>3, <1>5, <1>7 DEF SidecarPart
  <2>3. RefusedPart'
        BY <1>2, <1>6, <1>7, <1>8 DEF RefusedPart
  <2> QED BY <2>1, <2>2, <2>3
<1>13. ShutPart'
      BY <1>1 DEF ShutPart
<1>14. QuotaPart'
  <2>1. c \in Unchecked' /\ c \notin Kept
        BY <1>1, <1>5, <1>6, <1>7, <1>8 DEF Unchecked, Stuck, Kept
  <2>2. \A d \in Kept' \ Unchecked' : d \in Kept \ Unchecked /\ ingest'[d].at = ingest[d].at
        BY <1>7, <1>8, <2>1 DEF Unchecked, Stuck, Kept
  <2>3. Kept' \ Unchecked' \subseteq Kept \ Unchecked
        BY <2>2
  <2> QED BY <1>1, <1>2, <2>2, <2>3, QuotaStays
<1> QED BY <1>9, <1>10, <1>11, <1>12, <1>13, <1>14 DEF LibraryInv

\* A failed ingest leaves nothing, or what could not be removed.
LEMMA IngestFailsKeeps ==
  ASSUME LibraryInv, NEW c \in Captures, IngestFails(c)
  PROVE  LibraryInv'
<1>1. /\ library # "shut" /\ ingest[c].at = "writing" /\ shelf[c].row = "none" /\ tails[c] = <<>>
      /\ Steps(c, "refused") /\ UNCHANGED <<tails, started, library, opens, requests>>
      BY DEF IngestFails, LibraryInv, RowPart
<1>2. LibraryTypes /\ StartedPart /\ RowPart /\ FilesPart /\ SidecarPart /\ RefusedPart /\ QuotaPart
      BY DEF LibraryInv
<1>3. \A d \in Captures : Removing(d)' = Removing(d) /\ Syncing(d)' = Syncing(d)
      BY <1>1 DEF Removing, Syncing
<1>4. PICK q \in {NoCopy, [NoCopy EXCEPT !.files = "left", !.owed = {"delete"}]} :
         shelf' = [shelf EXCEPT ![c] = q]
      BY DEF IngestFails
<1>5. q \in Copies /\ q.row = "none" /\ ~q.ref /\ ~q.corrected /\ (q.files = "none" \/ "delete" \in q.owed)
  <2>1. CASE q = NoCopy
        BY <2>1 DEF NoCopy, Copies
  <2>2. CASE q = [NoCopy EXCEPT !.files = "left", !.owed = {"delete"}]
        BY <2>2 DEF NoCopy, Copies
  <2> QED BY <1>4, <2>1, <2>2
<1>6. /\ shelf' \in [Captures -> Copies] /\ shelf'[c] = q
      /\ \A d \in Captures : d # c => shelf'[d] = shelf[d]
      BY <1>2, <1>4, <1>5, ReplacedIs
<1>7. /\ ingest' \in [Captures -> Ingests] /\ ingest'[c].at = "refused"
      /\ \A d \in Captures : ingest'[d].cands = ingest[d].cands /\ (d # c => ingest'[d] = ingest[d])
      BY <1>1, <1>2, StepsIs DEF Stages
<1>8. \A d \in Captures : shelf'[d].row = shelf[d].row
      BY <1>1, <1>5, <1>6
<1>9. LibraryTypes' /\ StartedPart' /\ ShutPart'
  <2>1. LibraryTypes'
        BY <1>1, <1>2, <1>6, <1>7 DEF LibraryTypes
  <2>2. StartedPart'
        BY <1>1, <1>2, <1>3, <1>6, <1>8 DEF StartedPart
  <2>3. ShutPart'
        BY <1>1 DEF ShutPart
  <2> QED BY <2>1, <2>2, <2>3
<1>10. RowPart'
  <2>1. \A d \in Captures : ingest[d].cands \subseteq Captures
        BY <1>2, RecordsAre
  <2> QED BY <1>1, <1>2, <1>6, <1>7, <1>8, <2>1 DEF RowPart
<1>11. FilesPart' /\ SidecarPart' /\ RefusedPart'
  <2>1. FilesPart'
        BY <1>1, <1>2, <1>3, <1>5, <1>6, <1>7 DEF FilesPart, Stray
  <2>2. SidecarPart'
        BY <1>2, <1>3, <1>5, <1>6 DEF SidecarPart
  <2>3. RefusedPart'
        BY <1>2, <1>5, <1>6, <1>7 DEF RefusedPart
  <2> QED BY <2>1, <2>2, <2>3
<1>12. QuotaPart'
  <2>1. c \notin Kept /\ Kept' = Kept
        BY <1>1, <1>8 DEF Kept
  <2>2. \A d \in Kept : ingest'[d] = ingest[d] /\ shelf'[d] = shelf[d]
        BY <1>6, <1>7, <2>1 DEF Kept
  <2>3. Unchecked' = Unchecked
        BY <2>1, <2>2 DEF Unchecked, Stuck
  <2> QED BY <1>1, <1>2, <2>1, <2>2, <2>3, QuotaStays
<1> QED BY <1>9, <1>10, <1>11, <1>12 DEF LibraryInv

\* Every ingest goes on towards its end, with no more candidates than it had.
Onward == \A d \in Captures :
    /\ ingest'[d].cands \subseteq ingest[d].cands
    /\ \/ ingest'[d].at = ingest[d].at
       \/ /\ ingest[d].at \in {"evicting", "checking"}
          /\ ingest'[d].at \in {"checking", "rollback", "done"}

\* One more waits, and an ingest goes on: what is kept stays what it was.
LEMMA QueuedKeeps ==
  ASSUME LibraryInv, library # "shut", NEW c \in Captures, NEW o \in Mutations(c), shelf[c].row # "none",
         Queues(c, o) \/ UNCHANGED tails, UNCHANGED <<shelf, started, library>>,
         requests' \in Nat, UNCHANGED opens, ingest' \in [Captures -> Ingests],
         Onward,
         QuotaPart'
  PROVE  LibraryInv'
<1>1. LibraryTypes /\ StartedPart /\ RowPart /\ FilesPart /\ SidecarPart /\ RefusedPart /\ library' # "shut"
      BY DEF LibraryInv
<1>2. /\ DOMAIN tails' = Captures /\ \A d \in Captures : tails'[d] \in Seq(Mutations(d))
      /\ \A d \in Captures : /\ d # c => tails'[d] = tails[d]
                             /\ started[d] => tails'[d] # <<>> /\ Head(tails'[d]) = Head(tails[d])
                             /\ Removing(d)' = Removing(d)
  <2>1. CASE Queues(c, o)
        BY <1>1, <2>1, QueuesKeeps
  <2>2. CASE UNCHANGED tails
        BY <1>1, <2>2 DEF LibraryTypes, StartedPart, Removing
  <2> QED BY <2>1, <2>2
<1>3. LibraryTypes'
      BY <1>1, <1>2 DEF LibraryTypes
<1>4. StartedPart'
      BY <1>1, <1>2 DEF StartedPart, Syncing
<1>5. RowPart'
      BY <1>1, <1>2 DEF RowPart, Onward
<1>6. FilesPart' /\ SidecarPart' /\ RefusedPart'
  <2>1. FilesPart'
        BY <1>1, <1>2 DEF FilesPart, Stray, Onward
  <2>2. SidecarPart'
        BY <1>1, <1>2 DEF SidecarPart, Syncing
  <2>3. RefusedPart'
        BY <1>1 DEF RefusedPart, Onward
  <2> QED BY <2>1, <2>2, <2>3
<1>7. ShutPart'
      BY <1>1 DEF ShutPart
<1> QED BY <1>3, <1>4, <1>5, <1>6, <1>7 DEF LibraryInv

\* An eviction is asked for, or none is needed any more.
LEMMA IngestEvictsKeeps ==
  ASSUME LibraryInv, NEW c \in Captures, IngestEvicts(c)
  PROVE  LibraryInv'
<1>1. /\ library # "shut" /\ ingest[c].at = "evicting"
      /\ UNCHANGED <<shelf, started, library, opens, requests>>
      BY DEF IngestEvicts
<1>2. LibraryTypes /\ RowPart /\ QuotaPart
      BY DEF LibraryInv
<1>3. Kept' = Kept /\ shelf[c].row # "none" /\ requests' \in Nat
      BY <1>1, <1>2 DEF Kept, RowPart, LibraryTypes
<1>4. CASE Steps(c, "checking") /\ UNCHANGED tails
  <2>1. /\ ingest' \in [Captures -> Ingests] /\ ingest'[c].at = "checking"
        /\ \A d \in Captures : ingest'[d].cands = ingest[d].cands /\ (d # c => ingest'[d] = ingest[d])
        BY <1>2, <1>4, StepsIs DEF Stages
  <2>2. QuotaPart'
    <3>1. Unchecked' = Unchecked
          BY <1>1, <1>3, <2>1 DEF Unchecked, Stuck, Kept
    <3>2. \A d \in Kept \ Unchecked : ingest'[d].at = ingest[d].at
          BY <1>1, <2>1 DEF Unchecked, Stuck, Kept
    <3> QED BY <1>1, <1>2, <1>3, <3>1, <3>2, QuotaStays
  <2>3. [op |-> "remove", for |-> c] \in Mutations(c)
        BY DEF Mutations
  <2>4. Onward
        BY <1>1, <2>1 DEF Onward
  <2> QED BY <1>1, <1>3, <1>4, <2>1, <2>2, <2>3, <2>4, QueuedKeeps
<1>5. CASE \E d \in ingest[c].cands :
              /\ ingest' = [ingest EXCEPT ![c].victim = d, ![c].cands = @ \ {d}]
              /\ Queues(d, [op |-> "evict", for |-> c])
  <2>1. PICK d \in ingest[c].cands :
              /\ ingest' = [ingest EXCEPT ![c].victim = d, ![c].cands = @ \ {d}]
              /\ Queues(d, [op |-> "evict", for |-> c])
        BY <1>5
  <2>2. d \in Captures /\ shelf[d].row # "none" /\ [op |-> "evict", for |-> c] \in Mutations(d)
    <3>1. ingest[c].cands \subseteq Captures
          BY <1>2, RecordsAre
    <3> QED BY <1>2, <3>1 DEF RowPart, Mutations
  <2> DEFINE g == [ingest[c] EXCEPT !.victim = d, !.cands = @ \ {d}]
  <2>3. g \in Ingests /\ g.at = ingest[c].at /\ g.cands \subseteq ingest[c].cands
    <3>1. ingest[c] \in Ingests
          BY <1>2, RecordsAre
    <3> QED BY <2>2, <3>1 DEF Ingests
  <2>4. ingest' = [ingest EXCEPT ![c] = g] /\ ingest \in [Captures -> Ingests]
        BY <1>2, <2>1 DEF LibraryTypes
  <2> HIDE DEF g
  <2>5. /\ ingest' \in [Captures -> Ingests]
        /\ \A e \in Captures : ingest'[e].at = ingest[e].at /\ ingest'[e].cands \subseteq ingest[e].cands
        BY <2>3, <2>4
  <2>6. QuotaPart'
    <3>1. Unchecked' = Unchecked
          BY <1>1, <1>3, <2>5 DEF Unchecked, Stuck, Kept
    <3>2. \A e \in Kept \ Unchecked : ingest'[e].at = ingest[e].at
          BY <2>5 DEF Kept
    <3> QED BY <1>1, <1>2, <1>3, <3>1, <3>2, QuotaStays
  <2>7. Onward
        BY <2>5 DEF Onward
  <2>8. UNCHANGED <<shelf, started, library>> /\ UNCHANGED opens
        BY <1>1
  <2> QED BY <1>1, <1>3, <2>1, <2>2, <2>5, <2>6, <2>7, <2>8, QueuedKeeps
<1> QED BY <1>4, <1>5 DEF IngestEvicts

\* What is still over the quota is rolled back.
LEMMA IngestChecksKeeps ==
  ASSUME LibraryInv, NEW c \in Captures, IngestChecks(c)
  PROVE  LibraryInv'
<1>1. /\ library # "shut" /\ ingest[c].at = "checking"
      /\ UNCHANGED <<shelf, started, library, opens, requests>>
      BY DEF IngestChecks
<1>2. LibraryTypes /\ RowPart /\ QuotaPart
      BY DEF LibraryInv
<1>3. Kept' = Kept /\ shelf[c].row # "none" /\ requests' \in Nat
      BY <1>1, <1>2 DEF Kept, RowPart, LibraryTypes
<1>4. [op |-> "remove", for |-> c] \in Mutations(c)
      BY DEF Mutations
<1>5. PICK a \in {"rollback", "done"} : Steps(c, a)
         /\ (Queues(c, [op |-> "remove", for |-> c]) \/ UNCHANGED tails)
         /\ (a = "done" => ~(OverQuota /\ library = "open"))
      BY DEF IngestChecks
<1>6. /\ ingest' \in [Captures -> Ingests] /\ ingest'[c].at = a
      /\ \A d \in Captures : ingest'[d].cands = ingest[d].cands /\ (d # c => ingest'[d] = ingest[d])
      BY <1>2, <1>5, StepsIs DEF Stages
<1>7. QuotaPart'
  <2>1. CASE a = "rollback"
    <3>1. Unchecked' = Unchecked
          BY <1>1, <1>3, <1>6, <2>1 DEF Unchecked, Stuck, Kept
    <3>2. \A d \in Kept \ Unchecked : ingest'[d].at = ingest[d].at
          BY <1>1, <1>6 DEF Unchecked, Stuck, Kept
    <3> QED BY <1>1, <1>2, <1>3, <3>1, <3>2, QuotaStays
  <2>2. CASE a = "done" /\ library = "open"
    <3>1. ~(Cardinality(Kept) > Quota)
          BY <1>5, <2>2 DEF OverQuota
    <3>2. IsFiniteSet(Kept) /\ Kept' \ Unchecked' \subseteq Kept
          BY <1>3, CapturesFinite, FS_Subset DEF Kept
    <3>3. /\ Cardinality(Kept' \ Unchecked') <= Cardinality(Kept)
          /\ Cardinality(Kept' \ Unchecked') \in Nat /\ Cardinality(Kept) \in Nat
          BY <3>2, FS_Subset, FS_CardinalityType
    <3>4. Cardinality(Kept' \ Unchecked') <= Quota
          BY <3>1, <3>3, LibraryAssumption
    <3> QED BY <3>4 DEF QuotaPart
  <2>3. CASE library # "open"
        BY <1>1, <2>3 DEF QuotaPart
  <2> QED BY <2>1, <2>2, <2>3
<1>8. Onward
      BY <1>1, <1>6 DEF Onward
<1> QED BY <1>1, <1>3, <1>4, <1>5, <1>6, <1>7, <1>8, QueuedKeeps

\* A request waits its turn.
LEMMA AskKeeps ==
  ASSUME LibraryInv, NEW c \in Captures, NEW op \in {"correct", "clear", "promote", "remove"}, Ask(c, op)
  PROVE  LibraryInv'
<1>1. /\ library = "open" /\ shelf[c].row = "kept" /\ requests' = requests + 1
      /\ Queues(c, [op |-> op, for |-> NoCapture])
      /\ UNCHANGED <<shelf, ingest, started, library, opens>>
      BY DEF Ask
<1>2. LibraryTypes /\ QuotaPart
      BY DEF LibraryInv
<1>3. [op |-> op, for |-> NoCapture] \in Mutations(c)
      BY DEF Mutations
<1>4. Kept' = Kept /\ Unchecked' = Unchecked
      BY <1>1 DEF Unchecked, Stuck, Kept
<1>5. QuotaPart'
      BY <1>1, <1>2, <1>4 DEF QuotaPart
<1>6. requests' \in Nat /\ ingest' \in [Captures -> Ingests]
      BY <1>1, <1>2 DEF LibraryTypes
<1>7. Onward
      BY <1>1 DEF Onward
<1>8. shelf[c].row # "none" /\ library # "shut"
      BY <1>1
<1> QED BY <1>1, <1>3, <1>5, <1>6, <1>7, <1>8, QueuedKeeps

\* A mutation that is over leaves a row with its files, or neither.
LEMMA OverKeeps ==
  ASSUME LibraryInv, library # "shut", NEW c \in Captures, NEW worked \in BOOLEAN, tails[c] # <<>>,
         OverWith(c, worked), UNCHANGED <<library, opens, requests>>,
         shelf' \in [Captures -> Copies], \A d \in Captures : d # c => shelf'[d] = shelf[d],
         shelf'[c].row = shelf[c].row, "rollback" \in shelf[c].owed => "rollback" \in shelf'[c].owed,
         shelf[c].row = "kept" =>
             /\ shelf'[c].files = "whole"
             /\ shelf'[c].ref = shelf'[c].corrected \/ "sidecar" \in shelf'[c].owed
             /\ Head(tails[c]) = [op |-> "remove", for |-> c] => "rollback" \in shelf'[c].owed,
         shelf[c].row # "kept" => (shelf'[c].files = "none" /\ ~shelf'[c].ref) \/ "delete" \in shelf'[c].owed
  PROVE  LibraryInv'
<1>1. LibraryTypes /\ StartedPart /\ RowPart /\ FilesPart /\ SidecarPart /\ RefusedPart /\ QuotaPart
      BY DEF LibraryInv
<1>2. /\ DOMAIN tails' = Captures /\ \A d \in Captures : tails'[d] \in Seq(Mutations(d))
      /\ started' \in [Captures -> BOOLEAN] /\ ~started'[c] /\ ~Removing(c)'
      /\ ingest' \in [Captures -> Ingests]
      /\ \A d \in Captures : /\ d # c => /\ tails'[d] = tails[d] /\ started'[d] = started[d]
                                         /\ Removing(d)' = Removing(d)
                             /\ ingest'[d].cands \subseteq ingest[d].cands
                             /\ \/ ingest'[d].at = ingest[d].at
                                \/ /\ d = c /\ ingest'[d].at = "refused"
                                   /\ Head(tails[c]) = [op |-> "remove", for |-> c]
      BY <1>1, OverIs
<1>3. shelf[c].row # "none" /\ ingest[c].at # "writing" /\ ingest[c].at # "idle"
      BY <1>1 DEF RowPart, NoCopy
<1>4. \A d \in Captures : shelf'[d].row = shelf[d].row
      OBVIOUS
<1>5. LibraryTypes'
      BY <1>1, <1>2 DEF LibraryTypes
<1>6. StartedPart'
  <2>1. ASSUME NEW d \in Captures, started'[d]
        PROVE  /\ tails'[d] # <<>> /\ shelf'[d].row = IF Removing(d)' THEN "gone" ELSE "kept"
               /\ Syncing(d)' => shelf'[d].corrected = (Head(tails'[d]).op = "correct")
    <3>1. d # c
          BY <1>2, <2>1
    <3>2. tails'[d] = tails[d] /\ started'[d] = started[d] /\ Removing(d)' = Removing(d)
          BY <1>2, <3>1
    <3> QED BY <1>1, <1>4, <2>1, <3>1, <3>2 DEF StartedPart, Syncing
  <2> QED BY <2>1 DEF StartedPart
<1>7. RowPart'
  <2>1. \A d \in Captures : ingest[d].cands \subseteq Captures
        BY <1>1, RecordsAre
  <2>2. \A d \in Captures : /\ ingest'[d].cands \subseteq ingest[d].cands
                            /\ ingest'[d].at = ingest[d].at \/ (d = c /\ ingest'[d].at = "refused")
        BY <1>2
  <2>3. \A d \in Captures : d # c => tails'[d] = tails[d] /\ shelf'[d] = shelf[d]
        BY <1>2
  <2> QED BY <1>1, <1>3, <1>4, <2>1, <2>2, <2>3 DEF RowPart
<1>8. FilesPart' /\ SidecarPart' /\ RefusedPart'
  <2>1. ASSUME NEW d \in Captures, d # c
        PROVE  /\ shelf'[d] = shelf[d] /\ ingest'[d].at = ingest[d].at /\ Removing(d)' = Removing(d)
               /\ Syncing(d)' = Syncing(d)
        BY <1>2, <2>1 DEF Syncing
  <2>2. FilesPart'
    <3>1. \A d \in Captures : d # c =>
             /\ shelf'[d].row = "kept" => shelf'[d].files = "whole"
             /\ Stray(d)' => ingest'[d].at = "writing" \/ Removing(d)' \/ "delete" \in shelf'[d].owed
          BY <1>1, <2>1 DEF FilesPart, Stray
    <3>2. /\ shelf'[c].row = "kept" => shelf'[c].files = "whole"
          /\ Stray(c)' => "delete" \in shelf'[c].owed
          BY DEF Stray
    <3> QED BY <3>1, <3>2 DEF FilesPart
  <2>3. SidecarPart'
        BY <1>1, <2>1 DEF SidecarPart
  <2>4. RefusedPart'
    <3>1. ASSUME shelf'[c].row = "kept", ingest'[c].at = "refused" PROVE "rollback" \in shelf'[c].owed
          BY <1>1, <1>2, <3>1 DEF RefusedPart
    <3> QED BY <1>1, <2>1, <3>1 DEF RefusedPart
  <2> QED BY <2>2, <2>3, <2>4
<1>9. ShutPart'
      BY DEF ShutPart
<1>10. QuotaPart'
  <2>1. Kept' = Kept
        BY <1>4 DEF Kept
  <2>2. \A d \in Kept' \ Unchecked' : d \in Kept \ Unchecked /\ ingest'[d].at = ingest[d].at
    <3>1. ASSUME NEW d \in Kept' \ Unchecked', d # c
          PROVE  d \in Kept \ Unchecked /\ ingest'[d].at = ingest[d].at
      <4>1. d \in Captures /\ shelf'[d] = shelf[d] /\ ingest'[d].at = ingest[d].at
            BY <1>2, <3>1 DEF Kept
      <4> QED BY <2>1, <3>1, <4>1 DEF Unchecked, Stuck
    <3>2. ASSUME c \in Kept' \ Unchecked'
          PROVE  c \in Kept \ Unchecked /\ ingest'[c].at = ingest[c].at
      <4>1. c \in Kept /\ shelf[c].row = "kept" /\ "rollback" \notin shelf'[c].owed
            BY <2>1, <3>2 DEF Unchecked, Stuck, Kept
      <4>2. "rollback" \notin shelf[c].owed /\ ingest'[c].at = ingest[c].at
            BY <1>2, <4>1
      <4> QED BY <2>1, <3>2, <4>1, <4>2 DEF Unchecked, Stuck
    <3> QED BY <3>1, <3>2
  <2>3. Kept' \ Unchecked' \subseteq Kept \ Unchecked
        BY <2>2
  <2> QED BY <1>1, <2>2, <2>3, QuotaStays
<1> QED BY <1>5, <1>6, <1>7, <1>8, <1>9, <1>10 DEF LibraryInv

\* What the first mutation of a capture writes before its first await.
Written(c) == LET o == Head(tails[c])
              IN  CASE o.op = "correct" -> [shelf[c] EXCEPT !.corrected = TRUE]
                    [] o.op = "clear" -> [shelf[c] EXCEPT !.corrected = FALSE]
                    [] o.op = "promote" -> shelf[c]
                    [] OTHER -> [shelf[c] EXCEPT !.row = "gone"]

\* It writes a row that is there, and curated work only at the studio's request or for its own ingest.
LEMMA BeginsIs ==
  ASSUME LibraryInv, NEW c \in Captures, MutationBegins(c)
  PROVE  /\ library # "shut" /\ tails[c] # <<>> /\ ~started[c] /\ UNCHANGED <<library, opens, requests>>
         /\ Head(tails[c]) \in Mutations(c)
         /\ \/ /\ OverWith(c, TRUE) /\ UNCHANGED shelf
               /\ Head(tails[c]).op # "evict" => shelf[c].row # "kept"
            \/ /\ started' = [started EXCEPT ![c] = TRUE] /\ UNCHANGED <<tails, ingest>>
               /\ shelf' = [shelf EXCEPT ![c] = Written(c)]
               /\ shelf[c].row = "kept" /\ (Head(tails[c]).op = "evict" => ~IsPinned(c))
<1>1. library # "shut" /\ tails[c] # <<>> /\ ~started[c] /\ UNCHANGED <<library, opens, requests>>
      BY DEF MutationBegins
<1>2. tails[c] \in Seq(Mutations(c))
      BY RecordsAre DEF LibraryInv
<1>3. Head(tails[c]) \in Mutations(c)
      BY <1>1, <1>2, QueueIs
<1>4. \/ OverWith(c, TRUE) /\ UNCHANGED shelf /\ (Head(tails[c]).op # "evict" => shelf[c].row # "kept")
      \/ /\ started' = [started EXCEPT ![c] = TRUE] /\ UNCHANGED <<tails, ingest>>
         /\ shelf' = [shelf EXCEPT ![c] =
               LET o == Head(tails[c])
               IN  CASE o.op = "correct" -> [@ EXCEPT !.corrected = TRUE]
                     [] o.op = "clear" -> [@ EXCEPT !.corrected = FALSE]
                     [] o.op = "promote" -> @
                     [] OTHER -> [@ EXCEPT !.row = "gone"]]
         /\ shelf[c].row = "kept" /\ (Head(tails[c]).op = "evict" => ~IsPinned(c))
      BY DEF MutationBegins, StillApplies, mayEvict
<1>5. [shelf EXCEPT ![c] =
               LET o == Head(tails[c])
               IN  CASE o.op = "correct" -> [@ EXCEPT !.corrected = TRUE]
                     [] o.op = "clear" -> [@ EXCEPT !.corrected = FALSE]
                     [] o.op = "promote" -> @
                     [] OTHER -> [@ EXCEPT !.row = "gone"]] = [shelf EXCEPT ![c] = Written(c)]
      BY DEF Written
<1> QED BY <1>1, <1>3, <1>4, <1>5

\* The copy that is written.
LEMMA WrittenIs ==
  ASSUME LibraryInv, NEW c \in Captures, Head(tails[c]) \in Mutations(c), shelf[c].row = "kept"
  PROVE  /\ Written(c) \in Copies /\ Written(c).files = "whole"
         /\ Written(c).row = IF Head(tails[c]).op \in {"evict", "remove"} THEN "gone" ELSE "kept"
         /\ Written(c).owed = shelf[c].owed /\ Written(c).ref = shelf[c].ref
         /\ Written(c).corrected = IF Head(tails[c]).op \in {"correct", "clear"} THEN Head(tails[c]).op = "correct"
                                   ELSE shelf[c].corrected
<1>1. shelf[c] \in Copies /\ shelf[c].files = "whole"
      BY RecordsAre DEF LibraryInv, FilesPart
<1> DEFINE k == Head(tails[c]).op
<1>2. k \in {"correct", "clear", "promote", "remove", "evict"}
      BY MutationIs
<1>3. Written(c) = CASE k = "correct" -> [shelf[c] EXCEPT !.corrected = TRUE]
                     [] k = "clear" -> [shelf[c] EXCEPT !.corrected = FALSE]
                     [] k = "promote" -> shelf[c]
                     [] OTHER -> [shelf[c] EXCEPT !.row = "gone"]
      BY DEF Written
<1> HIDE DEF k
<1>4. /\ Written(c) \in Copies /\ Written(c).files = "whole"
      /\ Written(c).row = IF k \in {"evict", "remove"} THEN "gone" ELSE "kept"
      BY <1>1, <1>2, <1>3 DEF Copies
<1>5. /\ Written(c).owed = shelf[c].owed /\ Written(c).ref = shelf[c].ref
      /\ Written(c).corrected = IF k \in {"correct", "clear"} THEN k = "correct" ELSE shelf[c].corrected
      BY <1>1, <1>2, <1>3 DEF Copies
<1> QED BY <1>4, <1>5 DEF k

\* A mutation begins, or finds nothing to do.
LEMMA MutationBeginsKeeps ==
  ASSUME LibraryInv, NEW c \in Captures, MutationBegins(c)
  PROVE  LibraryInv'
<1>1. LibraryTypes /\ StartedPart /\ RowPart /\ FilesPart /\ SidecarPart /\ RefusedPart /\ QuotaPart
      BY DEF LibraryInv
<1>2. /\ library # "shut" /\ tails[c] # <<>> /\ ~started[c] /\ UNCHANGED <<library, opens, requests>>
      /\ Head(tails[c]) \in Mutations(c)
      BY BeginsIs
<1>3. shelf[c].row # "none" /\ ingest[c].at # "writing" /\ ingest[c].at # "idle"
      BY <1>1, <1>2 DEF RowPart, NoCopy
<1>4. CASE /\ OverWith(c, TRUE) /\ UNCHANGED shelf
           /\ Head(tails[c]).op # "evict" => shelf[c].row # "kept"
  <2>1. shelf[c].row = "kept" =>
           /\ shelf[c].files = "whole" /\ Head(tails[c]).op # "remove"
           /\ shelf[c].ref = shelf[c].corrected \/ "sidecar" \in shelf[c].owed
        BY <1>1, <1>2, <1>4 DEF FilesPart, SidecarPart, Syncing
  <2>2. shelf[c].row # "kept" => (shelf[c].files = "none" /\ ~shelf[c].ref) \/ "delete" \in shelf[c].owed
        BY <1>1, <1>2, <1>3 DEF FilesPart, Removing, Stray
  <2>3. shelf' \in [Captures -> Copies] /\ shelf' = shelf
        BY <1>1, <1>4 DEF LibraryTypes
  <2>4. Head(tails[c]) = [op |-> "remove", for |-> c] => Head(tails[c]).op = "remove"
        OBVIOUS
  <2> QED BY <1>2, <1>4, <2>1, <2>2, <2>3, <2>4, OverKeeps
<1>5. CASE /\ started' = [started EXCEPT ![c] = TRUE] /\ UNCHANGED <<tails, ingest>>
           /\ shelf' = [shelf EXCEPT ![c] = Written(c)]
           /\ shelf[c].row = "kept" /\ (Head(tails[c]).op = "evict" => ~IsPinned(c))
  <2>1. /\ Written(c) \in Copies /\ Written(c).files = "whole"
        /\ Written(c).row = IF Head(tails[c]).op \in {"evict", "remove"} THEN "gone" ELSE "kept"
        /\ Written(c).owed = shelf[c].owed /\ Written(c).ref = shelf[c].ref
        /\ Written(c).corrected = IF Head(tails[c]).op \in {"correct", "clear"} THEN Head(tails[c]).op = "correct"
                                  ELSE shelf[c].corrected
        BY <1>2, <1>5, WrittenIs
  <2>2. /\ shelf' \in [Captures -> Copies] /\ shelf'[c] = Written(c)
        /\ \A d \in Captures : d # c => shelf'[d] = shelf[d]
        BY <1>1, <1>5, <2>1, ReplacedIs
  <2>3. /\ started' \in [Captures -> BOOLEAN] /\ started'[c]
        /\ \A d \in Captures : d # c => started'[d] = started[d] /\ Removing(d)' = Removing(d)
                                                /\ Syncing(d)' = Syncing(d)
        BY <1>1, <1>5 DEF LibraryTypes, Removing, Syncing
  <2>4. Removing(c)' <=> Head(tails[c]).op \in {"evict", "remove"}
        BY <1>5, <2>3 DEF Removing
  <2>5. LibraryTypes'
        BY <1>1, <1>2, <1>5, <2>2, <2>3 DEF LibraryTypes
  <2>6. StartedPart'
    <3>1. ASSUME NEW d \in Captures, d # c, started'[d]
          PROVE  /\ tails'[d] # <<>> /\ shelf'[d].row = IF Removing(d)' THEN "gone" ELSE "kept"
                 /\ Syncing(d)' => shelf'[d].corrected = (Head(tails'[d]).op = "correct")
          BY <1>1, <1>5, <2>2, <2>3, <3>1 DEF StartedPart
    <3>2. /\ tails'[c] # <<>> /\ shelf'[c].row = IF Removing(c)' THEN "gone" ELSE "kept"
          /\ Syncing(c)' => shelf'[c].corrected = (Head(tails'[c]).op = "correct")
          BY <1>2, <1>5, <2>1, <2>2, <2>4 DEF Syncing
    <3> QED BY <3>1, <3>2 DEF StartedPart
  <2>7. RowPart'
    <3>1. \A d \in Captures : shelf[d].row # "none" <=> shelf'[d].row # "none"
          BY <1>5, <2>1, <2>2
    <3>2. \A d \in Captures : ingest[d].cands \subseteq Captures
          BY <1>1, RecordsAre
    <3> QED BY <1>1, <1>3, <1>5, <2>2, <3>1, <3>2 DEF RowPart
  <2>8. FilesPart' /\ SidecarPart' /\ RefusedPart'
    <3>1. FilesPart'
          BY <1>1, <1>2, <1>5, <2>1, <2>2, <2>3, <2>4 DEF FilesPart, Stray
    <3>2. shelf'[c].ref = shelf'[c].corrected \/ Syncing(c)' \/ "sidecar" \in shelf'[c].owed
          BY <1>1, <1>2, <1>5, <2>1, <2>2, <2>3 DEF SidecarPart, Syncing
    <3>3. SidecarPart'
          BY <1>1, <2>2, <2>3, <3>2 DEF SidecarPart
    <3>4. RefusedPart'
          BY <1>1, <1>5, <2>1, <2>2 DEF RefusedPart
    <3> QED BY <3>1, <3>3, <3>4
  <2>9. ShutPart'
        BY <1>2 DEF ShutPart
  <2>10. QuotaPart'
    <3>1. Kept' \subseteq Kept
          BY <1>5, <2>2 DEF Kept
    <3>2. \A d \in Captures : shelf'[d].owed = shelf[d].owed
          BY <2>1, <2>2
    <3>3. Kept' \ Unchecked' \subseteq Kept \ Unchecked
          BY <1>5, <3>1, <3>2 DEF Unchecked, Stuck, Kept
    <3> QED BY <1>1, <1>2, <1>5, <3>3, QuotaStays
  <2> QED BY <2>5, <2>6, <2>7, <2>8, <2>9, <2>10 DEF LibraryInv
<1> QED BY <1>4, <1>5, BeginsIs

\* A statement that fails leaves the row as it was.
LEMMA ThrowsIs ==
  ASSUME LibraryInv, NEW c \in Captures, MutationFails(c)
  PROVE  /\ library # "shut" /\ tails[c] # <<>> /\ ~started[c] /\ OverWith(c, FALSE)
         /\ UNCHANGED <<library, opens, requests>> /\ shelf[c].row = "kept"
         /\ shelf' \in [Captures -> Copies] /\ \A d \in Captures : d # c => shelf'[d] = shelf[d]
         /\ shelf'[c].row = shelf[c].row /\ shelf'[c].files = shelf[c].files
         /\ shelf'[c].ref = shelf[c].ref /\ shelf'[c].corrected = shelf[c].corrected
         /\ shelf[c].owed \subseteq shelf'[c].owed
         /\ Head(tails[c]) = [op |-> "remove", for |-> c] => "rollback" \in shelf'[c].owed
<1>1. /\ library # "shut" /\ tails[c] # <<>> /\ ~started[c] /\ OverWith(c, FALSE)
      /\ UNCHANGED <<library, opens, requests>> /\ shelf[c].row = "kept"
      BY DEF MutationFails, StillApplies, mayEvict
<1>2. shelf \in [Captures -> Copies] /\ shelf[c] \in Copies
      BY DEF LibraryInv, LibraryTypes
<1> DEFINE q == [shelf[c] EXCEPT !.owed = @ \union {"rollback"}]
<1>3. /\ q \in Copies /\ q.row = shelf[c].row /\ q.files = shelf[c].files /\ q.ref = shelf[c].ref
      /\ q.corrected = shelf[c].corrected /\ q.owed = shelf[c].owed \union {"rollback"}
      BY <1>2 DEF Copies
<1>4. CASE Head(tails[c]) = [op |-> "remove", for |-> c]
  <2>1. shelf' = [shelf EXCEPT ![c] = q]
        BY <1>4 DEF MutationFails
  <2> HIDE DEF q
  <2>2. /\ shelf' \in [Captures -> Copies] /\ shelf'[c] = q
        /\ \A d \in Captures : d # c => shelf'[d] = shelf[d]
        BY <1>2, <1>3, <2>1
  <2> QED BY <1>1, <1>3, <2>2
<1>5. CASE Head(tails[c]) # [op |-> "remove", for |-> c]
  <2>1. shelf' = shelf
        BY <1>5 DEF MutationFails
  <2> QED BY <1>1, <1>2, <1>5, <2>1
<1> QED BY <1>4, <1>5

LEMMA MutationFailsKeeps ==
  ASSUME LibraryInv, NEW c \in Captures, MutationFails(c)
  PROVE  LibraryInv'
<1>1. /\ library # "shut" /\ tails[c] # <<>> /\ ~started[c] /\ OverWith(c, FALSE)
      /\ UNCHANGED <<library, opens, requests>> /\ shelf[c].row = "kept"
      /\ shelf' \in [Captures -> Copies] /\ \A d \in Captures : d # c => shelf'[d] = shelf[d]
      /\ shelf'[c].row = shelf[c].row /\ shelf'[c].files = shelf[c].files
      /\ shelf'[c].ref = shelf[c].ref /\ shelf'[c].corrected = shelf[c].corrected
      /\ shelf[c].owed \subseteq shelf'[c].owed
      /\ Head(tails[c]) = [op |-> "remove", for |-> c] => "rollback" \in shelf'[c].owed
      BY ThrowsIs
<1>2. shelf[c].files = "whole" /\ (shelf[c].ref = shelf[c].corrected \/ "sidecar" \in shelf[c].owed)
      BY <1>1 DEF LibraryInv, FilesPart, SidecarPart, Syncing
<1> QED BY <1>1, <1>2, OverKeeps

\* What follows the await, of a capture p: the deletions, the sidecar, or the engine's answer.
Deleted(p, audio, sidecar) ==
    [p EXCEPT !.files = IF audio THEN "none" ELSE "left", !.ref = p.ref /\ ~sidecar,
              !.owed = IF audio /\ sidecar THEN p.owed ELSE p.owed \union {"delete"}]
Synced(p, ref, w) == [p EXCEPT !.ref = ref, !.owed = w]
Answered(p, answer) == [p EXCEPT !.promoted = answer]

Follows(p, k, q) ==
    \/ k \in {"evict", "remove"} /\ \E audio \in BOOLEAN, sidecar \in BOOLEAN : q = Deleted(p, audio, sidecar)
    \/ k = "promote" /\ \E answer \in BOOLEAN : q = Answered(p, answer)
    \/ /\ k \in {"correct", "clear"}
       /\ \/ q = Synced(p, k = "correct", p.owed \ {"sidecar"})
          \/ \E ref \in BOOLEAN : q = Synced(p, ref, p.owed \union {"sidecar"})

LEMMA DeletedIs ==
  ASSUME NEW p \in Copies, NEW audio \in BOOLEAN, NEW sidecar \in BOOLEAN
  PROVE  LET q == Deleted(p, audio, sidecar)
         IN  /\ q \in Copies /\ q.row = p.row /\ q.corrected = p.corrected /\ p.owed \subseteq q.owed
             /\ (q.files = "none" /\ ~q.ref) \/ "delete" \in q.owed
<1> DEFINE f == IF audio THEN "none" ELSE "left"
           r == p.ref /\ ~sidecar
           w == IF audio /\ sidecar THEN p.owed ELSE p.owed \union {"delete"}
<1>1. /\ f \in {"none", "left"} /\ r \in BOOLEAN /\ w \in SUBSET {"delete", "sidecar", "rollback"}
      /\ p.owed \subseteq w
  <2>1. p.owed \in SUBSET {"delete", "sidecar", "rollback"}
        BY DEF Copies
  <2> QED BY <2>1
<1>2. (f = "none" /\ ~r) \/ "delete" \in w
      OBVIOUS
<1>3. Deleted(p, audio, sidecar) = [p EXCEPT !.files = f, !.ref = r, !.owed = w]
      BY DEF Deleted
<1> HIDE DEF f, r, w
<1> DEFINE q == [p EXCEPT !.files = f, !.ref = r, !.owed = w]
<1>4. q \in Copies /\ q.row = p.row /\ q.corrected = p.corrected /\ q.files = f /\ q.ref = r /\ q.owed = w
      BY <1>1 DEF Copies
<1> HIDE DEF q
<1>5. /\ q \in Copies /\ q.row = p.row /\ q.corrected = p.corrected /\ p.owed \subseteq q.owed
      /\ (q.files = "none" /\ ~q.ref) \/ "delete" \in q.owed
      BY <1>1, <1>2, <1>4
<1> QED BY <1>3, <1>5 DEF q

LEMMA SyncedIs ==
  ASSUME NEW p \in Copies, NEW ref \in BOOLEAN, NEW w \in SUBSET {"delete", "sidecar", "rollback"}
  PROVE  LET q == Synced(p, ref, w)
         IN  /\ q \in Copies /\ q.row = p.row /\ q.corrected = p.corrected /\ q.files = p.files
             /\ q.ref = ref /\ q.owed = w
  BY DEF Synced, Copies

LEMMA FollowsIs ==
  ASSUME NEW p \in Copies, NEW k \in {"correct", "clear", "promote", "remove", "evict"}, NEW q, Follows(p, k, q)
  PROVE  /\ q \in Copies /\ q.row = p.row /\ q.corrected = p.corrected
         /\ "rollback" \in p.owed => "rollback" \in q.owed
         /\ k \in {"evict", "remove"} => (q.files = "none" /\ ~q.ref) \/ "delete" \in q.owed
         /\ k \notin {"evict", "remove"} => q.files = p.files
         /\ k \in {"correct", "clear"} => q.ref = (k = "correct") \/ "sidecar" \in q.owed
         /\ k = "promote" => q.ref = p.ref /\ q.owed = p.owed
<1>1. p.owed \in SUBSET {"delete", "sidecar", "rollback"}
      BY DEF Copies
<1>2. CASE k \in {"evict", "remove"}
  <2>1. PICK audio \in BOOLEAN, sidecar \in BOOLEAN : q = Deleted(p, audio, sidecar)
        BY <1>2 DEF Follows
  <2>2. /\ q \in Copies /\ q.row = p.row /\ q.corrected = p.corrected /\ p.owed \subseteq q.owed
        /\ (q.files = "none" /\ ~q.ref) \/ "delete" \in q.owed
        BY <2>1, DeletedIs
  <2> QED BY <1>2, <2>2
<1>3. CASE k = "promote"
  <2>1. PICK answer \in BOOLEAN : q = Answered(p, answer)
        BY <1>3 DEF Follows
  <2>2. /\ q \in Copies /\ q.row = p.row /\ q.corrected = p.corrected /\ q.files = p.files
        /\ q.ref = p.ref /\ q.owed = p.owed
        BY <2>1 DEF Copies, Answered
  <2> QED BY <1>3, <2>2
<1>4. CASE k \in {"correct", "clear"}
  <2>1. CASE q = Synced(p, k = "correct", p.owed \ {"sidecar"})
    <3> DEFINE mirrors == k = "correct"
               w == p.owed \ {"sidecar"}
    <3>1. mirrors \in BOOLEAN /\ w \in SUBSET {"delete", "sidecar", "rollback"} /\ ("rollback" \in p.owed => "rollback" \in w)
          BY <1>1
    <3> HIDE DEF mirrors, w
    <3>2. /\ q \in Copies /\ q.row = p.row /\ q.corrected = p.corrected /\ q.files = p.files
          /\ q.ref = mirrors /\ q.owed = w
      <4>1. q = Synced(p, mirrors, w)
            BY <2>1 DEF mirrors, w
      <4> QED BY <3>1, <4>1, SyncedIs
    <3> QED BY <1>4, <3>1, <3>2 DEF mirrors
  <2>2. CASE \E ref \in BOOLEAN : q = Synced(p, ref, p.owed \union {"sidecar"})
    <3>1. PICK ref \in BOOLEAN : q = Synced(p, ref, p.owed \union {"sidecar"})
          BY <2>2
    <3>2. p.owed \union {"sidecar"} \in SUBSET {"delete", "sidecar", "rollback"}
          BY <1>1
    <3>3. /\ q \in Copies /\ q.row = p.row /\ q.corrected = p.corrected /\ q.files = p.files
          /\ q.owed = p.owed \union {"sidecar"}
          BY <3>1, <3>2, SyncedIs
    <3> QED BY <1>4, <3>3
  <2> QED BY <1>4, <2>1, <2>2 DEF Follows
<1> QED BY <1>2, <1>3, <1>4

\* It leaves the row alone.
LEMMA EndsIs ==
  ASSUME LibraryInv, NEW c \in Captures, MutationEnds(c)
  PROVE  /\ library # "shut" /\ tails[c] # <<>> /\ started[c] /\ OverWith(c, TRUE)
         /\ UNCHANGED <<library, opens, requests>>
         /\ Head(tails[c]).op \in {"correct", "clear", "promote", "remove", "evict"}
         /\ shelf[c].row = IF Head(tails[c]).op \in {"evict", "remove"} THEN "gone" ELSE "kept"
         /\ \E q : Follows(shelf[c], Head(tails[c]).op, q) /\ shelf' = [shelf EXCEPT ![c] = q]
<1> DEFINE k == Head(tails[c]).op
           p == shelf[c]
<1>1. LibraryTypes /\ StartedPart
      BY DEF LibraryInv
<1>2. /\ library # "shut" /\ started[c] /\ OverWith(c, TRUE) /\ UNCHANGED <<library, opens, requests>>
      BY DEF MutationEnds
<1>3. tails[c] # <<>> /\ p.row = (IF k \in {"evict", "remove"} THEN "gone" ELSE "kept")
      BY <1>1, <1>2 DEF StartedPart, Removing
<1>4. p \in Copies /\ tails[c] \in Seq(Mutations(c)) /\ p.ref \in BOOLEAN /\ p.promoted \in BOOLEAN
      BY <1>1, RecordsAre DEF Copies
<1>5. k \in {"correct", "clear", "promote", "remove", "evict"}
  <2>1. Head(tails[c]) \in Mutations(c)
        BY <1>3, <1>4, QueueIs
  <2> QED BY <2>1, MutationIs
<1>6. CASE EvictEnds(c) \/ RemoveEnds(c)
  <2>1. k \in {"evict", "remove"}
        BY <1>6 DEF EvictEnds, RemoveEnds
  <2>2. PICK audio \in BOOLEAN, sidecar \in BOOLEAN :
           shelf' = [shelf EXCEPT ![c] = Deleted(p, audio, sidecar)]
    <3>1. DeletesFiles(c)
          BY <1>6 DEF EvictEnds, RemoveEnds
    <3>2. PICK audio \in BOOLEAN, sidecar \in BOOLEAN :
             shelf' = [shelf EXCEPT ![c].files = IF audio THEN "none" ELSE "left",
                                    ![c].ref = @ /\ ~sidecar,
                                    ![c].owed = IF audio /\ sidecar THEN @ ELSE @ \union {"delete"}]
          BY <3>1 DEF DeletesFiles
    <3>3. shelf' = [shelf EXCEPT ![c] = Deleted(p, audio, sidecar)]
          BY <3>2 DEF Deleted
    <3> QED BY <3>3
  <2>3. Follows(p, k, Deleted(p, audio, sidecar))
        BY <2>1 DEF Follows
  <2> QED BY <1>2, <1>3, <1>5, <2>2, <2>3
<1>7. CASE PromoteEnds(c)
  <2>1. k = "promote"
        BY <1>7 DEF PromoteEnds
  <2>2. PICK answer \in BOOLEAN : shelf' = [shelf EXCEPT ![c] = Answered(p, answer)]
        BY <1>4, <1>7 DEF PromoteEnds, Answered
  <2>3. Follows(p, k, Answered(p, answer))
        BY <2>1 DEF Follows
  <2> QED BY <1>2, <1>3, <1>5, <2>2, <2>3
<1>8. CASE CorrectEnds(c)
  <2>1. k \in {"correct", "clear"}
        BY <1>8 DEF CorrectEnds
  <2>2. PICK ref \in {k = "correct", p.ref}, done \in BOOLEAN :
           /\ done => ref = (k = "correct")
           /\ shelf' = [shelf EXCEPT ![c] =
                 Synced(p, ref, IF done THEN p.owed \ {"sidecar"} ELSE p.owed \union {"sidecar"})]
    <3>1. PICK ref \in {k = "correct", p.ref}, done \in BOOLEAN :
             /\ done => ref = (k = "correct")
             /\ shelf' = [shelf EXCEPT ![c].ref = ref,
                                       ![c].owed = IF done THEN @ \ {"sidecar"} ELSE @ \union {"sidecar"}]
          BY <1>8 DEF CorrectEnds
    <3>2. shelf' = [shelf EXCEPT ![c] =
                 Synced(p, ref, IF done THEN p.owed \ {"sidecar"} ELSE p.owed \union {"sidecar"})]
          BY <3>1 DEF Synced
    <3> QED BY <3>1, <3>2
  <2>3. ref \in BOOLEAN
        BY <1>4, <2>2
  <2>4. CASE done
    <3>1. Follows(p, k, Synced(p, k = "correct", p.owed \ {"sidecar"}))
          BY <2>1 DEF Follows
    <3> QED BY <1>2, <1>3, <1>5, <2>2, <2>4, <3>1
  <2>5. CASE ~done
    <3>1. Follows(p, k, Synced(p, ref, p.owed \union {"sidecar"}))
          BY <2>1, <2>3 DEF Follows
    <3> QED BY <1>2, <1>3, <1>5, <2>2, <2>5, <3>1
  <2> QED BY <2>4, <2>5
<1> QED BY <1>6, <1>7, <1>8 DEF MutationEnds

\* A mutation that ends replaces one record of the shelf by one with the same row.
LEMMA EndsLeave ==
  ASSUME LibraryInv, NEW c \in Captures, MutationEnds(c)
  PROVE  /\ shelf' \in [Captures -> Copies] /\ shelf'[c].row = shelf[c].row
         /\ \A d \in Captures : d # c => shelf'[d] = shelf[d]
         /\ "rollback" \in shelf[c].owed => "rollback" \in shelf'[c].owed
         /\ shelf[c].row = "kept" =>
              /\ shelf'[c].files = "whole"
              /\ shelf'[c].ref = shelf'[c].corrected \/ "sidecar" \in shelf'[c].owed
              /\ Head(tails[c]).op # "remove"
         /\ shelf[c].row # "kept" => (shelf'[c].files = "none" /\ ~shelf'[c].ref) \/ "delete" \in shelf'[c].owed
<1> DEFINE k == Head(tails[c]).op
           p == shelf[c]
<1>1. LibraryTypes /\ p \in Copies /\ shelf \in [Captures -> Copies]
      BY DEF LibraryInv, LibraryTypes
<1>2. /\ k \in {"correct", "clear", "promote", "remove", "evict"} /\ started[c]
      /\ p.row = IF k \in {"evict", "remove"} THEN "gone" ELSE "kept"
      BY EndsIs
<1>3. PICK q : Follows(p, k, q) /\ shelf' = [shelf EXCEPT ![c] = q]
      BY EndsIs
<1>4. /\ p.row = "kept" => p.files = "whole"
      /\ p.row = "kept" => p.ref = p.corrected \/ k \in {"correct", "clear"} \/ "sidecar" \in p.owed
      BY DEF LibraryInv, FilesPart, SidecarPart, Syncing
<1>5. k \in {"correct", "clear"} => p.corrected = (k = "correct")
      BY <1>2 DEF LibraryInv, StartedPart, Syncing
<1> HIDE DEF k, p
<1>6. /\ q \in Copies /\ q.row = p.row /\ q.corrected = p.corrected
      /\ "rollback" \in p.owed => "rollback" \in q.owed
      /\ k \in {"evict", "remove"} => (q.files = "none" /\ ~q.ref) \/ "delete" \in q.owed
      /\ k \notin {"evict", "remove"} => q.files = p.files
      /\ k \in {"correct", "clear"} => q.ref = (k = "correct") \/ "sidecar" \in q.owed
      /\ k = "promote" => q.ref = p.ref /\ q.owed = p.owed
      BY <1>1, <1>2, <1>3, FollowsIs
<1>7. /\ shelf' \in [Captures -> Copies] /\ shelf'[c] = q
      /\ \A d \in Captures : d # c => shelf'[d] = shelf[d]
      BY <1>1, <1>3, <1>6, ReplacedIs
<1>8. p.row = "kept" => /\ q.files = "whole" /\ k # "remove"
                        /\ q.ref = q.corrected \/ "sidecar" \in q.owed
      BY <1>2, <1>4, <1>5, <1>6
<1>9. p.row # "kept" => (q.files = "none" /\ ~q.ref) \/ "delete" \in q.owed
      BY <1>2, <1>6
<1> QED BY <1>6, <1>7, <1>8, <1>9 DEF k, p

\* A mutation ends.
LEMMA MutationEndsKeeps ==
  ASSUME LibraryInv, NEW c \in Captures, MutationEnds(c)
  PROVE  LibraryInv'
<1>1. /\ library # "shut" /\ tails[c] # <<>> /\ OverWith(c, TRUE) /\ UNCHANGED <<library, opens, requests>>
      BY EndsIs
<1>2. /\ shelf' \in [Captures -> Copies] /\ shelf'[c].row = shelf[c].row
      /\ \A d \in Captures : d # c => shelf'[d] = shelf[d]
      /\ "rollback" \in shelf[c].owed => "rollback" \in shelf'[c].owed
      /\ shelf[c].row = "kept" =>
           /\ shelf'[c].files = "whole"
           /\ shelf'[c].ref = shelf'[c].corrected \/ "sidecar" \in shelf'[c].owed
           /\ Head(tails[c]).op # "remove"
      /\ shelf[c].row # "kept" => (shelf'[c].files = "none" /\ ~shelf'[c].ref) \/ "delete" \in shelf'[c].owed
      BY EndsLeave
<1>3. Head(tails[c]) = [op |-> "remove", for |-> c] => Head(tails[c]).op = "remove"
      OBVIOUS
<1> QED BY <1>1, <1>2, <1>3, OverKeeps

\* The library stops taking requests.
LEMMA CloseLibraryKeeps ==
  ASSUME LibraryInv, CloseLibrary
  PROVE  LibraryInv'
<1>1. /\ library # "shut" /\ library' = "closing"
      /\ UNCHANGED <<shelf, ingest, tails, started, opens, requests>>
      BY DEF CloseLibrary
<1>2. \A d \in Captures : Removing(d)' = Removing(d) /\ Syncing(d)' = Syncing(d)
      BY <1>1 DEF Removing, Syncing
<1>3. LibraryTypes'
      BY <1>1 DEF LibraryInv, LibraryTypes
<1>4. StartedPart' /\ RowPart'
      BY <1>1, <1>2 DEF LibraryInv, StartedPart, RowPart
<1>5. FilesPart' /\ SidecarPart' /\ RefusedPart'
      BY <1>1, <1>2 DEF LibraryInv, FilesPart, Stray, SidecarPart, RefusedPart
<1>6. ShutPart' /\ QuotaPart'
      BY <1>1 DEF ShutPart, QuotaPart
<1> QED BY <1>3, <1>4, <1>5, <1>6 DEF LibraryInv

\* A capture whose sidecar a crash has cut short.
CutShort(p) == [p EXCEPT !.owed = p.owed \union {"sidecar"}]

\* What is not written goes with the process: no queue and no ingest is left.
LEMMA ForgetsIs ==
  ASSUME LibraryInv, Forgets
  PROVE  /\ library' = "shut" /\ UNCHANGED <<opens, requests>>
         /\ ingest' \in [Captures -> Ingests] /\ shelf' \in [Captures -> Copies]
         /\ DOMAIN tails' = Captures /\ started' \in [Captures -> BOOLEAN]
         /\ \A c \in Captures :
               /\ ingest'[c].at = IF ingest[c].at = "idle" THEN "idle" ELSE "past"
               /\ ingest'[c].cands = {} /\ tails'[c] = <<>> /\ ~started'[c]
               /\ shelf'[c] = IF Syncing(c) THEN CutShort(shelf[c]) ELSE shelf[c]
               /\ shelf'[c].row = shelf[c].row /\ shelf'[c].files = shelf[c].files
               /\ shelf'[c].ref = shelf[c].ref /\ shelf'[c].corrected = shelf[c].corrected
               /\ "sidecar" \in shelf[c].owed \/ Syncing(c) => "sidecar" \in shelf'[c].owed
<1> DEFINE past(c) == IF ingest[c].at = "idle" THEN "idle" ELSE "past"
           left(c) == IF Syncing(c) THEN CutShort(shelf[c]) ELSE shelf[c]
<1>1. /\ library' = "shut" /\ UNCHANGED <<opens, requests>>
      /\ ingest' = [c \in Captures |-> [NoIngest EXCEPT !.at = past(c)]]
      /\ tails' = [c \in Captures |-> <<>>] /\ started' = [c \in Captures |-> FALSE]
      /\ shelf' = [c \in Captures |-> left(c)]
      BY DEF Forgets, CutShort, Syncing
<1>2. \A c \in Captures : /\ [NoIngest EXCEPT !.at = past(c)] \in Ingests
                          /\ [NoIngest EXCEPT !.at = past(c)].at = past(c)
                          /\ [NoIngest EXCEPT !.at = past(c)].cands = {}
      BY DEF NoIngest, Ingests
<1>3. ASSUME NEW q \in Copies
      PROVE  /\ CutShort(q) \in Copies /\ CutShort(q).row = q.row /\ CutShort(q).files = q.files
             /\ CutShort(q).ref = q.ref /\ CutShort(q).corrected = q.corrected /\ "sidecar" \in CutShort(q).owed
      BY DEF CutShort, Copies
<1>4. ASSUME NEW c \in Captures
      PROVE  /\ left(c) \in Copies /\ left(c).row = shelf[c].row /\ left(c).files = shelf[c].files
             /\ left(c).ref = shelf[c].ref /\ left(c).corrected = shelf[c].corrected
             /\ "sidecar" \in shelf[c].owed \/ Syncing(c) => "sidecar" \in left(c).owed
  <2>1. shelf[c] \in Copies
        BY RecordsAre DEF LibraryInv
  <2> QED BY <1>3, <2>1
<1> HIDE DEF left
<1>5. ingest' \in [Captures -> Ingests]
      BY <1>1, <1>2
<1>6. shelf' \in [Captures -> Copies] /\ \A c \in Captures : shelf'[c] = left(c)
      BY <1>1, <1>4
<1>7. DOMAIN tails' = Captures /\ started' \in [Captures -> BOOLEAN]
      BY <1>1
<1>8. \A c \in Captures : ingest'[c].at = past(c) /\ ingest'[c].cands = {} /\ tails'[c] = <<>> /\ ~started'[c]
      BY <1>1, <1>2
<1> QED BY <1>1, <1>4, <1>5, <1>6, <1>7, <1>8 DEF left

LEMMA ForgetsKeeps ==
  ASSUME LibraryInv, Forgets
  PROVE  LibraryInv'
<1>1. /\ library' = "shut" /\ UNCHANGED <<opens, requests>>
      /\ ingest' \in [Captures -> Ingests] /\ shelf' \in [Captures -> Copies]
      /\ DOMAIN tails' = Captures /\ started' \in [Captures -> BOOLEAN]
      /\ \A c \in Captures :
            /\ ingest'[c].at = IF ingest[c].at = "idle" THEN "idle" ELSE "past"
            /\ ingest'[c].cands = {} /\ tails'[c] = <<>> /\ ~started'[c]
            /\ shelf'[c] = IF Syncing(c) THEN CutShort(shelf[c]) ELSE shelf[c]
            /\ shelf'[c].row = shelf[c].row /\ shelf'[c].files = shelf[c].files
            /\ shelf'[c].ref = shelf[c].ref /\ shelf'[c].corrected = shelf[c].corrected
            /\ "sidecar" \in shelf[c].owed \/ Syncing(c) => "sidecar" \in shelf'[c].owed
      BY ForgetsIs
<1>2. LibraryTypes /\ StartedPart /\ RowPart /\ FilesPart /\ SidecarPart
      BY DEF LibraryInv
<1>3. LibraryTypes'
  <2>1. \A c \in Captures : <<>> \in Seq(Mutations(c))
        BY EmptySeq
  <2> QED BY <1>1, <1>2, <2>1 DEF LibraryTypes
<1>4. StartedPart' /\ ShutPart'
      BY <1>1 DEF StartedPart, ShutPart
<1>5. RowPart'
  <2>1. ASSUME NEW c \in Captures, ingest'[c].at = "idle" PROVE shelf'[c] = NoCopy
    <3>1. ingest[c].at = "idle" /\ shelf[c] = NoCopy /\ shelf[c].row = "none"
          BY <1>1, <1>2, <2>1 DEF RowPart, NoCopy
    <3>2. ~Syncing(c)
          BY <1>2, <3>1 DEF RowPart, StartedPart, Syncing
    <3> QED BY <1>1, <3>1, <3>2
  <2> QED BY <1>1, <2>1 DEF RowPart
<1>6. FilesPart' /\ SidecarPart' /\ RefusedPart' /\ QuotaPart'
  <2>1. FilesPart' /\ QuotaPart'
        BY <1>1, <1>2 DEF FilesPart, QuotaPart
  <2>2. SidecarPart'
        BY <1>1, <1>2 DEF SidecarPart
  <2>3. RefusedPart'
        BY <1>1 DEF RefusedPart
  <2> QED BY <2>1, <2>2, <2>3
<1> QED BY <1>3, <1>4, <1>5, <1>6 DEF LibraryInv

\* The captures that make room when the library is opened: the oldest nobody curated.
GoesOnOpen(c) == /\ c \in Kept \ Pinned
                 /\ Cardinality(Kept \ {d \in Kept \ Pinned : d < c}) > Quota

\* What opening makes of a copy: it is spared, or nothing of it is left but that it was
\* there, or its files outlive its row.
Spared(p) == [p EXCEPT !.owed = p.owed \intersect {"sidecar"}]
Nothing(p) == [NoCopy EXCEPT !.row = IF p.row = "none" THEN "none" ELSE "gone"]
Outlived(p) == [Spared(p) EXCEPT !.row = "gone"]

LEMMA OpenedAre ==
  ASSUME NEW p \in Copies
  PROVE  /\ Spared(p) \in Copies /\ Spared(p).row = p.row /\ Spared(p).corrected = p.corrected
         /\ Spared(p).promoted = p.promoted /\ Spared(p).files = p.files /\ Spared(p).ref = p.ref
         /\ "sidecar" \in p.owed => "sidecar" \in Spared(p).owed
         /\ Nothing(p) \in Copies /\ Nothing(p).files = "none" /\ ~Nothing(p).ref
         /\ Nothing(p).row = IF p.row = "none" THEN "none" ELSE "gone"
         /\ p.row = "none" => Nothing(p) = NoCopy
         /\ Outlived(p) \in Copies /\ Outlived(p).row = "gone"
<1>1. /\ Spared(p) \in Copies /\ Spared(p).row = p.row /\ Spared(p).corrected = p.corrected
      /\ Spared(p).promoted = p.promoted /\ Spared(p).files = p.files /\ Spared(p).ref = p.ref
      /\ "sidecar" \in p.owed => "sidecar" \in Spared(p).owed
  <2> DEFINE w == p.owed \intersect {"sidecar"}
  <2>1. w \in SUBSET {"delete", "sidecar", "rollback"} /\ ("sidecar" \in p.owed => "sidecar" \in w)
        OBVIOUS
  <2>2. Spared(p) = [p EXCEPT !.owed = w]
        BY DEF Spared
  <2> HIDE DEF w
  <2> QED BY <2>1, <2>2 DEF Copies
<1>2. /\ Nothing(p) \in Copies /\ Nothing(p).files = "none" /\ ~Nothing(p).ref
      /\ Nothing(p).row = IF p.row = "none" THEN "none" ELSE "gone"
      BY DEF Nothing, NoCopy, Copies
<1>3. p.row = "none" => Nothing(p) = NoCopy
      BY DEF Nothing, NoCopy
<1>4. Outlived(p) \in Copies /\ Outlived(p).row = "gone"
      BY <1>1 DEF Outlived, Copies
<1> QED BY <1>1, <1>2, <1>3, <1>4

\* What is swept on opening, and what makes room.
LEMMA ReconciledIs ==
  ASSUME LibraryInv
  PROVE  /\ reconcile(shelf) = [c \in Captures |-> IF c \in Kept THEN Spared(shelf[c]) ELSE Nothing(shelf[c])]
         /\ evictedOnOpen(reconcile(shelf)) = {c \in Captures : GoesOnOpen(c)}
<1> DEFINE s == reconcile(shelf)
           kept == {c \in Captures : s[c].row = "kept"}
           free == {c \in kept : ~s[c].corrected /\ ~s[c].promoted}
<1>1. s = [c \in Captures |-> IF c \in Kept THEN Spared(shelf[c]) ELSE Nothing(shelf[c])]
  <2>1. \A c \in Captures : (c \in Kept <=> shelf[c].row = "kept") /\ (c \in Kept => shelf[c].files = "whole")
        BY DEF Kept, LibraryInv, FilesPart
  <2> QED BY <2>1 DEF reconcile, Spared, Nothing
<1>2. ASSUME NEW c \in Captures
      PROVE  /\ s[c].row = "kept" <=> c \in Kept
             /\ c \in Kept => s[c].corrected = shelf[c].corrected /\ s[c].promoted = shelf[c].promoted
  <2>1. shelf[c] \in Copies /\ (c \in Kept <=> shelf[c].row = "kept")
        BY RecordsAre DEF LibraryInv, Kept
  <2>2. s[c] = IF c \in Kept THEN Spared(shelf[c]) ELSE Nothing(shelf[c])
        BY <1>1
  <2> HIDE DEF s
  <2> QED BY <2>1, <2>2, OpenedAre
<1>3. evictedOnOpen(s) = {c \in free : Cardinality(kept \ {d \in free : d < c}) > Quota}
      BY DEF evictedOnOpen
<1> HIDE DEF s
<1>4. kept = Kept
      BY <1>2 DEF Kept
<1>5. free = Kept \ Pinned
      BY <1>2, <1>4 DEF Kept, Pinned, IsPinned
<1>6. {c \in Kept \ Pinned : Cardinality(Kept \ {d \in Kept \ Pinned : d < c}) > Quota}
         = {c \in Captures : GoesOnOpen(c)}
      BY DEF GoesOnOpen, Kept
<1> HIDE DEF kept, free
<1>7. evictedOnOpen(s) = {c \in Captures : GoesOnOpen(c)}
      BY <1>3, <1>4, <1>5, <1>6
<1> QED BY <1>1, <1>7 DEF s

\* What an opening, complete or not, may do to a capture.
Swept(c) == \/ shelf'[c] = shelf[c]
            \/ shelf[c].row = "kept" /\ shelf'[c] = Spared(shelf[c])
            \/ shelf'[c] = Nothing(shelf[c])
            \/ shelf[c].row = "kept" /\ shelf'[c] = Outlived(shelf[c])

\* Opening keeps a capture, or leaves nothing of it.
LEMMA OpenIs ==
  ASSUME LibraryInv, OpenLibrary
  PROVE  /\ library = "shut" /\ library' = "open" /\ opens' \in Nat
         /\ UNCHANGED <<ingest, tails, started, requests>>
         /\ shelf' = [c \in Captures |->
              IF c \in Kept /\ ~GoesOnOpen(c) THEN Spared(shelf[c]) ELSE Nothing(shelf[c])]
<1> DEFINE s == reconcile(shelf)
           goes == evictedOnOpen(s)
<1>1. /\ library = "shut" /\ library' = "open" /\ opens' = opens + 1
      /\ UNCHANGED <<ingest, tails, started, requests>>
      /\ shelf' = [c \in Captures |-> IF c \in goes THEN [NoCopy EXCEPT !.row = "gone"] ELSE s[c]]
      BY DEF OpenLibrary
<1>2. opens' \in Nat
      BY <1>1 DEF LibraryInv, LibraryTypes
<1>3. /\ s = [c \in Captures |-> IF c \in Kept THEN Spared(shelf[c]) ELSE Nothing(shelf[c])]
      /\ goes = {c \in Captures : GoesOnOpen(c)}
      BY ReconciledIs
<1> HIDE DEF s, goes
<1>4. ASSUME NEW c \in Captures
      PROVE  (IF c \in goes THEN [NoCopy EXCEPT !.row = "gone"] ELSE s[c])
             = IF c \in Kept /\ ~GoesOnOpen(c) THEN Spared(shelf[c]) ELSE Nothing(shelf[c])
  <2>1. CASE GoesOnOpen(c)
    <3>1. shelf[c].row = "kept" /\ c \in goes
          BY <1>3, <2>1 DEF GoesOnOpen, Kept
    <3>2. Nothing(shelf[c]) = [NoCopy EXCEPT !.row = "gone"]
          BY <3>1 DEF Nothing
    <3> QED BY <2>1, <3>1, <3>2
  <2>2. CASE ~GoesOnOpen(c)
        BY <1>3, <2>2
  <2> QED BY <2>1, <2>2
<1> QED BY <1>1, <1>2, <1>4

\* An opening that fails has swept some captures, and taken none that is curated.
LEMMA OpeningFailsIs ==
  ASSUME LibraryInv, OpeningFails
  PROVE  /\ library = "shut" /\ UNCHANGED <<ingest, tails, started, library, opens, requests>>
         /\ DOMAIN shelf' = Captures
         /\ \A c \in Captures : Swept(c) /\ (c \in Pinned => shelf'[c].row = "kept")
<1> DEFINE s == reconcile(shelf)
           goes == evictedOnOpen(s)
<1>1. /\ library = "shut" /\ UNCHANGED <<ingest, tails, started, library, opens, requests>>
      /\ \/ \E swept \in SUBSET Captures : shelf' = [c \in Captures |-> IF c \in swept THEN s[c] ELSE shelf[c]]
         \/ \E taken \in goes :
               shelf' = [c \in Captures |->
                   IF c = taken THEN [s[c] EXCEPT !.row = "gone"]
                   ELSE IF c \in goes /\ c < taken THEN [NoCopy EXCEPT !.row = "gone"]
                   ELSE s[c]]
      BY DEF OpeningFails
<1>2. /\ s = [c \in Captures |-> IF c \in Kept THEN Spared(shelf[c]) ELSE Nothing(shelf[c])]
      /\ goes = {c \in Captures : GoesOnOpen(c)}
      BY ReconciledIs
<1> HIDE DEF s, goes
<1>3. ASSUME NEW c \in Captures
      PROVE  /\ shelf[c] \in Copies /\ (c \in Kept <=> shelf[c].row = "kept")
             /\ s[c] = IF c \in Kept THEN Spared(shelf[c]) ELSE Nothing(shelf[c])
             /\ c \in goes => c \in Kept /\ c \notin Pinned
             /\ c \in Pinned => c \in Kept
      BY <1>2, RecordsAre DEF LibraryInv, Kept, GoesOnOpen, Pinned
<1>4. CASE \E swept \in SUBSET Captures : shelf' = [c \in Captures |-> IF c \in swept THEN s[c] ELSE shelf[c]]
  <2>1. PICK swept \in SUBSET Captures : shelf' = [c \in Captures |-> IF c \in swept THEN s[c] ELSE shelf[c]]
        BY <1>4
  <2>2. ASSUME NEW c \in Captures PROVE Swept(c) /\ (c \in Pinned => shelf'[c].row = "kept")
    <3>1. shelf'[c] = shelf[c] \/ shelf'[c] = s[c]
          BY <2>1
    <3> QED BY <1>3, <3>1, OpenedAre DEF Swept
  <2> QED BY <1>1, <2>1, <2>2
<1>5. CASE \E taken \in goes :
               shelf' = [c \in Captures |->
                   IF c = taken THEN [s[c] EXCEPT !.row = "gone"]
                   ELSE IF c \in goes /\ c < taken THEN [NoCopy EXCEPT !.row = "gone"]
                   ELSE s[c]]
  <2>1. PICK taken \in goes :
               shelf' = [c \in Captures |->
                   IF c = taken THEN [s[c] EXCEPT !.row = "gone"]
                   ELSE IF c \in goes /\ c < taken THEN [NoCopy EXCEPT !.row = "gone"]
                   ELSE s[c]]
        BY <1>5
  <2>2. ASSUME NEW c \in Captures PROVE Swept(c) /\ (c \in Pinned => shelf'[c].row = "kept")
    <3>1. CASE c \in goes
      <4>1. c \in Kept /\ c \notin Pinned /\ shelf[c].row = "kept" /\ s[c] = Spared(shelf[c])
            BY <1>3, <3>1
      <4>2. \/ shelf'[c] = [s[c] EXCEPT !.row = "gone"] \/ shelf'[c] = [NoCopy EXCEPT !.row = "gone"]
            \/ shelf'[c] = s[c]
            BY <2>1
      <4>3. [s[c] EXCEPT !.row = "gone"] = Outlived(shelf[c]) /\ [NoCopy EXCEPT !.row = "gone"] = Nothing(shelf[c])
            BY <4>1 DEF Outlived, Nothing
      <4> QED BY <4>1, <4>2, <4>3 DEF Swept
    <3>2. CASE c \notin goes
      <4>1. shelf'[c] = s[c]
            BY <2>1, <3>2
      <4> QED BY <1>3, <4>1, OpenedAre DEF Swept
    <3> QED BY <3>1, <3>2
  <2> QED BY <1>1, <2>1, <2>2
<1> QED BY <1>1, <1>4, <1>5

\* A sweep leaves the invariant alone, but for what an open library promises.
LEMMA SweptKeeps ==
  ASSUME LibraryInv, library = "shut", UNCHANGED <<ingest, tails, started, requests>>,
         opens' \in Nat, library' \in {"open", "shut"}, DOMAIN shelf' = Captures,
         shelf' = [c \in DOMAIN shelf' |-> shelf'[c]], \A c \in Captures : Swept(c)
  PROVE  /\ LibraryTypes' /\ StartedPart' /\ RowPart' /\ SidecarPart' /\ RefusedPart' /\ ShutPart'
         /\ \A c \in Captures : shelf'[c].row = "kept" => shelf'[c].files = "whole" /\ ingest'[c].at = "past"
<1>1. LibraryTypes /\ RowPart /\ FilesPart /\ SidecarPart
      BY DEF LibraryInv
<1>2. \A c \in Captures : ingest[c].at \in {"idle", "past"} /\ tails[c] = <<>> /\ ~started[c]
      BY DEF LibraryInv, ShutPart
<1>3. ASSUME NEW c \in Captures
      PROVE  /\ shelf'[c] \in Copies /\ (shelf[c].row = "none" <=> shelf'[c].row = "none")
             /\ shelf[c] = NoCopy => shelf'[c] = NoCopy
             /\ shelf'[c].row = "kept" =>
                  /\ shelf[c].row = "kept" /\ shelf'[c].files = shelf[c].files
                  /\ shelf'[c].ref = shelf[c].ref /\ shelf'[c].corrected = shelf[c].corrected
                  /\ "sidecar" \in shelf[c].owed => "sidecar" \in shelf'[c].owed
  <2>1. shelf[c] \in Copies /\ Swept(c)
        BY <1>1, RecordsAre
  <2>2. NoCopy.row = "none"
        BY DEF NoCopy
  <2>3. CASE shelf'[c] = shelf[c]
        BY <2>1, <2>3
  <2>4. CASE shelf[c].row = "kept" /\ shelf'[c] = Spared(shelf[c])
        BY <2>1, <2>2, <2>4, OpenedAre
  <2>5. CASE shelf'[c] = Nothing(shelf[c])
        BY <2>1, <2>2, <2>5, OpenedAre
  <2>6. CASE shelf[c].row = "kept" /\ shelf'[c] = Outlived(shelf[c])
        BY <2>1, <2>2, <2>6, OpenedAre
  <2> QED BY <2>1, <2>3, <2>4, <2>5, <2>6 DEF Swept
<1>4. LibraryTypes'
  <2>1. shelf' \in [Captures -> Copies]
        BY <1>3
  <2> QED BY <1>1, <2>1 DEF LibraryTypes
<1>5. StartedPart' /\ ShutPart'
      BY <1>2 DEF StartedPart, ShutPart
<1>6. RowPart'
  <2>1. \A c \in Captures : ingest[c].cands \subseteq Captures
        BY <1>1, RecordsAre
  <2> QED BY <1>1, <1>2, <1>3, <2>1 DEF RowPart
<1>7. SidecarPart' /\ RefusedPart'
  <2>1. SidecarPart'
        BY <1>1, <1>2, <1>3 DEF SidecarPart, Syncing
  <2> QED BY <1>2, <2>1 DEF RefusedPart
<1>8. ASSUME NEW c \in Captures, shelf'[c].row = "kept"
      PROVE  shelf'[c].files = "whole" /\ ingest'[c].at = "past"
  <2>1. shelf[c].row = "kept" /\ shelf'[c].files = "whole"
        BY <1>1, <1>3, <1>8 DEF FilesPart
  <2> QED BY <1>1, <1>2, <2>1 DEF RowPart, NoCopy
<1> QED BY <1>4, <1>5, <1>6, <1>7, <1>8

\* The library is opened again, or could not be.
LEMMA OpenLibraryKeeps ==
  ASSUME LibraryInv, OpenLibrary
  PROVE  LibraryInv'
<1>1. /\ library = "shut" /\ library' = "open" /\ opens' \in Nat
      /\ UNCHANGED <<ingest, tails, started, requests>>
      /\ shelf' = [c \in Captures |->
           IF c \in Kept /\ ~GoesOnOpen(c) THEN Spared(shelf[c]) ELSE Nothing(shelf[c])]
      BY OpenIs
<1>2. \A c \in Captures : Swept(c)
      BY <1>1 DEF Swept, Kept
<1>3. /\ LibraryTypes' /\ StartedPart' /\ RowPart' /\ SidecarPart' /\ RefusedPart' /\ ShutPart'
      /\ \A c \in Captures : shelf'[c].row = "kept" => shelf'[c].files = "whole" /\ ingest'[c].at = "past"
      BY <1>1, <1>2, SweptKeeps
<1>4. FilesPart'
  <2>1. ASSUME NEW c \in Captures, shelf'[c].row # "kept" PROVE shelf'[c].files = "none" /\ ~shelf'[c].ref
    <3>1. shelf[c] \in Copies /\ (c \in Kept => shelf[c].row = "kept")
          BY RecordsAre DEF LibraryInv, Kept
    <3>2. shelf'[c] = Nothing(shelf[c])
          BY <1>1, <2>1, <3>1, OpenedAre
    <3> QED BY <3>1, <3>2, OpenedAre
  <2> QED BY <1>3, <2>1 DEF FilesPart, Stray
<1>5. QuotaPart'
  <2>1. \A c \in Kept' \ Unchecked' : ingest'[c].at = "past"
        BY <1>3 DEF Kept
  <2> QED BY <2>1 DEF QuotaPart
<1> QED BY <1>3, <1>4, <1>5 DEF LibraryInv

LEMMA OpeningFailsKeeps ==
  ASSUME LibraryInv, OpeningFails
  PROVE  LibraryInv'
<1>1. /\ library = "shut" /\ UNCHANGED <<ingest, tails, started, library, opens, requests>>
      /\ DOMAIN shelf' = Captures /\ \A c \in Captures : Swept(c)
      BY OpeningFailsIs
<1>2. opens' \in Nat
      BY <1>1 DEF LibraryInv, LibraryTypes
<1>3. shelf' = [c \in DOMAIN shelf' |-> shelf'[c]]
      BY DEF OpeningFails
<1>4. /\ LibraryTypes' /\ StartedPart' /\ RowPart' /\ SidecarPart' /\ RefusedPart' /\ ShutPart'
      /\ \A c \in Captures : shelf'[c].row = "kept" => shelf'[c].files = "whole"
      BY <1>1, <1>2, <1>3, SweptKeeps
<1>5. FilesPart' /\ QuotaPart'
      BY <1>1, <1>4 DEF FilesPart, QuotaPart
<1> QED BY <1>4, <1>5 DEF LibraryInv

\* Every step of the library keeps the invariant.
LEMMA LibraryStepKeeps ==
  ASSUME LibraryInv, [LibraryNext]_libraryVars
  PROVE  LibraryInv'
<1>1. ASSUME NEW c \in Captures, IngestStep(c) PROVE LibraryInv'
      BY <1>1, IngestBeginsKeeps, IngestCommitsKeeps, IngestFailsKeeps, IngestEvictsKeeps, IngestChecksKeeps DEF IngestStep
<1>2. ASSUME NEW c \in Captures, correct(c) \/ uncorrect(c) \/ promote(c) \/ remove(c) PROVE LibraryInv'
      BY <1>2, AskKeeps DEF correct, uncorrect, promote, remove
<1>3. ASSUME NEW c \in Captures, MutationBegins(c) \/ MutationFails(c) \/ MutationEnds(c) PROVE LibraryInv'
      BY <1>3, MutationBeginsKeeps, MutationFailsKeeps, MutationEndsKeeps
<1>4. ASSUME CloseLibrary \/ LibraryDrained \/ LibraryCrashes \/ OpenLibrary \/ OpeningFails PROVE LibraryInv'
      BY <1>4, CloseLibraryKeeps, ForgetsKeeps, OpenLibraryKeeps, OpeningFailsKeeps DEF LibraryDrained, LibraryCrashes
<1>5. CASE UNCHANGED libraryVars
  <2>1. UNCHANGED <<shelf, ingest, tails, started, library, opens, requests>>
        BY <1>5 DEF libraryVars
  <2>2. \A d \in Captures : Removing(d)' = Removing(d) /\ Syncing(d)' = Syncing(d) /\ Stray(d)' = Stray(d)
        BY <2>1 DEF Removing, Syncing, Stray
  <2>3. Kept' = Kept /\ Unchecked' = Unchecked
        BY <2>1 DEF Kept, Unchecked, Stuck
  <2>4. LibraryTypes' /\ StartedPart' /\ RowPart'
        BY <2>1, <2>2 DEF LibraryInv, LibraryTypes, StartedPart, RowPart
  <2>5. FilesPart' /\ SidecarPart' /\ RefusedPart'
        BY <2>1, <2>2 DEF LibraryInv, FilesPart, SidecarPart, RefusedPart
  <2>6. ShutPart' /\ QuotaPart'
        BY <2>1, <2>3 DEF LibraryInv, ShutPart, QuotaPart
  <2> QED BY <2>4, <2>5, <2>6 DEF LibraryInv
<1> QED BY <1>1, <1>2, <1>3, <1>4, <1>5 DEF LibraryNext

\* It holds of an empty library.
LEMMA LibraryStarts ==
  ASSUME LibraryInit
  PROVE  LibraryInv
<1>1. /\ shelf = [c \in Captures |-> NoCopy] /\ ingest = [c \in Captures |-> NoIngest]
      /\ tails = [c \in Captures |-> <<>>] /\ started = [c \in Captures |-> FALSE]
      /\ library = "open" /\ opens = 1 /\ requests = 0
      BY DEF LibraryInit
<1>2. /\ NoCopy \in Copies /\ NoCopy.row = "none" /\ NoCopy.files = "none" /\ ~NoCopy.ref
      /\ ~NoCopy.corrected /\ NoIngest \in Ingests /\ NoIngest.at = "idle" /\ NoIngest.cands = {}
      BY DEF NoCopy, Copies, NoIngest, Ingests
<1>3. \A c \in Captures : <<>> \in Seq(Mutations(c))
      BY EmptySeq
<1>4. LibraryTypes
      BY <1>1, <1>2, <1>3 DEF LibraryTypes
<1>5. StartedPart /\ RowPart /\ FilesPart /\ SidecarPart /\ RefusedPart /\ ShutPart
      BY <1>1, <1>2 DEF StartedPart, RowPart, FilesPart, Stray, SidecarPart, RefusedPart, ShutPart
<1>6. QuotaPart
  <2>1. Kept = {}
        BY <1>1, <1>2 DEF Kept
  <2> QED BY <2>1 DEF QuotaPart
<1> QED BY <1>4, <1>5, <1>6 DEF LibraryInv

\* The invariant of the capture library, for any number of captures, any quota, and any
\* number of requests and restarts.
THEOREM LibraryInvariant == LibrarySpec => []LibraryInv
<1>1. LibraryInit => LibraryInv
      BY LibraryStarts
<1>2. LibraryInv /\ [LibraryNext]_libraryVars => LibraryInv'
      BY LibraryStepKeeps
<1> QED BY <1>1, <1>2, PTL DEF LibrarySpec

\* The library keeps its quota, and files and rows agree but for what is owed, whenever it has settled.
LEMMA LibraryHoldsThen ==
  ASSUME LibraryInv
  PROVE  LibraryHolds
<1> SUFFICES ASSUME Settled
             PROVE  /\ Cardinality(Kept \ Stuck) > Quota => \A c \in Kept \ Stuck : ingest[c].at = "past"
                    /\ \A c \in Captures :
                        /\ c \in Kept => /\ shelf[c].files = "whole"
                                         /\ shelf[c].ref = shelf[c].corrected \/ "sidecar" \in shelf[c].owed
                                         /\ ingest[c].at = "refused" => c \in Stuck
                        /\ c \notin Kept => \/ shelf[c].files = "none" /\ ~shelf[c].ref
                                            \/ "delete" \in shelf[c].owed
    BY DEF LibraryHolds, QuotaHolds, NothingStranded
<1>1. /\ library = "open"
      /\ \A c \in Captures : tails[c] = <<>> /\ ingest[c].at \in {"idle", "refused", "done", "past"}
      BY DEF Settled
<1>2. \A c \in Captures : ~started[c] /\ ~Removing(c) /\ ~Syncing(c)
      BY <1>1 DEF LibraryInv, StartedPart, Removing, Syncing
<1>3. Cardinality(Kept \ Stuck) > Quota => \A c \in Kept \ Stuck : ingest[c].at = "past"
  <2>1. Unchecked = Stuck
        BY <1>1 DEF Unchecked, Stuck, Kept
  <2>2. Cardinality(Kept \ Stuck) <= Quota \/ \A c \in Kept \ Stuck : ingest[c].at = "past"
        BY <1>1, <2>1 DEF LibraryInv, QuotaPart
  <2>3. Kept \ Stuck \subseteq Captures
        BY DEF Kept
  <2>4. Cardinality(Kept \ Stuck) \in Nat /\ Quota \in Nat
        BY <2>3, CapturesFinite, FS_Subset, FS_CardinalityType, LibraryAssumption
  <2> QED BY <2>2, <2>4
<1>4. ASSUME NEW c \in Kept
      PROVE  /\ shelf[c].files = "whole"
             /\ shelf[c].ref = shelf[c].corrected \/ "sidecar" \in shelf[c].owed
             /\ ingest[c].at = "refused" => c \in Stuck
  <2>1. c \in Captures /\ shelf[c].row = "kept"
        BY DEF Kept
  <2> QED BY <1>2, <2>1 DEF LibraryInv, FilesPart, SidecarPart, RefusedPart, Stuck
<1>5. ASSUME NEW c \in Captures, c \notin Kept
      PROVE  (shelf[c].files = "none" /\ ~shelf[c].ref) \/ "delete" \in shelf[c].owed
  <2>1. shelf[c].row # "kept" /\ ingest[c].at # "writing" /\ library # "shut"
        BY <1>1, <1>5 DEF Kept
  <2> QED BY <1>2, <2>1 DEF LibraryInv, FilesPart, Stray
<1> QED BY <1>3, <1>4, <1>5

\* Nothing else opens the library.
LEMMA OpensBy ==
  ASSUME LibraryInv, [LibraryNext]_libraryVars, library = "shut", library' = "open"
  PROVE  OpenLibrary
<1>1. \A c \in Captures : ~(IngestStep(c) \/ correct(c) \/ uncorrect(c) \/ promote(c) \/ remove(c))
      BY DEF IngestStep, IngestBegins, IngestCommits, IngestFails, IngestEvicts, IngestChecks, Ask, correct,
             uncorrect, promote, remove
<1>2. \A c \in Captures : ~(MutationBegins(c) \/ MutationFails(c) \/ MutationEnds(c))
      BY DEF MutationBegins, MutationFails, MutationEnds
<1>3. ~(CloseLibrary \/ LibraryDrained \/ LibraryCrashes \/ OpeningFails)
      BY DEF CloseLibrary, LibraryDrained, LibraryCrashes, Forgets, OpeningFails
<1> QED BY <1>1, <1>2, <1>3 DEF LibraryNext, libraryVars

\* What is over the quota once the library has been opened is all curated, and no file is
\* left that no row owns.
LEMMA OpeningStep ==
  ASSUME LibraryInv, [LibraryNext]_libraryVars, library = "shut", library' = "open"
  PROVE  /\ ~OverQuota' \/ Kept' = Pinned'
         /\ \A c \in Captures \ Kept' : shelf'[c].files = "none" /\ ~shelf'[c].ref
<1>1. OpenLibrary
      BY OpensBy
<1>2. \A c \in Captures : shelf'[c] = IF c \in Kept /\ ~GoesOnOpen(c) THEN Spared(shelf[c]) ELSE Nothing(shelf[c])
      BY <1>1, OpenIs
<1>3. ASSUME NEW c \in Captures
      PROVE  /\ Spared(shelf[c]).row = shelf[c].row /\ Spared(shelf[c]).corrected = shelf[c].corrected
             /\ Spared(shelf[c]).promoted = shelf[c].promoted
             /\ Nothing(shelf[c]).row # "kept" /\ Nothing(shelf[c]).files = "none" /\ ~Nothing(shelf[c]).ref
  <2>1. shelf[c] \in Copies
        BY RecordsAre DEF LibraryInv
  <2> QED BY <2>1, OpenedAre
<1>4. Kept' = {c \in Kept : ~GoesOnOpen(c)}
      BY <1>2, <1>3 DEF Kept
<1>5. Pinned' = Kept' \cap Pinned
      BY <1>2, <1>3, <1>4 DEF Pinned, IsPinned, Kept
<1> DEFINE staying == Kept' \ Pinned
<1>6. ASSUME NEW c \in Captures \ Kept' PROVE shelf'[c].files = "none" /\ ~shelf'[c].ref
  <2>1. shelf'[c] = Nothing(shelf[c])
        BY <1>2, <1>4, <1>6
  <2> QED BY <1>3, <1>6, <2>1
<1>7. CASE staying = {}
  <2>1. Kept' = Pinned'
        BY <1>5, <1>7
  <2> QED BY <1>6, <2>1
<1>8. CASE staying # {}
  <2>1. staying \subseteq Nat /\ Kept \subseteq Captures
        BY <1>4 DEF Kept, Captures
  <2>2. PICK c \in staying : \A d \in staying : c <= d
        BY <1>8, <2>1, LeastNat
  <2> DEFINE rest == Kept \ {d \in Kept \ Pinned : d < c}
  <2>3. c \in Kept \ Pinned /\ ~GoesOnOpen(c)
        BY <1>4, <2>2
  <2>4. Kept' \subseteq rest
    <3>1. ASSUME NEW d \in Kept', d \notin Pinned PROVE ~(d < c)
      <4>1. d \in staying /\ c <= d /\ d \in Nat /\ c \in Nat
            BY <2>1, <2>2, <3>1
      <4> QED BY <4>1
    <3> QED BY <1>4, <3>1
  <2>5. ~(Cardinality(rest) > Quota)
        BY <2>3 DEF GoesOnOpen
  <2>6. IsFiniteSet(rest)
        BY <2>1, CapturesFinite, FS_Subset
  <2> HIDE DEF rest
  <2>7. Cardinality(Kept') <= Cardinality(rest) /\ Cardinality(Kept') \in Nat /\ Cardinality(rest) \in Nat
        BY <2>4, <2>6, FS_Subset, FS_CardinalityType
  <2>8. ~(Cardinality(Kept') > Quota)
        BY <2>5, <2>7, LibraryAssumption
  <2> QED BY <1>6, <2>8 DEF OverQuota
<1> QED BY <1>7, <1>8

\* Only a removal takes what somebody has curated.
LEMMA CuratedStep ==
  ASSUME LibraryInv, [LibraryNext]_libraryVars, NEW c \in Pinned, shelf'[c].row = "gone"
  PROVE  tails[c] # <<>> /\ Head(tails[c]).op = "remove"
<1>1. c \in Captures /\ shelf[c].row = "kept" /\ IsPinned(c) /\ ingest[c].at \notin {"idle", "writing"}
      BY DEF Pinned, Kept, LibraryInv, RowPart, NoCopy
<1> DEFINE Removal == tails[c] # <<>> /\ Head(tails[c]).op = "remove"
<1>2. shelf'[c].row # shelf[c].row
      BY <1>1
<1> HIDE DEF Removal
<1>3. ASSUME NEW e \in Captures, IngestStep(e) PROVE Removal
  <2>1. CASE IngestBegins(e)
    <3>1. UNCHANGED shelf \/ shelf' = [shelf EXCEPT ![e].files = "tmp"]
          BY <2>1 DEF IngestBegins
    <3>2. ingest[e].at = "idle"
          BY <2>1 DEF IngestBegins
    <3>3. e # c
          BY <1>1, <3>2
    <3>4. shelf'[c] = shelf[c]
          BY <1>1, <3>1, <3>3 DEF LibraryInv, LibraryTypes
    <3> QED BY <1>2, <3>4
  <2>2. CASE IngestCommits(e)
    <3>1. ingest[e].at = "writing" /\ shelf' = [shelf EXCEPT ![e].row = "kept", ![e].files = "whole"]
          BY <2>2 DEF IngestCommits
    <3>2. e # c
          BY <1>1, <3>1
    <3>3. shelf'[c] = shelf[c]
          BY <1>1, <3>1, <3>2 DEF LibraryInv, LibraryTypes
    <3> QED BY <1>2, <3>3
  <2>3. CASE IngestFails(e)
    <3>1. ingest[e].at = "writing" /\ \E copy : shelf' = [shelf EXCEPT ![e] = copy]
          BY <2>3 DEF IngestFails
    <3>2. e # c
          BY <1>1, <3>1
    <3>3. shelf'[c] = shelf[c]
          BY <1>1, <3>1, <3>2 DEF LibraryInv, LibraryTypes
    <3> QED BY <1>2, <3>3
  <2>4. CASE IngestEvicts(e) \/ IngestChecks(e)
        BY <1>2, <2>4 DEF IngestEvicts, IngestChecks
  <2> QED BY <1>3, <2>1, <2>2, <2>3, <2>4 DEF IngestStep
<1>4. ASSUME NEW e \in Captures, correct(e) \/ uncorrect(e) \/ promote(e) \/ remove(e) PROVE Removal
      BY <1>2, <1>4 DEF correct, uncorrect, promote, remove, Ask
<1>5. ASSUME NEW e \in Captures, MutationBegins(e) PROVE Removal
  <2>1. Head(tails[e]) \in Mutations(e) /\ tails[e] # <<>>
        BY <1>5, BeginsIs
  <2>2. CASE UNCHANGED shelf
        BY <1>2, <2>2
  <2>3. CASE /\ shelf' = [shelf EXCEPT ![e] = Written(e)]
             /\ shelf[e].row = "kept" /\ (Head(tails[e]).op = "evict" => ~IsPinned(e))
    <3>1. CASE e # c
          BY <1>2, <2>3, <3>1
    <3>2. CASE e = c
      <4>1. Written(c).row = IF Head(tails[c]).op \in {"evict", "remove"} THEN "gone" ELSE "kept"
            BY <1>1, <2>1, <3>2, WrittenIs
      <4>2. shelf'[c] = Written(c)
            BY <1>1, <2>3, <3>2 DEF LibraryInv, LibraryTypes
      <4> QED BY <1>1, <2>1, <2>3, <3>2, <4>1, <4>2 DEF Removal
    <3> QED BY <3>1, <3>2
  <2> QED BY <1>5, <2>2, <2>3, BeginsIs
<1>6. ASSUME NEW e \in Captures, MutationFails(e) \/ MutationEnds(e) PROVE Removal
  <2>1. shelf'[e].row = shelf[e].row /\ \A d \in Captures : d # e => shelf'[d] = shelf[d]
        BY <1>6, ThrowsIs, EndsLeave
  <2> QED BY <1>1, <1>2, <2>1
<1>7. ASSUME CloseLibrary PROVE Removal
      BY <1>2, <1>7 DEF CloseLibrary
<1>8. ASSUME LibraryDrained \/ LibraryCrashes PROVE Removal
  <2>1. shelf'[c].row = shelf[c].row
        BY <1>1, <1>8, ForgetsIs DEF LibraryDrained, LibraryCrashes
  <2> QED BY <1>2, <2>1
<1>9. ASSUME OpenLibrary PROVE Removal
  <2>1. c \in Kept /\ ~GoesOnOpen(c) /\ shelf[c] \in Copies
        BY <1>1, RecordsAre DEF GoesOnOpen, Pinned, LibraryInv
  <2>2. shelf'[c] = Spared(shelf[c])
        BY <1>1, <1>9, <2>1, OpenIs
  <2> QED BY <1>2, <2>1, <2>2, OpenedAre
<1>10. ASSUME OpeningFails PROVE Removal
      BY <1>1, <1>2, <1>10, OpeningFailsIs
<1>11. ASSUME UNCHANGED libraryVars PROVE Removal
      BY <1>2, <1>11 DEF libraryVars
<1> QED BY <1>3, <1>4, <1>5, <1>6, <1>7, <1>8, <1>9, <1>10, <1>11 DEF LibraryNext, Removal

\* Whenever the library has settled, whatever the disk refused, the quota is kept and rows,
\* files and sidecars agree but for what is owed; opening leaves nothing over the quota that
\* nobody curated and no file without a row, and eviction spares what somebody curated.
THEOREM LibraryStaysKept == LibrarySpec => LibraryIsKept
<1>1. LibraryInv => LibraryHolds
      BY LibraryHoldsThen
<1>2. LibraryInv /\ [LibraryNext]_libraryVars
        => [library = "shut" /\ library' = "open" => ~OverQuota' \/ Kept' = Pinned']_libraryVars
      BY OpeningStep
<1>3. LibraryInv /\ [LibraryNext]_libraryVars
        => [library = "shut" /\ library' = "open" =>
              \A c \in Captures \ Kept' : shelf'[c].files = "none" /\ ~shelf'[c].ref]_libraryVars
      BY OpeningStep
<1>4. LibraryInv /\ [LibraryNext]_libraryVars
        => [\A c \in Pinned : shelf'[c].row = "gone" =>
              tails[c] # <<>> /\ Head(tails[c]).op = "remove"]_libraryVars
      BY CuratedStep
<1> QED BY <1>1, <1>2, <1>3, <1>4, LibraryInvariant, PTL
        DEF LibrarySpec, LibraryIsKept, OpeningFits, OpeningCleans, EvictionSparesCurated
=============================================================================
