---------------------------- MODULE EngineProofs ----------------------------
(***************************************************************************)
(* Theorems about Engine, for every dictionary, every content of the three *)
(* files, every word that is typed and every value of the bounds.          *)
(*                                                                         *)
(* The model computes with folds, tables and orders; what they yield is    *)
(* proved by induction on a set of numbers: a set that has 0, and with     *)
(* each number the next one, has all of them.                              *)
(***************************************************************************)
EXTENDS Engine, FiniteSetTheorems, SequenceTheorems, TLAPS

-----------------------------------------------------------------------------
(* Induction over the natural numbers, on a set.                           *)

\* A set that has 0 and with each number the next one has all of them.
LEMMA Induction ==
  ASSUME NEW S, 0 \in S, \A n \in Nat : n \in S => n + 1 \in S
  PROVE  Nat \subseteq S
<1> DEFINE Missing == Nat \ S
<1> SUFFICES ASSUME Missing # {} PROVE FALSE
  OBVIOUS
<1>1. PICK n \in Missing : \A m \in Missing : ~(<<m, n>> \in OpToRel(<, Nat))
  BY NatLessThanWellFounded, WFMin
<1>2. \A m \in Missing : ~(m < n)
  BY <1>1 DEF OpToRel
<1>3. n \in Nat /\ n # 0 /\ n - 1 \in Nat /\ n - 1 \in S
  BY <1>2
<1> QED
  BY <1>3

\* The same up to a bound.
LEMMA BoundedInduction ==
  ASSUME NEW n \in Nat, NEW S, 0 \in S, \A k \in 0 .. n - 1 : k \in S => k + 1 \in S
  PROVE  0 .. n \subseteq S
<1> DEFINE T == {k \in Nat : k <= n => k \in S}
<1>1. 0 \in T
  OBVIOUS
<1>2. ASSUME NEW k \in Nat, k \in T PROVE k + 1 \in T
  BY <1>2
<1> HIDE DEF T
<1>3. Nat \subseteq T
  BY <1>1, <1>2, Induction
<1> QED
  BY <1>3 DEF T

\* A set of numbers up to n that is not empty has a largest.
LEMMA MaxBelow ==
  ASSUME NEW n \in Nat, NEW s \in SUBSET (1 .. n), s # {}
  PROVE  Max(s) \in s /\ \A i \in s : i <= Max(s)
<1> DEFINE T == {k \in Nat : s \cap (1 .. k) = {} \/ \E m \in s : \A i \in s \cap (1 .. k) : i <= m}
<1>1. 0 \in T
  OBVIOUS
<1>2. ASSUME NEW k \in Nat, k \in T PROVE k + 1 \in T
  <2>1. CASE k + 1 \in s
    <3>1. \A i \in s \cap (1 .. k + 1) : i <= k + 1
      OBVIOUS
    <3> QED
      BY <2>1, <3>1
  <2>2. CASE k + 1 \notin s
    <3>1. s \cap (1 .. k + 1) = s \cap (1 .. k)
      BY <2>2
    <3> QED
      BY <1>2, <3>1
  <2> QED
    BY <2>1, <2>2
<1> HIDE DEF T
<1>3. n \in T
  BY <1>1, <1>2, Induction
<1>4. PICK m \in s : \A i \in s : i <= m
  BY <1>3 DEF T
<1> QED
  BY <1>4 DEF Max

-----------------------------------------------------------------------------
(* Folds.  What a community fold computes is the value at 1 .. n of a      *)
(* function that takes the largest number off a set of numbers.            *)

TakesOff(f, n, V, base, step) ==
  /\ f \in [SUBSET (1 .. n) -> V]
  /\ \A s \in SUBSET (1 .. n) :
       f[s] = IF s = {} THEN base ELSE step[<<f[s \ {Max(s)}], Max(s)>>]

\* The values at 1 .. k, one after the other.
IsRun(acc, n, V, base, step) ==
  /\ acc \in [0 .. n -> V] /\ acc[0] = base
  /\ \A i \in 1 .. n : acc[i] = step[<<acc[i - 1], i>>]

\* Such a function exists, whatever a step is.
LEMMA FoldExists ==
  ASSUME NEW n \in Nat, NEW V, NEW base \in V, NEW step \in [V \X (1 .. n) -> V]
  PROVE  \E f : TakesOff(f, n, V, base, step)
<1> DEFINE Right(f, s) == f[s] = IF s = {} THEN base ELSE step[<<f[s \ {Max(s)}], Max(s)>>]
           T == {k \in 0 .. n : \E f \in [SUBSET (1 .. n) -> V] : \A s \in SUBSET (1 .. k) : Right(f, s)}
<1>1. 0 \in T
  <2> DEFINE f == [s \in SUBSET (1 .. n) |-> base]
  <2>1. f \in [SUBSET (1 .. n) -> V]
    OBVIOUS
  <2>2. \A s \in SUBSET (1 .. 0) : s = {} /\ f[s] = base
    OBVIOUS
  <2> HIDE DEF f
  <2>3. \A s \in SUBSET (1 .. 0) : Right(f, s)
    BY <2>2
  <2> HIDE DEF Right
  <2> QED
    BY <2>1, <2>3
<1>2. ASSUME NEW k \in 0 .. n - 1, k \in T PROVE k + 1 \in T
  <2>1. PICK f \in [SUBSET (1 .. n) -> V] : \A s \in SUBSET (1 .. k) : Right(f, s)
    BY <1>2
  <2> DEFINE g == [s \in SUBSET (1 .. n) |->
                     IF k + 1 \in s THEN step[<<f[s \ {k + 1}], k + 1>>] ELSE f[s]]
  <2>2. k + 1 \in 1 .. n /\ k \in Nat
    OBVIOUS
  <2>3. g \in [SUBSET (1 .. n) -> V]
    BY <2>2
  <2>4. ASSUME NEW s \in SUBSET (1 .. k + 1) PROVE Right(g, s)
    <3>1. s \in SUBSET (1 .. n)
      BY <2>2
    <3>2. CASE k + 1 \in s
      <4>1. \A i \in s : i <= k + 1
        OBVIOUS
      <4>2. Max(s) \in s /\ \A i \in s : i <= Max(s)
        BY <3>1, <3>2, MaxBelow, Zenon
      <4>3. Max(s) = k + 1
        <5> DEFINE m == Max(s)
        <5>1. m \in s /\ k + 1 <= m
          BY <3>2, <4>2
        <5> HIDE DEF m
        <5>2. m = k + 1
          BY <2>2, <4>1, <5>1
        <5> QED
          BY <5>2 DEF m
      <4>4. /\ s \ {k + 1} \in SUBSET (1 .. n) /\ k + 1 \notin s \ {k + 1}
            /\ s # {}
        BY <3>1, <3>2
      <4>5. g[s \ {k + 1}] = f[s \ {k + 1}] /\ g[s] = step[<<f[s \ {k + 1}], k + 1>>]
        BY <3>1, <3>2, <4>4
      <4> HIDE DEF g
      <4> QED
        BY <4>3, <4>4, <4>5
    <3>3. CASE k + 1 \notin s
      <4>1. s \in SUBSET (1 .. k)
        BY <2>2, <3>3
      <4>2. s \ {Max(s)} \in SUBSET (1 .. n) /\ k + 1 \notin s \ {Max(s)}
        BY <3>1, <3>3
      <4>3. g[s] = f[s] /\ g[s \ {Max(s)}] = f[s \ {Max(s)}]
        BY <3>1, <3>3, <4>2
      <4>4. Right(f, s)
        BY <2>1, <4>1
      <4> HIDE DEF g
      <4> QED
        BY <4>3, <4>4
    <3> QED
      BY <3>2, <3>3
  <2> HIDE DEF Right, g
  <2>5. \E h \in [SUBSET (1 .. n) -> V] : \A s \in SUBSET (1 .. k + 1) : Right(h, s)
    BY <2>3, <2>4
  <2> QED
    BY <2>2, <2>5
<1> HIDE DEF T
<1>3. 0 .. n \subseteq T
  BY <1>1, <1>2, BoundedInduction
<1>4. n \in T
  BY <1>3
<1> QED
  BY <1>4 DEF T, TakesOff

\* A number at a time, from 1.
LEMMA TakeLast ==
  ASSUME NEW n \in Nat, NEW k \in 1 .. n
  PROVE  /\ 1 .. k \in SUBSET (1 .. n) /\ 1 .. k # {}
         /\ Max(1 .. k) = k /\ (1 .. k) \ {k} = 1 .. k - 1
<1>1. 1 .. k \in SUBSET (1 .. n) /\ k \in 1 .. k /\ k \in Nat
  OBVIOUS
<1>2. Max(1 .. k) \in 1 .. k /\ \A i \in 1 .. k : i <= Max(1 .. k)
  BY <1>1, MaxBelow, Zenon
<1> DEFINE m == Max(1 .. k)
<1>3. m \in 1 .. k /\ k <= m
  BY <1>1, <1>2
<1> HIDE DEF m
<1>4. m = k
  BY <1>3
<1> QED
  BY <1>1, <1>4 DEF m

\* A function that takes the largest off, as long as the rest of it is in V.
Steps(iter, n, V, base, step) ==
  /\ iter[{}] = base
  /\ \A s \in SUBSET (1 .. n) :
       s # {} /\ iter[s \ {Max(s)}] \in V => iter[s] = step[<<iter[s \ {Max(s)}], Max(s)>>]

RunsTo(iter, n, V, base, step) ==
  \E acc : IsRun(acc, n, V, base, step) /\ acc[n] = iter[1 .. n]

\* It stays in V.
LEMMA FoldRuns ==
  ASSUME NEW n \in Nat, NEW V, NEW base \in V, NEW step \in [V \X (1 .. n) -> V],
         NEW iter, Steps(iter, n, V, base, step)
  PROVE  RunsTo(iter, n, V, base, step)
<1> DEFINE T == {k \in 0 .. n : iter[1 .. k] \in V}
<1>1. 1 .. 0 = {}
  OBVIOUS
<1>2. 0 \in T
  BY <1>1 DEF Steps
<1>3. ASSUME NEW k \in 1 .. n, iter[1 .. k - 1] \in V
      PROVE  iter[1 .. k] = step[<<iter[1 .. k - 1], k>>]
  <2>1. /\ 1 .. k \in SUBSET (1 .. n) /\ 1 .. k # {}
        /\ Max(1 .. k) = k /\ (1 .. k) \ {k} = 1 .. k - 1
    BY TakeLast, Zenon
  <2>2. (1 .. k) \ {Max(1 .. k)} = 1 .. k - 1
    BY <2>1, Zenon
  <2>3. iter[1 .. k] = step[<<iter[(1 .. k) \ {Max(1 .. k)}], Max(1 .. k)>>]
    BY <1>3, <2>1, <2>2, Zenon DEF Steps
  <2> QED
    BY <2>1, <2>2, <2>3, Zenon
<1>4. ASSUME NEW k \in 0 .. n - 1, k \in T PROVE k + 1 \in T
  <2>1. k + 1 \in 1 .. n /\ (k + 1) - 1 = k /\ iter[1 .. k] \in V
    BY <1>4
  <2>2. iter[1 .. k + 1] = step[<<iter[1 .. k], k + 1>>]
    BY <1>3, <2>1
  <2>3. iter[1 .. k + 1] \in V
    BY <2>1, <2>2
  <2> QED
    BY <2>1, <2>3
<1> HIDE DEF T
<1>5. 0 .. n \subseteq T
  BY <1>2, <1>4, BoundedInduction
<1>6. \A k \in 0 .. n : iter[1 .. k] \in V
  BY <1>5 DEF T
<1> DEFINE acc == [k \in 0 .. n |-> iter[1 .. k]]
<1>7. acc \in [0 .. n -> V]
  BY <1>6
<1>8. acc[0] = base /\ acc[n] = iter[1 .. n]
  BY <1>1 DEF Steps
<1>9. ASSUME NEW i \in 1 .. n PROVE acc[i] = step[<<acc[i - 1], i>>]
  <2>1. i - 1 \in 0 .. n /\ i \in 0 .. n
    OBVIOUS
  <2>2. acc[i] = iter[1 .. i] /\ acc[i - 1] = iter[1 .. i - 1]
    BY <2>1
  <2> HIDE DEF acc
  <2> QED
    BY <1>3, <1>6, <2>1, <2>2
<1> HIDE DEF acc
<1> QED
  BY <1>7, <1>8, <1>9 DEF IsRun, RunsTo

\* The folds of from_parts.
AddWords(base, lines) == FoldLeft(AddWord, base, lines)
AddForceds(base, lines) == FoldLeft(AddForced, base, lines)
BlockPairs(base, lines) == FoldLeft(BlockPair, base, lines)

IsWordRun(acc, n, V, base, lines) ==
  /\ acc \in [0 .. n -> V] /\ acc[0] = base /\ acc[n] = AddWords(base, lines)
  /\ \A i \in 1 .. n : acc[i] = AddWord(acc[i - 1], lines[i])

IsForcedRun(acc, n, V, base, lines) ==
  /\ acc \in [0 .. n -> V] /\ acc[0] = base /\ acc[n] = AddForceds(base, lines)
  /\ \A i \in 1 .. n : acc[i] = AddForced(acc[i - 1], lines[i])

IsBlockedRun(acc, n, V, base, lines) ==
  /\ acc \in [0 .. n -> V] /\ acc[0] = base /\ acc[n] = BlockPairs(base, lines)
  /\ \A i \in 1 .. n : acc[i] = BlockPair(acc[i - 1], lines[i])

\* A fold that stays in V goes through the members of a sequence one by one.
LEMMA AddWordFold ==
  ASSUME NEW n \in Nat, NEW lines, DOMAIN lines = 1 .. n, NEW V, NEW base \in V,
         \A v \in V, i \in 1 .. n : AddWord(v, lines[i]) \in V
  PROVE  \E acc : IsWordRun(acc, n, V, base, lines)
<1> DEFINE Rec(f) == f = [s \in SUBSET (1 .. n) |->
                            IF s = {} THEN base ELSE AddWord(f[s \ {Max(s)}], lines[Max(s)])]
           iter == CHOOSE f : Rec(f)
           step == [p \in V \X (1 .. n) |-> AddWord(p[1], lines[p[2]])]
<1>1. AddWords(base, lines) = iter[1 .. n]
  BY DEF AddWords, FoldLeft, MapThenFoldSet
<1>2. step \in [V \X (1 .. n) -> V] /\ \A v \in V, i \in 1 .. n : step[<<v, i>>] = AddWord(v, lines[i])
  OBVIOUS
<1> HIDE DEF step
<1>3. \E f : TakesOff(f, n, V, base, step)
  BY <1>2, FoldExists, Zenon
<1>4. PICK g : TakesOff(g, n, V, base, step)
  BY <1>3
<1>5. Rec(g)
  <2>1. ASSUME NEW s \in SUBSET (1 .. n), s # {}
        PROVE  step[<<g[s \ {Max(s)}], Max(s)>>] = AddWord(g[s \ {Max(s)}], lines[Max(s)])
    <3>1. Max(s) \in 1 .. n /\ g[s \ {Max(s)}] \in V
      BY <1>4, <2>1, MaxBelow DEF TakesOff
    <3> QED
      BY <1>2, <3>1
  <2> QED
    BY <1>4, <2>1 DEF TakesOff
<1>6. \A s \in SUBSET (1 .. n) :
        iter[s] = IF s = {} THEN base ELSE AddWord(iter[s \ {Max(s)}], lines[Max(s)])
  <2> HIDE DEF Rec
  <2>1. Rec(iter)
    BY <1>5
  <2> HIDE DEF iter
  <2> QED
    BY <2>1 DEF Rec
<1> HIDE DEF Rec, iter
<1>7. ASSUME NEW s \in SUBSET (1 .. n), s # {}, iter[s \ {Max(s)}] \in V
      PROVE  iter[s] = step[<<iter[s \ {Max(s)}], Max(s)>>]
  <2>1. Max(s) \in 1 .. n
    BY <1>7, MaxBelow
  <2> QED
    BY <1>2, <1>6, <1>7, <2>1
<1>8. Steps(iter, n, V, base, step)
  BY <1>6, <1>7 DEF Steps
<1>9. PICK acc : IsRun(acc, n, V, base, step) /\ acc[n] = iter[1 .. n]
  <2>1. RunsTo(iter, n, V, base, step)
    BY <1>2, <1>8, FoldRuns, Zenon
  <2> QED
    BY <2>1 DEF RunsTo
<1>10. \A i \in 1 .. n : i - 1 \in 0 .. n /\ acc[i - 1] \in V
  BY <1>9 DEF IsRun
<1>11. \A i \in 1 .. n : acc[i] = AddWord(acc[i - 1], lines[i])
  BY <1>2, <1>9, <1>10 DEF IsRun
<1> QED
  BY <1>1, <1>9, <1>11 DEF IsRun, IsWordRun

\* The same of the pairs.
LEMMA AddForcedFold ==
  ASSUME NEW n \in Nat, NEW lines, DOMAIN lines = 1 .. n, NEW V, NEW base \in V,
         \A v \in V, i \in 1 .. n : AddForced(v, lines[i]) \in V
  PROVE  \E acc : IsForcedRun(acc, n, V, base, lines)
<1> DEFINE Rec(f) == f = [s \in SUBSET (1 .. n) |->
                            IF s = {} THEN base ELSE AddForced(f[s \ {Max(s)}], lines[Max(s)])]
           iter == CHOOSE f : Rec(f)
           step == [p \in V \X (1 .. n) |-> AddForced(p[1], lines[p[2]])]
<1>1. AddForceds(base, lines) = iter[1 .. n]
  BY DEF AddForceds, FoldLeft, MapThenFoldSet
<1>2. step \in [V \X (1 .. n) -> V] /\ \A v \in V, i \in 1 .. n : step[<<v, i>>] = AddForced(v, lines[i])
  OBVIOUS
<1> HIDE DEF step
<1>3. \E f : TakesOff(f, n, V, base, step)
  BY <1>2, FoldExists, Zenon
<1>4. PICK g : TakesOff(g, n, V, base, step)
  BY <1>3
<1>5. Rec(g)
  <2>1. ASSUME NEW s \in SUBSET (1 .. n), s # {}
        PROVE  step[<<g[s \ {Max(s)}], Max(s)>>] = AddForced(g[s \ {Max(s)}], lines[Max(s)])
    <3>1. Max(s) \in 1 .. n /\ g[s \ {Max(s)}] \in V
      BY <1>4, <2>1, MaxBelow DEF TakesOff
    <3> QED
      BY <1>2, <3>1
  <2> QED
    BY <1>4, <2>1 DEF TakesOff
<1>6. \A s \in SUBSET (1 .. n) :
        iter[s] = IF s = {} THEN base ELSE AddForced(iter[s \ {Max(s)}], lines[Max(s)])
  <2> HIDE DEF Rec
  <2>1. Rec(iter)
    BY <1>5
  <2> HIDE DEF iter
  <2> QED
    BY <2>1 DEF Rec
<1> HIDE DEF Rec, iter
<1>7. ASSUME NEW s \in SUBSET (1 .. n), s # {}, iter[s \ {Max(s)}] \in V
      PROVE  iter[s] = step[<<iter[s \ {Max(s)}], Max(s)>>]
  <2>1. Max(s) \in 1 .. n
    BY <1>7, MaxBelow
  <2> QED
    BY <1>2, <1>6, <1>7, <2>1
<1>8. Steps(iter, n, V, base, step)
  BY <1>6, <1>7 DEF Steps
<1>9. PICK acc : IsRun(acc, n, V, base, step) /\ acc[n] = iter[1 .. n]
  <2>1. RunsTo(iter, n, V, base, step)
    BY <1>2, <1>8, FoldRuns, Zenon
  <2> QED
    BY <2>1 DEF RunsTo
<1>10. \A i \in 1 .. n : i - 1 \in 0 .. n /\ acc[i - 1] \in V
  BY <1>9 DEF IsRun
<1>11. \A i \in 1 .. n : acc[i] = AddForced(acc[i - 1], lines[i])
  BY <1>2, <1>9, <1>10 DEF IsRun
<1> QED
  BY <1>1, <1>9, <1>11 DEF IsRun, IsForcedRun

\* The same of the blocked pairs.
LEMMA BlockPairFold ==
  ASSUME NEW n \in Nat, NEW lines, DOMAIN lines = 1 .. n, NEW V, NEW base \in V,
         \A v \in V, i \in 1 .. n : BlockPair(v, lines[i]) \in V
  PROVE  \E acc : IsBlockedRun(acc, n, V, base, lines)
<1> DEFINE Rec(f) == f = [s \in SUBSET (1 .. n) |->
                            IF s = {} THEN base ELSE BlockPair(f[s \ {Max(s)}], lines[Max(s)])]
           iter == CHOOSE f : Rec(f)
           step == [p \in V \X (1 .. n) |-> BlockPair(p[1], lines[p[2]])]
<1>1. BlockPairs(base, lines) = iter[1 .. n]
  BY DEF BlockPairs, FoldLeft, MapThenFoldSet
<1>2. step \in [V \X (1 .. n) -> V] /\ \A v \in V, i \in 1 .. n : step[<<v, i>>] = BlockPair(v, lines[i])
  OBVIOUS
<1> HIDE DEF step
<1>3. \E f : TakesOff(f, n, V, base, step)
  BY <1>2, FoldExists, Zenon
<1>4. PICK g : TakesOff(g, n, V, base, step)
  BY <1>3
<1>5. Rec(g)
  <2>1. ASSUME NEW s \in SUBSET (1 .. n), s # {}
        PROVE  step[<<g[s \ {Max(s)}], Max(s)>>] = BlockPair(g[s \ {Max(s)}], lines[Max(s)])
    <3>1. Max(s) \in 1 .. n /\ g[s \ {Max(s)}] \in V
      BY <1>4, <2>1, MaxBelow DEF TakesOff
    <3> QED
      BY <1>2, <3>1
  <2> QED
    BY <1>4, <2>1 DEF TakesOff
<1>6. \A s \in SUBSET (1 .. n) :
        iter[s] = IF s = {} THEN base ELSE BlockPair(iter[s \ {Max(s)}], lines[Max(s)])
  <2> HIDE DEF Rec
  <2>1. Rec(iter)
    BY <1>5
  <2> HIDE DEF iter
  <2> QED
    BY <2>1 DEF Rec
<1> HIDE DEF Rec, iter
<1>7. ASSUME NEW s \in SUBSET (1 .. n), s # {}, iter[s \ {Max(s)}] \in V
      PROVE  iter[s] = step[<<iter[s \ {Max(s)}], Max(s)>>]
  <2>1. Max(s) \in 1 .. n
    BY <1>7, MaxBelow
  <2> QED
    BY <1>2, <1>6, <1>7, <2>1
<1>8. Steps(iter, n, V, base, step)
  BY <1>6, <1>7 DEF Steps
<1>9. PICK acc : IsRun(acc, n, V, base, step) /\ acc[n] = iter[1 .. n]
  <2>1. RunsTo(iter, n, V, base, step)
    BY <1>2, <1>8, FoldRuns, Zenon
  <2> QED
    BY <2>1 DEF RunsTo
<1>10. \A i \in 1 .. n : i - 1 \in 0 .. n /\ acc[i - 1] \in V
  BY <1>9 DEF IsRun
<1>11. \A i \in 1 .. n : acc[i] = BlockPair(acc[i - 1], lines[i])
  BY <1>2, <1>9, <1>10 DEF IsRun
<1> QED
  BY <1>1, <1>9, <1>11 DEF IsRun, IsBlockedRun

\* The folds of a row of the table and of the table.
Cells(prev, a, i, b, base, lines) ==
  FoldLeft(LAMBDA row, j : WithCell(<<>>, prev, a, i, b, row, j), base, lines)
Rows(a, b, max, base, lines) ==
  FoldLeft(LAMBDA row, i : BoundedRow(a, b, max, row, i), base, lines)

IsCellRun(acc, n, V, prev, a, at, b, base, lines) ==
  /\ acc \in [0 .. n -> V] /\ acc[0] = base /\ acc[n] = Cells(prev, a, at, b, base, lines)
  /\ \A i \in 1 .. n : acc[i] = WithCell(<<>>, prev, a, at, b, acc[i - 1], lines[i])

IsRowRun(acc, n, V, a, b, max, base, lines) ==
  /\ acc \in [0 .. n -> V] /\ acc[0] = base /\ acc[n] = Rows(a, b, max, base, lines)
  /\ \A i \in 1 .. n : acc[i] = BoundedRow(a, b, max, acc[i - 1], lines[i])

\* A row of the table is made cell by cell.
LEMMA CellFold ==
  ASSUME NEW n \in Nat, NEW prev, NEW a, NEW at, NEW b, NEW lines, DOMAIN lines = 1 .. n, NEW V, NEW base \in V,
         \A v \in V, i \in 1 .. n : WithCell(<<>>, prev, a, at, b, v, lines[i]) \in V
  PROVE  \E acc : IsCellRun(acc, n, V, prev, a, at, b, base, lines)
<1> DEFINE Rec(f) == f = [s \in SUBSET (1 .. n) |->
                            IF s = {} THEN base ELSE WithCell(<<>>, prev, a, at, b, f[s \ {Max(s)}], lines[Max(s)])]
           iter == CHOOSE f : Rec(f)
           step == [p \in V \X (1 .. n) |-> WithCell(<<>>, prev, a, at, b, p[1], lines[p[2]])]
<1>1. Cells(prev, a, at, b, base, lines) = iter[1 .. n]
  BY DEF Cells, FoldLeft, MapThenFoldSet
<1>2. step \in [V \X (1 .. n) -> V] /\ \A v \in V, i \in 1 .. n : step[<<v, i>>] = WithCell(<<>>, prev, a, at, b, v, lines[i])
  OBVIOUS
<1> HIDE DEF step
<1>3. \E f : TakesOff(f, n, V, base, step)
  BY <1>2, FoldExists, Zenon
<1>4. PICK g : TakesOff(g, n, V, base, step)
  BY <1>3
<1>5. Rec(g)
  <2>1. ASSUME NEW s \in SUBSET (1 .. n), s # {}
        PROVE  step[<<g[s \ {Max(s)}], Max(s)>>] = WithCell(<<>>, prev, a, at, b, g[s \ {Max(s)}], lines[Max(s)])
    <3>1. Max(s) \in 1 .. n /\ g[s \ {Max(s)}] \in V
      BY <1>4, <2>1, MaxBelow DEF TakesOff
    <3> QED
      BY <1>2, <3>1
  <2> QED
    BY <1>4, <2>1 DEF TakesOff
<1>6. \A s \in SUBSET (1 .. n) :
        iter[s] = IF s = {} THEN base ELSE WithCell(<<>>, prev, a, at, b, iter[s \ {Max(s)}], lines[Max(s)])
  <2> HIDE DEF Rec
  <2>1. Rec(iter)
    BY <1>5
  <2> HIDE DEF iter
  <2> QED
    BY <2>1 DEF Rec
<1> HIDE DEF Rec, iter
<1>7. ASSUME NEW s \in SUBSET (1 .. n), s # {}, iter[s \ {Max(s)}] \in V
      PROVE  iter[s] = step[<<iter[s \ {Max(s)}], Max(s)>>]
  <2>1. Max(s) \in 1 .. n
    BY <1>7, MaxBelow
  <2> QED
    BY <1>2, <1>6, <1>7, <2>1
<1>8. Steps(iter, n, V, base, step)
  BY <1>6, <1>7 DEF Steps
<1>9. PICK acc : IsRun(acc, n, V, base, step) /\ acc[n] = iter[1 .. n]
  <2>1. RunsTo(iter, n, V, base, step)
    BY <1>2, <1>8, FoldRuns, Zenon
  <2> QED
    BY <2>1 DEF RunsTo
<1>10. \A i \in 1 .. n : i - 1 \in 0 .. n /\ acc[i - 1] \in V
  BY <1>9 DEF IsRun
<1>11. \A i \in 1 .. n : acc[i] = WithCell(<<>>, prev, a, at, b, acc[i - 1], lines[i])
  BY <1>2, <1>9, <1>10 DEF IsRun
<1> QED
  BY <1>1, <1>9, <1>11 DEF IsRun, IsCellRun

\* The table is made row by row.
LEMMA RowFold ==
  ASSUME NEW n \in Nat, NEW a, NEW b, NEW max, NEW lines, DOMAIN lines = 1 .. n, NEW V, NEW base \in V,
         \A v \in V, i \in 1 .. n : BoundedRow(a, b, max, v, lines[i]) \in V
  PROVE  \E acc : IsRowRun(acc, n, V, a, b, max, base, lines)
<1> DEFINE Rec(f) == f = [s \in SUBSET (1 .. n) |->
                            IF s = {} THEN base ELSE BoundedRow(a, b, max, f[s \ {Max(s)}], lines[Max(s)])]
           iter == CHOOSE f : Rec(f)
           step == [p \in V \X (1 .. n) |-> BoundedRow(a, b, max, p[1], lines[p[2]])]
<1>1. Rows(a, b, max, base, lines) = iter[1 .. n]
  BY DEF Rows, FoldLeft, MapThenFoldSet
<1>2. step \in [V \X (1 .. n) -> V] /\ \A v \in V, i \in 1 .. n : step[<<v, i>>] = BoundedRow(a, b, max, v, lines[i])
  OBVIOUS
<1> HIDE DEF step
<1>3. \E f : TakesOff(f, n, V, base, step)
  BY <1>2, FoldExists, Zenon
<1>4. PICK g : TakesOff(g, n, V, base, step)
  BY <1>3
<1>5. Rec(g)
  <2>1. ASSUME NEW s \in SUBSET (1 .. n), s # {}
        PROVE  step[<<g[s \ {Max(s)}], Max(s)>>] = BoundedRow(a, b, max, g[s \ {Max(s)}], lines[Max(s)])
    <3>1. Max(s) \in 1 .. n /\ g[s \ {Max(s)}] \in V
      BY <1>4, <2>1, MaxBelow DEF TakesOff
    <3> QED
      BY <1>2, <3>1
  <2> QED
    BY <1>4, <2>1 DEF TakesOff
<1>6. \A s \in SUBSET (1 .. n) :
        iter[s] = IF s = {} THEN base ELSE BoundedRow(a, b, max, iter[s \ {Max(s)}], lines[Max(s)])
  <2> HIDE DEF Rec
  <2>1. Rec(iter)
    BY <1>5
  <2> HIDE DEF iter
  <2> QED
    BY <2>1 DEF Rec
<1> HIDE DEF Rec, iter
<1>7. ASSUME NEW s \in SUBSET (1 .. n), s # {}, iter[s \ {Max(s)}] \in V
      PROVE  iter[s] = step[<<iter[s \ {Max(s)}], Max(s)>>]
  <2>1. Max(s) \in 1 .. n
    BY <1>7, MaxBelow
  <2> QED
    BY <1>2, <1>6, <1>7, <2>1
<1>8. Steps(iter, n, V, base, step)
  BY <1>6, <1>7 DEF Steps
<1>9. PICK acc : IsRun(acc, n, V, base, step) /\ acc[n] = iter[1 .. n]
  <2>1. RunsTo(iter, n, V, base, step)
    BY <1>2, <1>8, FoldRuns, Zenon
  <2> QED
    BY <2>1 DEF RunsTo
<1>10. \A i \in 1 .. n : i - 1 \in 0 .. n /\ acc[i - 1] \in V
  BY <1>9 DEF IsRun
<1>11. \A i \in 1 .. n : acc[i] = BoundedRow(a, b, max, acc[i - 1], lines[i])
  BY <1>2, <1>9, <1>10 DEF IsRun
<1> QED
  BY <1>1, <1>9, <1>11 DEF IsRun, IsRowRun

\* The values of a function that takes one member after another exist.
LEMMA RunExists ==
  ASSUME NEW n \in Nat, NEW V, NEW base \in V, NEW step \in [V \X (1 .. n) -> V]
  PROVE  \E acc : IsRun(acc, n, V, base, step)
<1>1. PICK f : TakesOff(f, n, V, base, step)
  BY FoldExists, Zenon
<1>2. Steps(f, n, V, base, step)
  <2>1. {} \in SUBSET (1 .. n)
    OBVIOUS
  <2>2. f[{}] = base
    BY <1>1, <2>1 DEF TakesOff
  <2>3. \A s \in SUBSET (1 .. n) : s # {} => f[s] = step[<<f[s \ {Max(s)}], Max(s)>>]
    BY <1>1 DEF TakesOff
  <2> QED
    BY <2>2, <2>3 DEF Steps
<1>3. RunsTo(f, n, V, base, step)
  BY <1>2, FoldRuns, Zenon
<1> QED
  BY <1>3 DEF RunsTo

\* One sequence after another.
Joined(s, t) == s \o t

IsJoin(r, s, t) ==
  /\ Len(r) = Len(s) + Len(t)
  /\ \A i \in 1 .. Len(s) : r[i] = s[i]
  /\ \A i \in 1 .. Len(t) : r[Len(s) + i] = t[i]

\* The concatenation of two sequences, place by place.
LEMMA JoinedMeans ==
  ASSUME NEW V, NEW s \in Seq(V), NEW t \in Seq(V)
  PROVE  /\ Joined(s, t) \in Seq(V) /\ IsJoin(Joined(s, t), s, t)
         /\ Joined(<<>>, t) = t
<1>1. /\ s \o t \in Seq(V) /\ Len(s \o t) = Len(s) + Len(t)
      /\ \A i \in 1 .. Len(s) + Len(t) :
           (s \o t)[i] = IF i <= Len(s) THEN s[i] ELSE t[i - Len(s)]
  BY ConcatProperties
<1>2. Len(s) \in Nat /\ Len(t) \in Nat
  OBVIOUS
<1>3. \A i \in 1 .. Len(t) : /\ Len(s) + i \in 1 .. Len(s) + Len(t) /\ ~(Len(s) + i <= Len(s))
                             /\ (Len(s) + i) - Len(s) = i
  BY <1>2
<1>4. <<>> \o t = t
  BY ConcatEmptySeq
<1> QED
  BY <1>1, <1>2, <1>3, <1>4 DEF Joined, IsJoin

\* Sequences one after the other.
Concatenates(acc, n, V, seqs) ==
  /\ acc \in [0 .. n -> Seq(V)] /\ acc[0] = <<>>
  /\ \A i \in 1 .. n : acc[i] = Joined(acc[i - 1], seqs[i])

\* FlattenSeq concatenates the members of a sequence one by one.
LEMMA FlattenRun ==
  ASSUME NEW n \in Nat, n # 0, NEW V, NEW seqs \in [1 .. n -> Seq(V)]
  PROVE  \E acc : Concatenates(acc, n, V, seqs) /\ FlattenSeq(seqs) = acc[n]
<1> DEFINE step == [p \in Seq(V) \X (1 .. n) |-> Joined(p[1], seqs[p[2]])]
<1>1. step \in [Seq(V) \X (1 .. n) -> Seq(V)]
      /\ \A v \in Seq(V), i \in 1 .. n : step[<<v, i>>] = Joined(v, seqs[i])
  BY JoinedMeans
<1> HIDE DEF step
<1>2. <<>> \in Seq(V)
  OBVIOUS
<1>3. PICK acc : IsRun(acc, n, Seq(V), <<>>, step)
  BY <1>1, <1>2, RunExists, Zenon
<1>4. \A i \in 1 .. n : i - 1 \in 0 .. n /\ acc[i - 1] \in Seq(V)
  BY <1>3 DEF IsRun
<1>5. Concatenates(acc, n, V, seqs)
  BY <1>1, <1>3, <1>4 DEF IsRun, Concatenates
<1> DEFINE Rec(g) == g = [i \in 1 .. Len(seqs) |-> IF i = 1 THEN seqs[i] ELSE Joined(g[i - 1], seqs[i])]
           flatten == CHOOSE g : Rec(g)
           h == [i \in 1 .. n |-> acc[i]]
<1>6. Len(seqs) = n /\ seqs \in Seq(Seq(V))
  OBVIOUS
<1>7. FlattenSeq(seqs) = flatten[n]
  BY <1>6 DEF FlattenSeq, Joined
<1>8. Rec(h)
  <2>1. acc[0] = <<>> /\ \A i \in 1 .. n : acc[i] = Joined(acc[i - 1], seqs[i])
    BY <1>5 DEF Concatenates
  <2>2. \A i \in 1 .. n : acc[i] = IF i = 1 THEN seqs[i] ELSE Joined(h[i - 1], seqs[i])
    <3> TAKE i \in 1 .. n
    <3>1. CASE i = 1
      <4>1. acc[1] = Joined(<<>>, seqs[1]) /\ seqs[1] \in Seq(V)
        BY <2>1, <3>1
      <4>2. Joined(<<>>, seqs[1]) = seqs[1]
        BY <4>1, JoinedMeans
      <4> QED
        BY <3>1, <4>1, <4>2
    <3>2. CASE i # 1
      BY <2>1, <3>2
    <3> QED
      BY <3>1, <3>2
  <2> QED
    BY <1>6, <2>2
<1>9. Rec(flatten)
  <2> HIDE DEF Rec
  <2> QED
    BY <1>8
<1> HIDE DEF flatten, h
<1>10. \A i \in 1 .. n : flatten[i] = IF i = 1 THEN seqs[i] ELSE Joined(flatten[i - 1], seqs[i])
  BY <1>6, <1>9
<1> DEFINE T == {i \in 0 .. n : i # 0 => flatten[i] = acc[i]}
<1>11. 0 \in T
  OBVIOUS
<1>12. ASSUME NEW k \in 0 .. n - 1, k \in T PROVE k + 1 \in T
  <2>1. k + 1 \in 1 .. n /\ (k + 1) - 1 = k
    OBVIOUS
  <2>2. acc[k + 1] = Joined(acc[k], seqs[k + 1])
    BY <1>5, <2>1 DEF Concatenates
  <2>3. CASE k = 0
    <3>1. acc[0] = <<>> /\ seqs[1] \in Seq(V)
      BY <1>5 DEF Concatenates
    <3>3. Joined(<<>>, seqs[1]) = seqs[1]
      BY <3>1, JoinedMeans
    <3>2. acc[1] = seqs[1] /\ flatten[1] = seqs[1]
      BY <1>10, <2>1, <2>2, <2>3, <3>1, <3>3
    <3> QED
      BY <2>1, <2>3, <3>2
  <2>4. CASE k # 0
    <3>1. flatten[k + 1] = Joined(flatten[k], seqs[k + 1])
      BY <1>10, <2>1, <2>4
    <3>2. flatten[k] = acc[k]
      BY <1>12, <2>4
    <3> QED
      BY <2>1, <2>2, <3>1, <3>2
  <2> QED
    BY <2>3, <2>4
<1> HIDE DEF T
<1>13. 0 .. n \subseteq T
  BY <1>11, <1>12, BoundedInduction
<1>14. flatten[n] = acc[n]
  BY <1>13 DEF T
<1> QED
  BY <1>5, <1>7, <1>14

\* The fold of TextOf.
DecodedRun(base, lines) == FoldLeft(Decoded, base, lines)

IsDecoding(acc, n, V, base, lines) ==
  /\ acc \in [0 .. n -> V] /\ acc[0] = base /\ acc[n] = DecodedRun(base, lines)
  /\ \A i \in 1 .. n : acc[i] = Decoded(acc[i - 1], lines[i])

\* The characters of a sequence of octets are made octet by octet.
LEMMA DecodedFold ==
  ASSUME NEW n \in Nat, NEW lines, DOMAIN lines = 1 .. n, NEW V, NEW base \in V,
         \A v \in V, i \in 1 .. n : Decoded(v, lines[i]) \in V
  PROVE  \E acc : IsDecoding(acc, n, V, base, lines)
<1> DEFINE Rec(f) == f = [s \in SUBSET (1 .. n) |->
                            IF s = {} THEN base ELSE Decoded(f[s \ {Max(s)}], lines[Max(s)])]
           iter == CHOOSE f : Rec(f)
           step == [p \in V \X (1 .. n) |-> Decoded(p[1], lines[p[2]])]
<1>1. DecodedRun(base, lines) = iter[1 .. n]
  BY DEF DecodedRun, FoldLeft, MapThenFoldSet
<1>2. step \in [V \X (1 .. n) -> V] /\ \A v \in V, i \in 1 .. n : step[<<v, i>>] = Decoded(v, lines[i])
  OBVIOUS
<1> HIDE DEF step
<1>3. \E f : TakesOff(f, n, V, base, step)
  BY <1>2, FoldExists, Zenon
<1>4. PICK g : TakesOff(g, n, V, base, step)
  BY <1>3
<1>5. Rec(g)
  <2>1. ASSUME NEW s \in SUBSET (1 .. n), s # {}
        PROVE  step[<<g[s \ {Max(s)}], Max(s)>>] = Decoded(g[s \ {Max(s)}], lines[Max(s)])
    <3>1. Max(s) \in 1 .. n /\ g[s \ {Max(s)}] \in V
      BY <1>4, <2>1, MaxBelow DEF TakesOff
    <3> QED
      BY <1>2, <3>1
  <2> QED
    BY <1>4, <2>1 DEF TakesOff
<1>6. \A s \in SUBSET (1 .. n) :
        iter[s] = IF s = {} THEN base ELSE Decoded(iter[s \ {Max(s)}], lines[Max(s)])
  <2> HIDE DEF Rec
  <2>1. Rec(iter)
    BY <1>5
  <2> HIDE DEF iter
  <2> QED
    BY <2>1 DEF Rec
<1> HIDE DEF Rec, iter
<1>7. ASSUME NEW s \in SUBSET (1 .. n), s # {}, iter[s \ {Max(s)}] \in V
      PROVE  iter[s] = step[<<iter[s \ {Max(s)}], Max(s)>>]
  <2>1. Max(s) \in 1 .. n
    BY <1>7, MaxBelow
  <2> QED
    BY <1>2, <1>6, <1>7, <2>1
<1>8. Steps(iter, n, V, base, step)
  BY <1>6, <1>7 DEF Steps
<1>9. PICK acc : IsRun(acc, n, V, base, step) /\ acc[n] = iter[1 .. n]
  <2>1. RunsTo(iter, n, V, base, step)
    BY <1>2, <1>8, FoldRuns, Zenon
  <2> QED
    BY <2>1 DEF RunsTo
<1>10. \A i \in 1 .. n : i - 1 \in 0 .. n /\ acc[i - 1] \in V
  BY <1>9 DEF IsRun
<1>11. \A i \in 1 .. n : acc[i] = Decoded(acc[i - 1], lines[i])
  BY <1>2, <1>9, <1>10 DEF IsRun
<1> QED
  BY <1>1, <1>9, <1>11 DEF IsRun, IsDecoding

-----------------------------------------------------------------------------
(* Sets in an order.                                                       *)

\* R is a strict total order on S.
Orders(R, S) ==
  /\ \A x \in S : <<x, x>> \notin R
  /\ \A x, y, z \in S : <<x, y>> \in R /\ <<y, z>> \in R => <<x, z>> \in R
  /\ \A x, y \in S : x # y => <<x, y>> \in R \/ <<y, x>> \in R

Before(R, S, x) == {y \in S : <<y, x>> \in R}

\* Every member of S once.
Lists(seq, S) ==
  /\ seq \in [1 .. Cardinality(S) -> S]
  /\ \A x \in S : \E n \in 1 .. Cardinality(S) : seq[n] = x
  /\ \A m, n \in 1 .. Cardinality(S) : seq[m] = seq[n] => m = n

Sorted(seq, R) == \A m, n \in DOMAIN seq : m < n => <<seq[m], seq[n]>> \in R

\* The number of members before one grows along the order and takes every value.
LEMMA Ranks ==
  ASSUME NEW S, IsFiniteSet(S), NEW R, Orders(R, S)
  PROVE  /\ \A x \in S : Cardinality(Before(R, S, x)) \in 0 .. Cardinality(S) - 1
         /\ \A x, y \in S : <<x, y>> \in R =>
              Cardinality(Before(R, S, x)) < Cardinality(Before(R, S, y))
         /\ \A n \in 1 .. Cardinality(S) : \E x \in S : Cardinality(Before(R, S, x)) = n - 1
<1> DEFINE N == Cardinality(S)
           rank == [x \in S |-> Cardinality(Before(R, S, x))]
<1>1. N \in Nat
  BY FS_CardinalityType
<1>2. ASSUME NEW x \in S
      PROVE  /\ Before(R, S, x) \in SUBSET S /\ x \notin Before(R, S, x)
             /\ IsFiniteSet(Before(R, S, x)) /\ Cardinality(Before(R, S, x)) \in 0 .. N - 1
  <2>1. Before(R, S, x) \in SUBSET S /\ x \notin Before(R, S, x)
    BY DEF Before, Orders
  <2>2. /\ IsFiniteSet(Before(R, S, x)) /\ Cardinality(Before(R, S, x)) <= N
        /\ N = Cardinality(Before(R, S, x)) => S = Before(R, S, x)
    BY <2>1, FS_Subset, Zenon
  <2>3. Cardinality(Before(R, S, x)) \in Nat
    BY <2>2, FS_CardinalityType
  <2>4. N # Cardinality(Before(R, S, x))
    BY <2>1, <2>2
  <2> HIDE DEF N
  <2> QED
    BY <1>1, <2>1, <2>2, <2>3, <2>4
<1>3. ASSUME NEW x \in S, NEW y \in S, <<x, y>> \in R
      PROVE  Cardinality(Before(R, S, x)) < Cardinality(Before(R, S, y))
  <2>1. Before(R, S, x) \in SUBSET Before(R, S, y) /\ x \in Before(R, S, y)
    BY <1>3 DEF Before, Orders
  <2>2. /\ Cardinality(Before(R, S, x)) <= Cardinality(Before(R, S, y))
        /\ Cardinality(Before(R, S, y)) = Cardinality(Before(R, S, x)) =>
             Before(R, S, y) = Before(R, S, x)
    BY <1>2, <2>1, FS_Subset, Zenon
  <2>3. x \notin Before(R, S, x)
    BY <1>2
  <2>4. Cardinality(Before(R, S, x)) \in Int /\ Cardinality(Before(R, S, y)) \in Int
    BY <1>2
  <2> QED
    BY <2>1, <2>2, <2>3, <2>4
<1> HIDE DEF N
<1>4. rank \in Injection(S, 0 .. N - 1)
  <2>1. rank \in [S -> 0 .. N - 1]
    BY <1>2
  <2>2. ASSUME NEW x \in S, NEW y \in S, rank[x] = rank[y] PROVE x = y
    <3>1. /\ Cardinality(Before(R, S, x)) = Cardinality(Before(R, S, y))
          /\ Cardinality(Before(R, S, x)) \in Int
      BY <1>2, <2>2
    <3>2. <<x, y>> \notin R /\ <<y, x>> \notin R
      BY <1>3, <3>1
    <3> QED
      BY <3>2 DEF Orders
  <2>3. \A x, y \in S : rank[x] = rank[y] => x = y
    BY <2>2
  <2> HIDE DEF rank
  <2> QED
    BY <2>1, <2>3 DEF Injection, IsInjective
<1>5. IsFiniteSet(0 .. N - 1) /\ Cardinality(0 .. N - 1) = N
  <2>1. /\ IsFiniteSet(0 .. N - 1)
        /\ Cardinality(0 .. N - 1) = IF 0 > N - 1 THEN 0 ELSE (N - 1) - 0 + 1
    BY <1>1, FS_Interval
  <2> QED
    BY <1>1, <2>1
<1>6. rank \in Surjection(S, 0 .. N - 1)
  <2> HIDE DEF rank
  <2> QED
    BY <1>4, <1>5, FS_Injection DEF N
<1>7. ASSUME NEW n \in 1 .. N PROVE \E x \in S : Cardinality(Before(R, S, x)) = n - 1
  <2>1. n - 1 \in 0 .. N - 1
    BY <1>1
  <2>2. PICK x \in S : rank[x] = n - 1
    <3> HIDE DEF rank
    <3> QED
      BY <1>6, <2>1 DEF Surjection
  <2> QED
    BY <2>2
<1> QED
  BY <1>2, <1>3, <1>7 DEF N

\* Members that are picked by that number.
Picks(seq, S, R) ==
  /\ seq = [n \in 1 .. Cardinality(S) |-> seq[n]]
  /\ \A n \in 1 .. Cardinality(S) :
       (\E x \in S : Cardinality(Before(R, S, x)) = n - 1) =>
         seq[n] \in S /\ Cardinality(Before(R, S, seq[n])) = n - 1

\* They come in the order.
LEMMA Listing ==
  ASSUME NEW S, IsFiniteSet(S), NEW R, Orders(R, S), NEW seq, Picks(seq, S, R)
  PROVE  Lists(seq, S) /\ Sorted(seq, R)
<1> DEFINE N == Cardinality(S)
           r(x) == Cardinality(Before(R, S, x))
<1>1. N \in Nat
  BY FS_CardinalityType
<1>2. /\ \A x \in S : r(x) \in 0 .. N - 1
      /\ \A x, y \in S : <<x, y>> \in R => r(x) < r(y)
      /\ \A n \in 1 .. N : \E x \in S : r(x) = n - 1
  BY Ranks, Zenon
<1> HIDE DEF r, N
<1>3. \A n \in 1 .. N : seq[n] \in S /\ r(seq[n]) = n - 1
  <2> TAKE n \in 1 .. N
  <2>1. (\E x \in S : r(x) = n - 1) => seq[n] \in S /\ r(seq[n]) = n - 1
    BY DEF N, r, Picks
  <2>2. \E x \in S : r(x) = n - 1
    BY <1>2
  <2> QED
    BY <2>1, <2>2
<1>4. seq \in [1 .. N -> S]
  <2>1. DOMAIN seq = 1 .. N /\ seq = [n \in DOMAIN seq |-> seq[n]]
    BY DEF N, Picks
  <2> QED
    BY <1>3, <2>1
<1>5. ASSUME NEW x \in S, NEW y \in S, r(x) = r(y) PROVE x = y
  <2>1. r(x) \in Int /\ r(y) \in Int
    BY <1>2
  <2>2. <<x, y>> \notin R /\ <<y, x>> \notin R
    BY <1>2, <1>5, <2>1
  <2> QED
    BY <2>2 DEF Orders
<1>6. ASSUME NEW x \in S PROVE \E n \in 1 .. N : seq[n] = x
  <2>1. r(x) + 1 \in 1 .. N /\ (r(x) + 1) - 1 = r(x)
    BY <1>1, <1>2
  <2>2. seq[r(x) + 1] \in S /\ r(seq[r(x) + 1]) = r(x)
    BY <1>3, <2>1
  <2>3. seq[r(x) + 1] = x
    BY <1>5, <2>2
  <2> QED
    BY <2>1, <2>3
<1>7. ASSUME NEW m \in 1 .. N, NEW n \in 1 .. N, seq[m] = seq[n] PROVE m = n
  <2>1. m - 1 = n - 1
    BY <1>3, <1>7
  <2> QED
    BY <2>1
<1>8. ASSUME NEW m \in 1 .. N, NEW n \in 1 .. N, m < n PROVE <<seq[m], seq[n]>> \in R
  <2>1. /\ r(seq[m]) = m - 1 /\ r(seq[n]) = n - 1
        /\ seq[m] \in S /\ seq[n] \in S
    BY <1>3
  <2>2. m - 1 < n - 1 /\ ~(n - 1 < m - 1)
    BY <1>1, <1>8
  <2>3. seq[m] # seq[n]
    BY <2>1, <2>2
  <2>4. <<seq[n], seq[m]>> \notin R
    BY <1>2, <2>1, <2>2
  <2> QED
    BY <2>1, <2>3, <2>4 DEF Orders
<1> QED
  BY <1>4, <1>6, <1>7, <1>8 DEF Lists, Sorted, N

-----------------------------------------------------------------------------
(* The order of the keys.                                                  *)

\* A set of numbers that is not empty has a least.
LEMMA MinOf ==
  ASSUME NEW s \in SUBSET Nat, s # {}
  PROVE  Min(s) \in s /\ \A i \in s : Min(s) <= i
<1>1. PICK n \in s : \A m \in s : ~(<<m, n>> \in OpToRel(<, Nat))
  BY NatLessThanWellFounded, WFMin
<1>2. \A m \in s : m \in Nat /\ n \in Nat
  OBVIOUS
<1>3. \A m \in s : ~(m < n)
  BY <1>1, <1>2 DEF OpToRel
<1>4. \A m \in s : n <= m
  BY <1>2, <1>3
<1> QED
  BY <1>4 DEF Min

\* Two symbols of a dictionary have different codes.
LEMMA CodeIsOneToOne ==
  ASSUME NEW c \in DictionarySymbols, NEW d \in DictionarySymbols
  PROVE  Code(c) \in Nat /\ (Code(c) = Code(d) => c = d)
<1>1. \A e \in Letters : e # "'" /\ Code(e) \in DOMAIN Alphabet /\ Alphabet[Code(e)] = e
  BY WordsAssumption DEF Letters, Marks, Code
<1>2. Code("'") = 0
  BY DEF Code
<1>3. \A e \in Letters : Code(e) \in Nat /\ Code(e) # 0
  BY <1>1, WordsAssumption
<1> QED
  BY <1>1, <1>2, <1>3 DEF DictionarySymbols

Keys == Seq(DictionarySymbols)

\* Two keys are alike before k.
AlikeBefore(v, w, k) == \A i \in 1 .. k - 1 : v[i] = w[i]

\* The first place where they differ decides, or the end of the first.
LEMMA PrecedesMeans ==
  ASSUME NEW v \in Keys, NEW w \in Keys
  PROVE  Precedes(v, w) <=>
           \/ \E k \in 1 .. Len(v) : /\ k <= Len(w) /\ AlikeBefore(v, w, k)
                                     /\ Code(v[k]) < Code(w[k])
           \/ Len(v) < Len(w) /\ AlikeBefore(v, w, Len(v) + 1)
<1> DEFINE differ == {i \in DOMAIN v \cap DOMAIN w : v[i] # w[i]}
           first == Min(differ)
<1>1. /\ Len(v) \in Nat /\ Len(w) \in Nat /\ DOMAIN v = 1 .. Len(v) /\ DOMAIN w = 1 .. Len(w)
      /\ \A i \in 1 .. Len(v) : v[i] \in DictionarySymbols
      /\ \A i \in 1 .. Len(w) : w[i] \in DictionarySymbols
  BY DEF Keys
<1>2. Precedes(v, w) <=> IF differ = {} THEN Len(v) < Len(w) ELSE Code(v[first]) < Code(w[first])
  BY DEF Precedes
<1>3. CASE differ = {}
  <2>1. \A i \in 1 .. Len(v) : i <= Len(w) => v[i] = w[i]
    BY <1>1, <1>3
  <2>2. \A k \in 1 .. Len(v) : k <= Len(w) => ~(Code(v[k]) < Code(w[k]))
    BY <1>1, <2>1, CodeIsOneToOne
  <2>3. Len(v) < Len(w) => AlikeBefore(v, w, Len(v) + 1)
    BY <1>1, <2>1 DEF AlikeBefore
  <2> QED
    BY <1>2, <1>3, <2>2, <2>3
<1>4. CASE differ # {}
  <2>1. differ \in SUBSET Nat
    BY <1>1
  <2>2. first \in differ /\ \A i \in differ : first <= i
    BY <1>4, <2>1, MinOf
  <2> HIDE DEF first
  <2>3. /\ first \in 1 .. Len(v) /\ first <= Len(w) /\ v[first] # w[first]
        /\ \A i \in 1 .. Len(v) : i <= Len(w) /\ v[i] # w[i] => first <= i
    BY <1>1, <2>2
  <2> HIDE DEF differ
  <2>4. AlikeBefore(v, w, first)
    BY <1>1, <2>3 DEF AlikeBefore
  <2>5. ASSUME NEW k \in 1 .. Len(v), k <= Len(w), AlikeBefore(v, w, k), Code(v[k]) < Code(w[k])
        PROVE  k = first
    <3>1. v[k] # w[k]
      BY <1>1, <2>5, CodeIsOneToOne
    <3>2. first <= k
      BY <2>3, <2>5, <3>1
    <3>3. ~(first < k)
      BY <1>1, <2>3, <2>5 DEF AlikeBefore
    <3> QED
      BY <2>3, <3>2, <3>3
  <2>6. ~(Len(v) < Len(w) /\ AlikeBefore(v, w, Len(v) + 1))
    BY <1>1, <2>3 DEF AlikeBefore
  <2> QED
    BY <1>2, <1>4, <2>3, <2>4, <2>5, <2>6
<1> QED
  BY <1>3, <1>4

\* Of two different keys one precedes the other, and the order is transitive.
LEMMA PrecedesIsAnOrder ==
  /\ \A v \in Keys : ~Precedes(v, v)
  /\ \A v, w \in Keys : v # w => Precedes(v, w) \/ Precedes(w, v)
  /\ \A u, v, w \in Keys : Precedes(u, v) /\ Precedes(v, w) => Precedes(u, w)
<1> DEFINE At(v, w, k) == /\ k \in 1 .. Len(v) /\ k <= Len(w) /\ AlikeBefore(v, w, k)
                          /\ Code(v[k]) < Code(w[k])
           Ends(v, w) == Len(v) < Len(w) /\ AlikeBefore(v, w, Len(v) + 1)
<1>1. \A v, w \in Keys : Precedes(v, w) <=> (\E k : At(v, w, k)) \/ Ends(v, w)
  BY PrecedesMeans
<1>2. \A v \in Keys : /\ Len(v) \in Nat /\ DOMAIN v = 1 .. Len(v)
                      /\ \A i \in 1 .. Len(v) : v[i] \in DictionarySymbols /\ Code(v[i]) \in Nat
  BY CodeIsOneToOne DEF Keys
<1>3. ASSUME NEW v \in Keys PROVE ~Precedes(v, v)
  <2>1. \A k : ~At(v, v, k)
    BY <1>2
  <2>2. ~Ends(v, v)
    BY <1>2
  <2> HIDE DEF At, Ends
  <2> QED
    BY <1>1, <2>1, <2>2
<1>4. ASSUME NEW v \in Keys, NEW w \in Keys, v # w PROVE Precedes(v, w) \/ Precedes(w, v)
  <2> DEFINE differ == {i \in 1 .. Len(v) : i <= Len(w) /\ v[i] # w[i]}
  <2>1. CASE differ = {}
    <3>1. \A i \in 1 .. Len(v) : i <= Len(w) => v[i] = w[i]
      BY <2>1
    <3>2. Len(v) # Len(w)
      <4>1. ASSUME Len(v) = Len(w) PROVE v = w
        BY <1>2, <3>1, <4>1, SeqEqual DEF Keys
      <4> QED
        BY <1>4, <4>1
    <3>3. Len(v) < Len(w) => Ends(v, w)
      BY <1>2, <3>1 DEF AlikeBefore
    <3>4. Len(w) < Len(v) => Ends(w, v)
      BY <1>2, <3>1 DEF AlikeBefore
    <3>5. Len(v) < Len(w) \/ Len(w) < Len(v)
      BY <1>2, <3>2
    <3> HIDE DEF At, Ends
    <3> QED
      BY <1>1, <3>3, <3>4, <3>5
  <2>2. CASE differ # {}
    <3> DEFINE k == Min(differ)
    <3>1. differ \in SUBSET Nat
      BY <1>2
    <3>2. k \in differ /\ \A i \in differ : k <= i
      BY <2>2, <3>1, MinOf
    <3> HIDE DEF k
    <3>3. /\ k \in 1 .. Len(v) /\ k \in 1 .. Len(w) /\ v[k] # w[k]
          /\ \A i \in 1 .. k - 1 : v[i] = w[i]
      BY <1>2, <3>2
    <3>4. Code(v[k]) < Code(w[k]) \/ Code(w[k]) < Code(v[k])
      <4>1. v[k] \in DictionarySymbols /\ w[k] \in DictionarySymbols
        BY <1>2, <3>3
      <4>2. Code(v[k]) \in Nat /\ Code(w[k]) \in Nat /\ Code(v[k]) # Code(w[k])
        BY <3>3, <4>1, CodeIsOneToOne
      <4> QED
        BY <4>2
    <3>5. AlikeBefore(v, w, k) /\ AlikeBefore(w, v, k)
      BY <3>3 DEF AlikeBefore
    <3>6. At(v, w, k) \/ At(w, v, k)
      BY <1>2, <3>3, <3>4, <3>5
    <3> HIDE DEF At, Ends
    <3> QED
      BY <1>1, <3>6
  <2> QED
    BY <2>1, <2>2
<1>5. ASSUME NEW u \in Keys, NEW v \in Keys, NEW w \in Keys, Precedes(u, v), Precedes(v, w)
      PROVE  Precedes(u, w)
  <2>0. /\ Len(u) \in Nat /\ Len(v) \in Nat /\ Len(w) \in Nat
        /\ \A i \in 1 .. Len(u) : Code(u[i]) \in Nat
        /\ \A i \in 1 .. Len(v) : Code(v[i]) \in Nat
        /\ \A i \in 1 .. Len(w) : Code(w[i]) \in Nat
    BY <1>2
  <2>1. ASSUME NEW i, At(u, v, i), NEW j, At(v, w, j) PROVE Precedes(u, w)
    <3>1. CASE i < j
      <4>1. At(u, w, i)
        BY <2>0, <2>1, <3>1 DEF AlikeBefore
      <4> QED
        BY <1>1, <4>1
    <3>2. CASE j < i
      <4>1. At(u, w, j)
        BY <2>0, <2>1, <3>2 DEF AlikeBefore
      <4> QED
        BY <1>1, <4>1
    <3>3. CASE i = j
      <4>1. At(u, w, i)
        BY <2>0, <2>1, <3>3 DEF AlikeBefore
      <4> QED
        BY <1>1, <4>1
    <3>4. i \in Nat /\ j \in Nat
      BY <2>0, <2>1
    <3> QED
      BY <3>1, <3>2, <3>3, <3>4
  <2>2. ASSUME NEW i, At(u, v, i), Ends(v, w) PROVE Precedes(u, w)
    <3>1. At(u, w, i)
      BY <2>0, <2>2 DEF AlikeBefore
    <3> QED
      BY <1>1, <3>1
  <2>3. ASSUME Ends(u, v), NEW j, At(v, w, j) PROVE Precedes(u, w)
    <3>1. CASE j <= Len(u)
      <4>1. At(u, w, j)
        BY <2>0, <2>3, <3>1 DEF AlikeBefore
      <4> QED
        BY <1>1, <4>1
    <3>2. CASE Len(u) < j
      <4>1. Ends(u, w)
        BY <2>0, <2>3, <3>2 DEF AlikeBefore
      <4> QED
        BY <1>1, <4>1
    <3>3. j \in Nat
      BY <2>0, <2>3
    <3> QED
      BY <2>0, <3>1, <3>2, <3>3
  <2>4. ASSUME Ends(u, v), Ends(v, w) PROVE Precedes(u, w)
    <3>1. Ends(u, w)
      BY <2>0, <2>4 DEF AlikeBefore
    <3> QED
      BY <1>1, <3>1
  <2> HIDE DEF At, Ends
  <2>5. ((\E k : At(u, v, k)) \/ Ends(u, v)) /\ ((\E k : At(v, w, k)) \/ Ends(v, w))
    BY <1>1, <1>5
  <2> QED
    BY <2>1, <2>2, <2>3, <2>4, <2>5
<1> QED
  BY <1>3, <1>4, <1>5

KeyOrder == {e \in Keys \X Keys : Precedes(e[1], e[2])}
KeysInOrder(S) == InOrder(S, Precedes)

\* InOrder lists every key of a set once, in their order.
LEMMA KeysListed ==
  ASSUME NEW S \in SUBSET Keys, IsFiniteSet(S)
  PROVE  Lists(KeysInOrder(S), S) /\ Sorted(KeysInOrder(S), KeyOrder)
<1> DEFINE seq == KeysInOrder(S)
           N == Cardinality(S)
<1>1. Orders(KeyOrder, S)
  BY PrecedesIsAnOrder DEF Orders, KeyOrder
<1>2. \A x \in S : Before(KeyOrder, S, x) = {y \in S : Precedes(y, x)}
  BY DEF Before, KeyOrder
<1>3. seq = [n \in 1 .. N |-> CHOOSE x \in S : Cardinality({y \in S : Precedes(y, x)}) = n - 1]
  BY DEF InOrder, KeysInOrder
<1> HIDE DEF seq, N
<1>4. seq = [n \in 1 .. N |-> seq[n]]
  <2> DEFINE pick(n) == CHOOSE x \in S : Cardinality({y \in S : Precedes(y, x)}) = n - 1
  <2>1. seq = [n \in 1 .. N |-> pick(n)]
    BY <1>3
  <2> HIDE DEF pick
  <2> QED
    BY <2>1
<1>5. ASSUME NEW n \in 1 .. N, NEW x \in S, Cardinality(Before(KeyOrder, S, x)) = n - 1
      PROVE  seq[n] \in S /\ Cardinality(Before(KeyOrder, S, seq[n])) = n - 1
  <2>1. Cardinality({y \in S : Precedes(y, x)}) = n - 1
    BY <1>2, <1>5
  <2>2. seq[n] = CHOOSE z \in S : Cardinality({y \in S : Precedes(y, z)}) = n - 1
    BY <1>3
  <2>3. seq[n] \in S /\ Cardinality({y \in S : Precedes(y, seq[n])}) = n - 1
    BY <2>1, <2>2
  <2> QED
    BY <1>2, <2>3
<1>6. Picks(seq, S, KeyOrder)
  BY <1>4, <1>5 DEF Picks, N
<1> QED
  BY <1>1, <1>6, Listing DEF seq

-----------------------------------------------------------------------------
(* The candidates of the dictionary.                                       *)

Raws == [word : Keys, distance : Nat, frequency : Nat]
RawOrder == {e \in Raws \X Raws : Better(e[1], e[2])}
RawsInOrder(S) == InOrder(S, Better)

\* The order of the raw matches is strict and total.
LEMMA BetterIsAnOrder ==
  ASSUME NEW S \in SUBSET Raws
  PROVE  Orders(RawOrder, S)
<1>1. \A r \in Raws : ~Better(r, r)
  BY PrecedesIsAnOrder DEF Better, Raws
<1>2. ASSUME NEW q \in Raws, NEW r \in Raws, NEW s \in Raws, Better(q, r), Better(r, s)
      PROVE  Better(q, s)
  <2>1. /\ q.distance \in Nat /\ r.distance \in Nat /\ s.distance \in Nat
        /\ q.frequency \in Nat /\ r.frequency \in Nat /\ s.frequency \in Nat
        /\ q.word \in Keys /\ r.word \in Keys /\ s.word \in Keys
    BY DEF Raws
  <2>2. Precedes(q.word, r.word) /\ Precedes(r.word, s.word) => Precedes(q.word, s.word)
    BY <2>1, PrecedesIsAnOrder
  <2> QED
    BY <1>2, <2>1, <2>2 DEF Better
<1>3. ASSUME NEW r \in Raws, NEW s \in Raws, r # s PROVE Better(r, s) \/ Better(s, r)
  <2>1. /\ r.distance \in Nat /\ s.distance \in Nat
        /\ r.frequency \in Nat /\ s.frequency \in Nat
        /\ r.word \in Keys /\ s.word \in Keys
    BY DEF Raws
  <2>2. r.distance # s.distance \/ r.frequency # s.frequency \/ r.word # s.word
    BY <1>3 DEF Raws
  <2>3. r.word # s.word => Precedes(r.word, s.word) \/ Precedes(s.word, r.word)
    BY <2>1, PrecedesIsAnOrder
  <2> QED
    BY <2>1, <2>2, <2>3 DEF Better
<1> QED
  BY <1>1, <1>2, <1>3 DEF Orders, RawOrder

\* InOrder lists every raw match once, the best first.
LEMMA RawsListed ==
  ASSUME NEW S \in SUBSET Raws, IsFiniteSet(S)
  PROVE  Lists(RawsInOrder(S), S) /\ Sorted(RawsInOrder(S), RawOrder)
<1> DEFINE seq == RawsInOrder(S)
           N == Cardinality(S)
<1>1. \A x \in S : Before(RawOrder, S, x) = {y \in S : Better(y, x)}
  BY DEF Before, RawOrder
<1>2. seq = [n \in 1 .. N |-> CHOOSE x \in S : Cardinality({y \in S : Better(y, x)}) = n - 1]
  BY DEF InOrder, RawsInOrder
<1> HIDE DEF seq, N
<1>3. seq = [n \in 1 .. N |-> seq[n]]
  <2> DEFINE pick(n) == CHOOSE x \in S : Cardinality({y \in S : Better(y, x)}) = n - 1
  <2>1. seq = [n \in 1 .. N |-> pick(n)]
    BY <1>2
  <2> HIDE DEF pick
  <2> QED
    BY <2>1
<1>4. ASSUME NEW n \in 1 .. N, NEW x \in S, Cardinality(Before(RawOrder, S, x)) = n - 1
      PROVE  seq[n] \in S /\ Cardinality(Before(RawOrder, S, seq[n])) = n - 1
  <2>1. Cardinality({y \in S : Better(y, x)}) = n - 1
    BY <1>1, <1>4
  <2>2. seq[n] = CHOOSE z \in S : Cardinality({y \in S : Better(y, z)}) = n - 1
    BY <1>2
  <2>3. seq[n] \in S /\ Cardinality({y \in S : Better(y, seq[n])}) = n - 1
    BY <2>1, <2>2
  <2> QED
    BY <1>1, <2>3
<1>5. Picks(seq, S, RawOrder)
  BY <1>3, <1>4 DEF Picks, N
<1> QED
  BY <1>5, BetterIsAnOrder, Listing DEF seq

-----------------------------------------------------------------------------
(* The personal dictionary.                                                *)

\* The lesser of two numbers.
LEMMA MinOfTwo ==
  ASSUME NEW a \in Int, NEW b \in Int
  PROVE  Min({a, b}) = IF a <= b THEN a ELSE b
<1> DEFINE m == IF a <= b THEN a ELSE b
<1>1. m \in {a, b} /\ \A y \in {a, b} : m <= y
  OBVIOUS
<1>2. \A x \in {a, b} : (\A y \in {a, b} : x <= y) => x = m
  BY <1>1
<1> HIDE DEF m
<1>3. Min({a, b}) = m
  BY <1>1, <1>2 DEF Min
<1> QED
  BY <1>3 DEF m

\* The beginning of a sequence.
LEMMA FirstOfSeq ==
  ASSUME NEW S, NEW seq \in Seq(S), NEW n \in Nat
  PROVE  /\ FirstOf(seq, n) \in Seq(S)
         /\ Len(FirstOf(seq, n)) = IF n <= Len(seq) THEN n ELSE Len(seq)
         /\ \A i \in 1 .. Len(FirstOf(seq, n)) :
              i \in 1 .. Len(seq) /\ FirstOf(seq, n)[i] = seq[i]
<1> DEFINE m == Min({n, Len(seq)})
<1>1. Len(seq) \in Nat
  OBVIOUS
<1>2. m = IF n <= Len(seq) THEN n ELSE Len(seq)
  BY <1>1, MinOfTwo
<1> HIDE DEF m
<1>3. FirstOf(seq, n) = SubSeq(seq, 1, m)
  BY DEF FirstOf, m
<1>4. m \in Nat /\ m <= Len(seq)
  BY <1>1, <1>2
<1>5. SubSeq(seq, 1, m) \in Seq(S) /\ Len(SubSeq(seq, 1, m)) = m
  BY <1>1, <1>4
<1>6. \A i \in 1 .. m : i \in 1 .. Len(seq) /\ SubSeq(seq, 1, m)[i] = seq[i]
  BY <1>1, <1>4
<1> QED
  BY <1>2, <1>3, <1>5, <1>6

Pairs == Keys \X Keys

WithinBounds(S) == IsFiniteSet(S) /\ Cardinality(S) <= MaxPersonalEntries

\* What a personal dictionary may hold.
Dictionaries ==
  {d \in [words : SUBSET Keys, forced : SUBSET Pairs, blocked : SUBSET Pairs] :
     /\ WithinBounds(d.words) /\ WithinBounds(d.forced) /\ WithinBounds(d.blocked)
     /\ \A w \in d.words : IsValidWord(w)
     /\ \A p \in d.forced \cup d.blocked : IsValidWord(p[1]) /\ IsValidWord(p[2])
     /\ \A p, q \in d.forced : p[1] = q[1] => p = q}

\* A valid word is a key of the dictionary.
LEMMA ValidWordsAreKeys ==
  ASSUME NEW w \in Seq(Letters \cup Marks), IsValidWord(w)
  PROVE  w \in Keys
<1>1. \A i \in 1 .. Len(w) : w[i] \in DictionarySymbols
  BY DEF IsValidWord, ToSet
<1> QED
  BY <1>1 DEF Keys

\* Below the bound there is room for one more.
LEMMA OneMore ==
  ASSUME NEW S, NEW x, IsFiniteSet(S), Cardinality(S) < MaxPersonalEntries
  PROVE  WithinBounds(S \cup {x})
<1>1. Cardinality(S) \in Nat
  BY FS_CardinalityType
<1>2. /\ IsFiniteSet(S \cup {x})
      /\ Cardinality(S \cup {x}) = IF x \in S THEN Cardinality(S) ELSE Cardinality(S) + 1
  BY FS_AddElement, Zenon
<1> QED
  BY <1>1, <1>2, EngineAssumption DEF WithinBounds

\* add_word keeps what a personal dictionary promises.
LEMMA AddWordStays ==
  ASSUME NEW d \in Dictionaries, NEW w \in Seq(Letters \cup Marks)
  PROVE  AddWord(d, w) \in Dictionaries
<1>1. CASE IsValidWord(w) /\ Cardinality(d.words) < MaxPersonalEntries
  <2>1. w \in Keys
    BY <1>1, ValidWordsAreKeys
  <2>2. WithinBounds(d.words \cup {w})
    <3>1. IsFiniteSet(d.words)
      BY DEF Dictionaries, WithinBounds
    <3> QED
      BY <1>1, <3>1, OneMore
  <2>3. AddWord(d, w) = [d EXCEPT !.words = d.words \cup {w}]
    BY <1>1 DEF AddWord, Dictionaries
  <2> QED
    BY <1>1, <2>1, <2>2, <2>3 DEF Dictionaries
<1>2. CASE ~(IsValidWord(w) /\ Cardinality(d.words) < MaxPersonalEntries)
  BY <1>2 DEF AddWord
<1> QED
  BY <1>1, <1>2

\* What a line of the two files of pairs holds.
IsPair(pair) ==
  /\ pair = <<pair[1], pair[2]>>
  /\ \A k \in {1, 2} : pair[k] \in Seq(Letters \cup Marks)

\* So does add_forced, which removes the pair that was there.
LEMMA AddForcedStays ==
  ASSUME NEW d \in Dictionaries, NEW pair, IsPair(pair)
  PROVE  AddForced(d, pair) \in Dictionaries
<1> DEFINE fits == /\ IsValidWord(pair[1]) /\ IsValidWord(pair[2])
                   /\ Cardinality(d.forced) < MaxPersonalEntries
           kept == {p \in d.forced : p[1] # pair[1]}
<1>1. CASE fits
  <2>1. pair \in Pairs
    <3>1. pair[1] \in Keys /\ pair[2] \in Keys
      BY <1>1, ValidWordsAreKeys DEF IsPair
    <3> QED
      BY <3>1 DEF IsPair, Pairs
  <2>2. kept \in SUBSET d.forced /\ IsFiniteSet(d.forced)
    BY DEF Dictionaries, WithinBounds
  <2>3. IsFiniteSet(kept) /\ Cardinality(kept) <= Cardinality(d.forced)
    BY <2>2, FS_Subset, Zenon
  <2>4. WithinBounds(kept \cup {pair})
    <3>1. Cardinality(kept) \in Nat /\ Cardinality(d.forced) \in Nat
      BY <2>2, <2>3, FS_CardinalityType
    <3>2. Cardinality(kept) < MaxPersonalEntries
      BY <1>1, <2>3, <3>1, EngineAssumption
    <3> QED
      BY <2>3, <3>2, OneMore
  <2>5. AddForced(d, pair) = [d EXCEPT !.forced = kept \cup {pair}]
    BY <1>1 DEF AddForced, Dictionaries
  <2>6. \A p \in kept \cup {pair} : IsValidWord(p[1]) /\ IsValidWord(p[2])
    BY <1>1 DEF Dictionaries
  <2>7. \A p, q \in kept \cup {pair} : p[1] = q[1] => p = q
    BY DEF Dictionaries
  <2>8. kept \cup {pair} \in SUBSET Pairs
    BY <2>1 DEF Dictionaries
  <2> HIDE DEF kept, fits
  <2> QED
    BY <2>4, <2>5, <2>6, <2>7, <2>8 DEF Dictionaries
<1>2. CASE ~fits
  BY <1>2 DEF AddForced
<1> QED
  BY <1>1, <1>2

\* So does block_pair.
LEMMA BlockPairStays ==
  ASSUME NEW d \in Dictionaries, NEW pair, IsPair(pair)
  PROVE  BlockPair(d, pair) \in Dictionaries
<1> DEFINE fits == /\ IsValidWord(pair[1]) /\ IsValidWord(pair[2])
                   /\ Cardinality(d.blocked) < MaxPersonalEntries
<1>1. CASE fits
  <2>1. pair \in Pairs
    <3>1. pair[1] \in Keys /\ pair[2] \in Keys
      BY <1>1, ValidWordsAreKeys DEF IsPair
    <3> QED
      BY <3>1 DEF IsPair, Pairs
  <2>2. WithinBounds(d.blocked \cup {pair})
    <3>1. IsFiniteSet(d.blocked)
      BY DEF Dictionaries, WithinBounds
    <3> QED
      BY <1>1, <3>1, OneMore
  <2>3. BlockPair(d, pair) = [d EXCEPT !.blocked = d.blocked \cup {pair}]
    BY <1>1 DEF BlockPair, Dictionaries
  <2>4. \A p \in d.blocked \cup {pair} : IsValidWord(p[1]) /\ IsValidWord(p[2])
    BY <1>1 DEF Dictionaries
  <2>5. d.blocked \cup {pair} \in SUBSET Pairs
    BY <2>1 DEF Dictionaries
  <2> HIDE DEF fits
  <2> QED
    BY <2>2, <2>3, <2>4, <2>5 DEF Dictionaries
<1>2. CASE ~fits
  BY <1>2 DEF BlockPair
<1> QED
  BY <1>1, <1>2

\* The three files, as what may be written into them.
IsFiles(parts) ==
  /\ DOMAIN parts = DOMAIN Lines
  /\ \A f \in DOMAIN Lines : parts[f] \in Seq(Lines[f])

\* The empty dictionary is one.
LEMMA NothingIsADictionary == NothingPersonal \in Dictionaries
<1>1. WithinBounds({})
  BY FS_EmptySet, EngineAssumption DEF WithinBounds
<1> QED
  BY <1>1 DEF NothingPersonal, Dictionaries

\* What is read from the files is a dictionary.
LEMMA FromPartsIsADictionary ==
  ASSUME NEW parts, IsFiles(parts)
  PROVE  FromParts(parts) \in Dictionaries
<1>1. /\ parts.words \in Seq(Seq(Letters \cup Marks))
      /\ \A f \in {"forced", "blocked"} :
           parts[f] \in Seq(Lines[f]) /\ \A pair \in Lines[f] : IsPair(pair)
  <2>1. parts.words \in Seq(Lines.words) /\ Lines.words \subseteq Seq(Letters \cup Marks)
    BY EngineAssumption DEF IsFiles
  <2> QED
    BY <2>1, EngineAssumption, SeqMonotonic DEF IsFiles, IsPair
<1> DEFINE words == FirstOf(parts.words, MaxPersonalEntries)
           forced == FirstOf(parts.forced, MaxPersonalEntries)
           blocked == FirstOf(parts.blocked, MaxPersonalEntries)
<1>2. /\ words \in Seq(Seq(Letters \cup Marks))
      /\ forced \in Seq(Lines.forced) /\ blocked \in Seq(Lines.blocked)
  BY <1>1, FirstOfSeq, EngineAssumption
<1> HIDE DEF words, forced, blocked
<1> DEFINE d1 == AddWords(NothingPersonal, words)
           d2 == AddForceds(d1, forced)
           d3 == BlockPairs(d2, blocked)
<1>3. d1 \in Dictionaries
  <2>1. /\ Len(words) \in Nat /\ DOMAIN words = 1 .. Len(words)
        /\ \A d \in Dictionaries, i \in 1 .. Len(words) : AddWord(d, words[i]) \in Dictionaries
    BY <1>2, AddWordStays
  <2>2. \E acc : IsWordRun(acc, Len(words), Dictionaries, NothingPersonal, words)
    BY <2>1, NothingIsADictionary, AddWordFold
  <2> QED
    BY <2>1, <2>2 DEF IsWordRun
<1> HIDE DEF d1
<1>4. d2 \in Dictionaries
  <2>1. /\ Len(forced) \in Nat /\ DOMAIN forced = 1 .. Len(forced)
        /\ \A d \in Dictionaries, i \in 1 .. Len(forced) : AddForced(d, forced[i]) \in Dictionaries
    BY <1>1, <1>2, AddForcedStays
  <2>2. \E acc : IsForcedRun(acc, Len(forced), Dictionaries, d1, forced)
    BY <1>3, <2>1, AddForcedFold
  <2> QED
    BY <2>1, <2>2 DEF IsForcedRun
<1> HIDE DEF d2
<1>5. d3 \in Dictionaries
  <2>1. /\ Len(blocked) \in Nat /\ DOMAIN blocked = 1 .. Len(blocked)
        /\ \A d \in Dictionaries, i \in 1 .. Len(blocked) : BlockPair(d, blocked[i]) \in Dictionaries
    BY <1>1, <1>2, BlockPairStays
  <2>2. \E acc : IsBlockedRun(acc, Len(blocked), Dictionaries, d2, blocked)
    BY <1>4, <2>1, BlockPairFold
  <2> QED
    BY <2>1, <2>2 DEF IsBlockedRun
<1> HIDE DEF d3
<1>6. FromParts(parts) = d3
  BY DEF FromParts, AddWords, AddForceds, BlockPairs, d3, d2, d1, words, forced, blocked
<1> QED
  BY <1>5, <1>6

-----------------------------------------------------------------------------
(* The edit distance of two words.                                         *)

\* One cell of a table from its three neighbours.
IsLeast(c, up, left, corner) ==
  /\ c \in {up + 1, left + 1, corner}
  /\ c <= up + 1 /\ c <= left + 1 /\ c <= corner

Cost(c, d) == IF c = d THEN 0 ELSE 1

\* What a cell adds to its row.
AddsCell(prev, a, i, b, row, j) ==
  \E m \in Nat : /\ WithCell(<<>>, prev, a, i, b, row, j) = Append(row, m)
                 /\ IsLeast(m, prev[j + 1], Last(row), prev[j] + Cost(a[i], b[j]))

\* A cell is the least that an insertion, a deletion or a substitution leads to.
LEMMA CellMeans ==
  ASSUME NEW b, Len(b) \in Nat, NEW prev \in [1 .. Len(b) + 1 -> Nat], NEW a, NEW i,
         NEW row \in Seq(Nat) \ {<<>>}, NEW j \in 1 .. Len(b)
  PROVE  AddsCell(prev, a, i, b, row, j)
<1> DEFINE corner == prev[j] + Cost(a[i], b[j])
           edits == {prev[j + 1] + 1, Last(row) + 1, corner}
           m == Min(edits)
<1>1. WithCell(<<>>, prev, a, i, b, row, j) = Append(row, m)
  <2>1. edits \cup {} = edits
    OBVIOUS
  <2>2. edits = {prev[j + 1] + 1, Last(row) + 1, prev[j] + IF a[i] = b[j] THEN 0 ELSE 1}
    BY DEF Cost
  <2> HIDE DEF edits
  <2> QED
    BY <2>1, <2>2 DEF WithCell
<1>2. prev[j + 1] \in Nat /\ prev[j] \in Nat /\ Cost(a[i], b[j]) \in Nat
  BY DEF Cost
<1>3. Last(row) \in Nat
  BY DEF Last
<1> HIDE DEF m
<1>4. edits \in SUBSET Nat /\ edits # {}
  BY <1>2, <1>3
<1>5. m \in edits /\ \A k \in edits : m <= k
  BY <1>4, MinOf DEF m
<1>6. IsLeast(m, prev[j + 1], Last(row), corner)
  BY <1>5 DEF IsLeast
<1> QED
  BY <1>1, <1>4, <1>5, <1>6 DEF AddsCell

\* A sequence that something was appended to is not empty.
LEMMA AppendIsNotEmpty ==
  ASSUME NEW S, NEW s \in Seq(S), NEW e \in S
  PROVE  Append(s, e) \in Seq(S) \ {<<>>}
<1>1. Append(s, e) \in Seq(S)
  OBVIOUS
<1>2. Append(s, e) # <<>>
  BY AppendProperties
<1> QED
  BY <1>1, <1>2

\* What a row is made of.
FollowsRow(next, prev, a, at, b) ==
  /\ next \in [1 .. Len(b) + 1 -> Nat] /\ next[1] = at
  /\ \A j \in 1 .. Len(b) :
       IsLeast(next[j + 1], prev[j + 1], next[j], prev[j] + Cost(a[at], b[j]))

\* So is every cell of a row.
LEMMA NextRowMeans ==
  ASSUME NEW S, NEW b \in Seq(S), NEW prev \in [1 .. Len(b) + 1 -> Nat], NEW a, NEW at \in Nat
  PROVE  FollowsRow(NextRow(<<>>, prev, a, at, b), prev, a, at, b)
<1> DEFINE V == Seq(Nat) \ {<<>>}
           n == Len(b)
           lines == [k \in DOMAIN b |-> k]
<1>1. n \in Nat /\ DOMAIN lines = 1 .. n /\ <<at>> \in V /\ \A j \in 1 .. n : lines[j] = j
  OBVIOUS
<1>2. NextRow(<<>>, prev, a, at, b) = Cells(prev, a, at, b, <<at>>, lines)
  BY DEF NextRow, Cells, FoldLeftDomain
<1>3. ASSUME NEW row \in V, NEW j \in 1 .. n
      PROVE  WithCell(<<>>, prev, a, at, b, row, lines[j]) \in V
  <2>1. AddsCell(prev, a, at, b, row, j)
    BY <1>1, CellMeans
  <2>2. PICK m \in Nat : WithCell(<<>>, prev, a, at, b, row, j) = Append(row, m)
    BY <2>1 DEF AddsCell
  <2>3. Append(row, m) \in V
    <3>1. row \in Seq(Nat)
      OBVIOUS
    <3> QED
      BY <3>1, <2>2, AppendIsNotEmpty, Zenon
  <2> QED
    BY <1>1, <2>2, <2>3, Zenon
<1> HIDE DEF lines, V
<1>4. \E acc : IsCellRun(acc, n, V, prev, a, at, b, <<at>>, lines)
  <2>1. \A v \in V, j \in 1 .. n : WithCell(<<>>, prev, a, at, b, v, lines[j]) \in V
    BY <1>3
  <2> HIDE DEF n
  <2> QED
    BY <1>1, <2>1, CellFold
<1>5. PICK acc \in [0 .. n -> V] :
         /\ acc[0] = <<at>> /\ acc[n] = Cells(prev, a, at, b, <<at>>, lines)
         /\ \A i \in 1 .. n : acc[i] = WithCell(<<>>, prev, a, at, b, acc[i - 1], lines[i])
  BY <1>4 DEF IsCellRun
<1> DEFINE Right(row, j) ==
             IsLeast(row[j + 1], prev[j + 1], row[j], prev[j] + Cost(a[at], b[j]))
           Fits(k) == /\ Len(acc[k]) = k + 1 /\ acc[k][1] = at
                      /\ \A j \in 1 .. k : Right(acc[k], j)
           T == {k \in 0 .. n : Fits(k)}
<1>6. 0 \in T
  BY <1>1, <1>5
<1>7. ASSUME NEW k \in 0 .. n - 1, k \in T PROVE k + 1 \in T
  <2>1. /\ k + 1 \in 1 .. n /\ (k + 1) - 1 = k /\ lines[k + 1] = k + 1
        /\ acc[k] \in V /\ Fits(k) /\ k \in Nat
    <3> HIDE DEF Fits
    <3> QED
      BY <1>1, <1>7
  <2>2. acc[k + 1] = WithCell(<<>>, prev, a, at, b, acc[k], k + 1)
    BY <1>5, <2>1
  <2>3. PICK m \in Nat :
          /\ acc[k + 1] = Append(acc[k], m)
          /\ IsLeast(m, prev[k + 2], Last(acc[k]), prev[k + 1] + Cost(a[at], b[k + 1]))
    <3>1. acc[k] \in Seq(Nat) \ {<<>>} /\ k + 1 \in 1 .. n /\ (k + 1) + 1 = k + 2
      BY <2>1 DEF V
    <3>2. AddsCell(prev, a, at, b, acc[k], k + 1)
      BY <1>1, <3>1, CellMeans
    <3> QED
      BY <2>2, <3>1, <3>2 DEF AddsCell
  <2>4. acc[k] \in Seq(Nat) /\ Len(acc[k]) = k + 1
    BY <2>1 DEF V
  <2>5. /\ Len(acc[k + 1]) = k + 2 /\ acc[k + 1][k + 2] = m
        /\ \A j \in 1 .. k + 1 : acc[k + 1][j] = acc[k][j]
    BY <2>1, <2>3, <2>4, AppendProperties
  <2>6. acc[k + 1][1] = at
    <3>1. acc[k][1] = at /\ 1 \in 1 .. k + 1
      BY <2>1
    <3> QED
      BY <2>5, <3>1, Zenon
  <2>7. ASSUME NEW j \in 1 .. k + 1 PROVE Right(acc[k + 1], j)
    <3>1. CASE j = k + 1
      <4>1. Last(acc[k]) = acc[k + 1][k + 1] /\ (k + 1) + 1 = k + 2
        BY <2>1, <2>4, <2>5 DEF Last
      <4> QED
        BY <2>3, <2>5, <3>1, <4>1
    <3>2. CASE j # k + 1
      <4>1. j \in 1 .. k /\ j + 1 \in 1 .. k + 1
        BY <2>1, <3>2
      <4>2. acc[k + 1][j + 1] = acc[k][j + 1] /\ acc[k + 1][j] = acc[k][j]
        BY <2>5, <4>1
      <4>3. Right(acc[k], j)
        BY <2>1, <4>1
      <4> QED
        BY <4>2, <4>3
    <3> QED
      BY <3>1, <3>2
  <2>8. Len(acc[k + 1]) = (k + 1) + 1
    BY <2>1, <2>5
  <2> HIDE DEF Right
  <2>9. Fits(k + 1)
    BY <2>6, <2>7, <2>8
  <2> QED
    BY <2>1, <2>9
<1> HIDE DEF T
<1>8. 0 .. n \subseteq T
  <2> HIDE DEF n
  <2> QED
    BY <1>1, <1>6, <1>7, BoundedInduction
<1>9. Fits(n) /\ acc[n] \in Seq(Nat)
  BY <1>1, <1>8 DEF T, V
<1>10. acc[n] \in [1 .. n + 1 -> Nat]
  BY <1>9
<1> QED
  BY <1>2, <1>5, <1>9, <1>10 DEF FollowsRow

\* The table of two words: row by row, column 0 being the empty word.
IsTable(t, a, b) ==
  /\ t \in [0 .. Len(a) -> [0 .. Len(b) -> Nat]]
  /\ \A i \in 0 .. Len(a) : t[i][0] = i
  /\ \A j \in 0 .. Len(b) : t[0][j] = j
  /\ \A i \in 1 .. Len(a), j \in 1 .. Len(b) :
       IsLeast(t[i][j], t[i - 1][j], t[i][j - 1], t[i - 1][j - 1] + Cost(a[i], b[j]))

\* All rows, the bound left aside.
AreRows(rows, a, b) ==
  /\ rows \in [0 .. Len(a) -> [1 .. Len(b) + 1 -> Nat]] /\ rows[0] = FirstRow(b)
  /\ \A i \in 1 .. Len(a) : /\ rows[i] = NextRow(<<>>, rows[i - 1], a, i, b)
                            /\ FollowsRow(rows[i], rows[i - 1], a, i, b)

\* They exist.
LEMMA RowsExist ==
  ASSUME NEW S, NEW a \in Seq(S), NEW b \in Seq(S)
  PROVE  \E rows : AreRows(rows, a, b)
<1> DEFINE V == [1 .. Len(b) + 1 -> Nat]
           n == Len(a)
           step == [p \in V \X (1 .. n) |-> NextRow(<<>>, p[1], a, p[2], b)]
<1>1. n \in Nat /\ Len(b) \in Nat /\ FirstRow(b) \in V
  BY DEF FirstRow
<1>2. ASSUME NEW v \in V, NEW i \in 1 .. n
      PROVE  FollowsRow(NextRow(<<>>, v, a, i, b), v, a, i, b)
  BY <1>1, NextRowMeans
<1>3. \A v \in V, i \in 1 .. n : NextRow(<<>>, v, a, i, b) \in V
  BY <1>2 DEF FollowsRow
<1>4. step \in [V \X (1 .. n) -> V] /\ \A v \in V, i \in 1 .. n : step[<<v, i>>] = NextRow(<<>>, v, a, i, b)
  BY <1>3
<1> HIDE DEF step, V
<1>5. \E acc : IsRun(acc, n, V, FirstRow(b), step)
  <2> HIDE DEF n
  <2> QED
    BY <1>1, <1>4, RunExists
<1>6. PICK acc \in [0 .. n -> V] : acc[0] = FirstRow(b) /\ \A i \in 1 .. n : acc[i] = step[<<acc[i - 1], i>>]
  BY <1>5 DEF IsRun
<1>7. ASSUME NEW i \in 1 .. n
      PROVE  acc[i] = NextRow(<<>>, acc[i - 1], a, i, b) /\ FollowsRow(acc[i], acc[i - 1], a, i, b)
  <2>1. i - 1 \in 0 .. n
    BY <1>1
  <2>2. acc[i - 1] \in V
    BY <1>6, <2>1
  <2>3. acc[i] = NextRow(<<>>, acc[i - 1], a, i, b)
    BY <1>4, <1>6, <2>2
  <2> QED
    BY <1>2, <2>2, <2>3
<1>8. AreRows(acc, a, b)
  BY <1>6, <1>7 DEF AreRows, V
<1> QED
  BY <1>8

\* If a row is above a bound then so is the next one.
LEMMA NextRowAbove ==
  ASSUME NEW b, Len(b) \in Nat, NEW prev \in [1 .. Len(b) + 1 -> Nat], NEW next, NEW a, NEW at \in Nat,
         FollowsRow(next, prev, a, at, b), prev[1] < at, NEW max \in Nat,
         \A j \in 1 .. Len(b) + 1 : prev[j] > max
  PROVE  \A j \in 1 .. Len(b) + 1 : next[j] > max
<1> DEFINE m == Len(b)
           T == {k \in 0 .. m : next[k + 1] > max}
<1>1. next \in [1 .. m + 1 -> Nat] /\ next[1] = at
  BY DEF FollowsRow
<1>2. 0 \in T
  BY <1>1
<1>3. ASSUME NEW k \in 0 .. m - 1, k \in T PROVE k + 1 \in T
  <2>1. k + 1 \in 1 .. m /\ next[k + 1] > max /\ (k + 1) + 1 \in 1 .. m + 1 /\ k + 1 \in 1 .. m + 1
    BY <1>3
  <2>2. IsLeast(next[(k + 1) + 1], prev[(k + 1) + 1], next[k + 1], prev[k + 1] + Cost(a[at], b[k + 1]))
    BY <2>1 DEF FollowsRow
  <2>3. prev[(k + 1) + 1] > max /\ prev[k + 1] > max /\ prev[k + 1] \in Nat /\ prev[(k + 1) + 1] \in Nat
        /\ next[k + 1] \in Nat
    BY <1>1, <2>1
  <2>4. Cost(a[at], b[k + 1]) \in {0, 1}
    BY DEF Cost
  <2>5. \A c, up, left, corner \in Nat, cost \in {0, 1} :
          (/\ IsLeast(c, up, left, corner + cost)
           /\ up > max /\ left > max /\ corner > max) => c > max
    BY DEF IsLeast
  <2>6. next[(k + 1) + 1] \in Nat
    BY <1>1, <2>1
  <2>7. next[(k + 1) + 1] > max
    BY <2>1, <2>2, <2>3, <2>4, <2>5, <2>6, Zenon
  <2> QED
    BY <2>1, <2>7
<1> HIDE DEF T
<1>4. 0 .. m \subseteq T
  <2>1. m \in Nat
    OBVIOUS
  <2> HIDE DEF m
  <2> QED
    BY <1>2, <1>3, <2>1, BoundedInduction
<1>5. \A j \in 1 .. m + 1 : j - 1 \in 0 .. m /\ (j - 1) + 1 = j
  OBVIOUS
<1> QED
  BY <1>4, <1>5 DEF T

\* The rows within the bound are those of the table; there is none only if a row of the
\* table is above the bound.
LEMMA BoundedRowsMean ==
  ASSUME NEW S, NEW a \in Seq(S), NEW b \in Seq(S), NEW max \in Nat, NEW rows, AreRows(rows, a, b)
  PROVE  LET end == Rows(a, b, max, FirstRow(b), [k \in DOMAIN a |-> k])
         IN  \/ end = rows[Len(a)]
             \/ /\ end = <<>>
                /\ \A j \in 1 .. Len(b) + 1 : rows[Len(a)][j] > max
<1> DEFINE n == Len(a)
           W == [1 .. Len(b) + 1 -> Nat]
           V == {<<>>} \cup W
           lines == [k \in DOMAIN a |-> k]
           end == Rows(a, b, max, FirstRow(b), lines)
<1>1. /\ n \in Nat /\ Len(b) \in Nat /\ DOMAIN a = 1 .. n
      /\ DOMAIN lines = 1 .. n /\ \A i \in 1 .. n : lines[i] = i
  OBVIOUS
<1>2. FirstRow(b) \in V
  BY <1>1 DEF FirstRow
<1>3. ASSUME NEW row \in W, NEW i \in 1 .. n
      PROVE  NextRow(<<>>, row, a, i, b) \in W
  BY <1>1, NextRowMeans DEF FollowsRow
<1>4. ASSUME NEW row \in V, NEW i \in 1 .. n PROVE BoundedRow(a, b, max, row, lines[i]) \in V
  <2>1. CASE row = <<>>
    BY <1>1, <2>1 DEF BoundedRow
  <2>2. CASE row # <<>>
    BY <1>1, <1>3, <2>2 DEF BoundedRow
  <2> QED
    BY <2>1, <2>2
<1> HIDE DEF lines, V, end
<1>5. \E acc : IsRowRun(acc, n, V, a, b, max, FirstRow(b), lines)
  <2>1. \A row \in V, i \in 1 .. n : BoundedRow(a, b, max, row, lines[i]) \in V
    BY <1>4
  <2> HIDE DEF n
  <2> QED
    BY <1>1, <1>2, <2>1, RowFold
<1>6. PICK acc \in [0 .. n -> V] :
         /\ acc[0] = FirstRow(b) /\ acc[n] = Rows(a, b, max, FirstRow(b), lines)
         /\ \A i \in 1 .. n : acc[i] = BoundedRow(a, b, max, acc[i - 1], lines[i])
  BY <1>5 DEF IsRowRun
<1> DEFINE Above(row) == \A j \in 1 .. Len(b) + 1 : row[j] > max
           T == {k \in 0 .. n : acc[k] = rows[k] \/ (acc[k] = <<>> /\ Above(rows[k]))}
<1>7. 0 \in T
  <2>1. 0 \in 0 .. n /\ acc[0] = rows[0]
    BY <1>1, <1>6 DEF AreRows
  <2> HIDE DEF Above
  <2> QED
    BY <2>1
<1>8. ASSUME NEW k \in 0 .. n - 1, k \in T PROVE k + 1 \in T
  <2>1. /\ k + 1 \in 1 .. n /\ k + 1 \in 0 .. n /\ (k + 1) - 1 = k /\ lines[k + 1] = k + 1 /\ k \in Nat
        /\ k \in 0 .. n /\ k + 1 \in Nat
    BY <1>1, <1>8
  <2>2. acc[k + 1] = BoundedRow(a, b, max, acc[k], k + 1)
    BY <1>6, <2>1
  <2>3. rows[k] \in W /\ FollowsRow(rows[k + 1], rows[k], a, k + 1, b)
    BY <2>1 DEF AreRows
  <2>5. rows[k + 1] = NextRow(<<>>, rows[k], a, k + 1, b)
    BY <2>1 DEF AreRows
  <2>6. CASE acc[k] = rows[k]
    <3>1. acc[k] # <<>>
      BY <1>1, <2>3, <2>6
    <3>2. acc[k + 1] = IF Min(ToSet(rows[k + 1])) > max THEN <<>> ELSE rows[k + 1]
      BY <2>2, <2>5, <2>6, <3>1 DEF BoundedRow
    <3>3. Min(ToSet(rows[k + 1])) > max => Above(rows[k + 1])
      <4>1. rows[k + 1] \in W
        BY <2>3 DEF FollowsRow
      <4>2. ToSet(rows[k + 1]) \in SUBSET Nat /\ \A j \in 1 .. Len(b) + 1 : rows[k + 1][j] \in ToSet(rows[k + 1])
        BY <4>1 DEF ToSet
      <4>3. \A i \in ToSet(rows[k + 1]) : Min(ToSet(rows[k + 1])) <= i
        <5>1. ToSet(rows[k + 1]) # {}
          BY <1>1, <4>2
        <5> QED
          BY <4>2, <5>1, MinOf
      <4>4. Min(ToSet(rows[k + 1])) \in Nat
        <5>1. ToSet(rows[k + 1]) # {}
          BY <1>1, <4>2
        <5> QED
          BY <4>2, <5>1, MinOf
      <4> QED
        BY <4>1, <4>2, <4>3, <4>4
    <3> HIDE DEF Above
    <3>4. acc[k + 1] = rows[k + 1] \/ (acc[k + 1] = <<>> /\ Above(rows[k + 1]))
      BY <3>2, <3>3
    <3> QED
      BY <2>1, <3>4
  <2>7. CASE acc[k] = <<>> /\ Above(rows[k])
    <3>1. acc[k + 1] = <<>>
      BY <2>2, <2>7 DEF BoundedRow
    <3>2. rows[k][1] = k
      <4>1. CASE k = 0
        BY <1>1, <4>1 DEF AreRows, FirstRow
      <4>2. CASE k # 0
        <5>1. k \in 1 .. n
          BY <2>1, <4>2
        <5> QED
          BY <5>1 DEF AreRows, FollowsRow
      <4> QED
        BY <4>1, <4>2
    <3>3. rows[k][1] < k + 1
      BY <2>1, <3>2
    <3>4. Above(rows[k + 1])
      <4>1. \A j \in 1 .. Len(b) + 1 : rows[k][j] > max
        BY <2>7
      <4> QED
        <5>1. rows[k] \in [1 .. Len(b) + 1 -> Nat] /\ Len(b) \in Nat
          BY <1>1, <2>3
        <5>2. k + 1 \in Nat
          BY <2>1
        <5>3. FollowsRow(rows[k + 1], rows[k], a, k + 1, b)
          BY <2>3
        <5>4. \A j \in 1 .. Len(b) + 1 : rows[k + 1][j] > max
          BY <3>3, <4>1, <5>1, <5>2, <5>3, NextRowAbove
        <5> QED
          BY <5>4
    <3> HIDE DEF Above
    <3> QED
      BY <2>1, <3>1, <3>4
  <2> HIDE DEF Above
  <2> QED
    BY <1>8, <2>6, <2>7
<1> HIDE DEF T
<1>9. 0 .. n \subseteq T
  <2> HIDE DEF n
  <2> QED
    BY <1>1, <1>7, <1>8, BoundedInduction
<1>10. n \in 0 .. n
  BY <1>1
<1>11. acc[n] = rows[n] \/ (acc[n] = <<>> /\ Above(rows[n]))
  BY <1>9, <1>10 DEF T
<1> QED
  BY <1>6, <1>11 DEF end, lines

\* The rows, their columns counted from zero, are a table.
LEMMA TableOfRows ==
  ASSUME NEW S, NEW a \in Seq(S), NEW b \in Seq(S), NEW rows, AreRows(rows, a, b)
  PROVE  IsTable([i \in 0 .. Len(a) |-> [j \in 0 .. Len(b) |-> rows[i][j + 1]]], a, b)
<1> DEFINE n == Len(a)
           m == Len(b)
           t == [i \in 0 .. n |-> [j \in 0 .. m |-> rows[i][j + 1]]]
<1>1. n \in Nat /\ m \in Nat
  OBVIOUS
<1>2. /\ rows \in [0 .. n -> [1 .. m + 1 -> Nat]]
      /\ \A j \in 0 .. m : rows[0][j + 1] = j
      /\ \A i \in 1 .. n : FollowsRow(rows[i], rows[i - 1], a, i, b)
  BY <1>1 DEF AreRows, FirstRow
<1>3. \A i \in 0 .. n : rows[i] \in [1 .. m + 1 -> Nat]
  BY <1>2
<1>4. \A j \in 0 .. m : j + 1 \in 1 .. m + 1
  BY <1>1
<1> HIDE DEF n, m
<1>5. \A i \in 0 .. n, j \in 0 .. m : t[i][j] = rows[i][j + 1] /\ rows[i][j + 1] \in Nat
  BY <1>3, <1>4
<1>6. t \in [0 .. n -> [0 .. m -> Nat]]
  BY <1>5
<1> HIDE DEF t
<1>7. ASSUME NEW i \in 0 .. n PROVE t[i][0] = i
  <2>1. 0 \in 0 .. m /\ 0 + 1 = 1
    BY <1>1
  <2>2. t[i][0] = rows[i][1]
    BY <1>5, <2>1
  <2>3. CASE i = 0
    BY <1>2, <2>1, <2>2, <2>3
  <2>4. CASE i # 0
    <3>1. i \in 1 .. n
      BY <1>1, <2>4
    <3> QED
      BY <1>2, <2>2, <3>1 DEF FollowsRow
  <2> QED
    BY <2>3, <2>4
<1>8. ASSUME NEW j \in 0 .. m PROVE t[0][j] = j
  <2>1. 0 \in 0 .. n
    BY <1>1
  <2>2. t[0][j] = rows[0][j + 1]
    BY <1>5, <2>1
  <2> QED
    BY <1>2, <2>2
<1>9. ASSUME NEW i \in 1 .. n, NEW j \in 1 .. m
      PROVE  IsLeast(t[i][j], t[i - 1][j], t[i][j - 1], t[i - 1][j - 1] + Cost(a[i], b[j]))
  <2>1. i \in 0 .. n /\ i - 1 \in 0 .. n /\ j \in 0 .. m /\ j - 1 \in 0 .. m /\ (j - 1) + 1 = j
    BY <1>1
  <2>2. /\ t[i][j] = rows[i][j + 1] /\ t[i - 1][j] = rows[i - 1][j + 1]
        /\ t[i][j - 1] = rows[i][j] /\ t[i - 1][j - 1] = rows[i - 1][j]
    BY <1>5, <2>1
  <2>3. IsLeast(rows[i][j + 1], rows[i - 1][j + 1], rows[i][j], rows[i - 1][j] + Cost(a[i], b[j]))
    BY <1>2 DEF FollowsRow, m
  <2> QED
    BY <2>2, <2>3
<1>10. IsTable(t, a, b)
  BY <1>6, <1>7, <1>8, <1>9 DEF IsTable, n, m
<1> QED
  BY <1>10 DEF t, n, m

\* What bounded_levenshtein makes of the last cell.
Bounded(d, cell, n, m, max) ==
  d = IF n - m > max \/ m - n > max \/ cell > max THEN max + 1 ELSE cell

\* The bounded distance is the last cell of the table, as long as it is within the bound.
LEMMA LevenshteinTable ==
  ASSUME NEW S, NEW a \in Seq(S), NEW b \in Seq(S), NEW max \in Nat
  PROVE  \E t : /\ IsTable(t, a, b)
                /\ Bounded(BoundedLevenshtein(a, b, max), t[Len(a)][Len(b)], Len(a), Len(b), max)
<1> DEFINE n == Len(a)
           m == Len(b)
           end == Rows(a, b, max, FirstRow(b), [k \in DOMAIN a |-> k])
           d == BoundedLevenshtein(a, b, max)
<1>1. n \in Nat /\ m \in Nat /\ n \in 0 .. n /\ m \in 0 .. m
  OBVIOUS
<1>2. PICK rows : AreRows(rows, a, b)
  BY RowsExist
<1> DEFINE t == [i \in 0 .. n |-> [j \in 0 .. m |-> rows[i][j + 1]]]
<1>3. IsTable(t, a, b)
  BY <1>2, TableOfRows
<1>4. t[n][m] = rows[n][m + 1]
  BY <1>1
<1>5. \/ end = rows[n]
      \/ /\ end = <<>>
         /\ \A j \in 1 .. m + 1 : rows[n][j] > max
  BY <1>2, BoundedRowsMean
<1>6. d = IF n - m > max \/ m - n > max \/ end = <<>> THEN max + 1 ELSE Min({Last(end), max + 1})
  BY DEF BoundedLevenshtein, Rows, FoldLeftDomain
<1>7. rows[n] \in [1 .. m + 1 -> Nat]
  BY <1>1, <1>2 DEF AreRows
<1> HIDE DEF t, end, d, n, m
<1>8. rows[n] # <<>> /\ rows[n][m + 1] \in Nat /\ Last(rows[n]) = rows[n][m + 1]
  BY <1>1, <1>7 DEF Last
<1>9. Min({rows[n][m + 1], max + 1}) =
        IF rows[n][m + 1] <= max + 1 THEN rows[n][m + 1] ELSE max + 1
  BY <1>8, MinOfTwo
<1>10. CASE end = rows[n]
  <2>1. d = IF n - m > max \/ m - n > max THEN max + 1
            ELSE IF rows[n][m + 1] <= max + 1 THEN rows[n][m + 1] ELSE max + 1
    BY <1>6, <1>8, <1>9, <1>10
  <2>2. Bounded(d, t[n][m], n, m, max)
    BY <1>1, <1>4, <1>8, <2>1 DEF Bounded
  <2> QED
    BY <1>3, <2>2 DEF n, m, d
<1>11. CASE end = <<>> /\ \A j \in 1 .. m + 1 : rows[n][j] > max
  <2>1. rows[n][m + 1] > max /\ d = max + 1
    BY <1>1, <1>6, <1>11
  <2>2. Bounded(d, t[n][m], n, m, max)
    BY <1>4, <2>1 DEF Bounded
  <2> QED
    BY <1>3, <2>2 DEF n, m, d
<1> QED
  BY <1>5, <1>10, <1>11

\* What the words alike up to a cell are.
Alike(a, b, i, j) == i = j /\ \A k \in 1 .. i : a[k] = b[k]

\* One edit makes the first i of a the first j of b: the i-th or j-th or both left out at p.
Removed(a, b, i, j) ==
  i = j + 1 /\ \E p \in 1 .. i : /\ \A k \in 1 .. p - 1 : a[k] = b[k]
                                 /\ \A k \in p .. j : a[k + 1] = b[k]
Inserted(a, b, i, j) == Removed(b, a, j, i)
Replaced(a, b, i, j) ==
  i = j /\ \E p \in 1 .. i : \A k \in 1 .. i : k # p => a[k] = b[k]

\* A cell and its neighbours.
LEMMA CellFacts ==
  ASSUME NEW S, NEW a \in Seq(S), NEW b \in Seq(S), NEW t, IsTable(t, a, b),
         NEW i \in 1 .. Len(a), NEW j \in 1 .. Len(b)
  PROVE  /\ i - 1 \in 0 .. Len(a) /\ i \in 0 .. Len(a)
         /\ j - 1 \in 0 .. Len(b) /\ j \in 0 .. Len(b)
         /\ t[i][j] \in Nat /\ t[i - 1][j] \in Nat
         /\ t[i][j - 1] \in Nat /\ t[i - 1][j - 1] \in Nat
         /\ IsLeast(t[i][j], t[i - 1][j], t[i][j - 1], t[i - 1][j - 1] + Cost(a[i], b[j]))
<1>1. Len(a) \in Nat /\ Len(b) \in Nat
  OBVIOUS
<1>2. /\ i - 1 \in 0 .. Len(a) /\ i \in 0 .. Len(a)
      /\ j - 1 \in 0 .. Len(b) /\ j \in 0 .. Len(b)
  BY <1>1
<1>3. t \in [0 .. Len(a) -> [0 .. Len(b) -> Nat]]
  BY DEF IsTable
<1>4. \A r \in 0 .. Len(a), c \in 0 .. Len(b) : t[r][c] \in Nat
  BY <1>3
<1> QED
  BY <1>2, <1>4 DEF IsTable

\* A cell is zero only for words that are alike.
LEMMA ZeroMeans ==
  ASSUME NEW S, NEW a \in Seq(S), NEW b \in Seq(S), NEW t, IsTable(t, a, b)
  PROVE  \A i \in 0 .. Len(a), j \in 0 .. Len(b) : t[i][j] = 0 => Alike(a, b, i, j)
<1> DEFINE n == Len(a)
           m == Len(b)
           Right(i) == \A j \in 0 .. m : t[i][j] = 0 => Alike(a, b, i, j)
           T == {i \in 0 .. n : Right(i)}
<1>1. n \in Nat /\ m \in Nat
  OBVIOUS
<1>2. 0 \in T
  <2>1. Right(0)
    BY <1>1 DEF IsTable, Alike
  <2> HIDE DEF Right
  <2> QED
    BY <1>1, <2>1
<1>3. ASSUME NEW k \in 0 .. n - 1, k \in T PROVE k + 1 \in T
  <2>1. k \in Nat /\ k + 1 \in 1 .. n /\ k + 1 \in 0 .. n /\ (k + 1) - 1 = k
    BY <1>1
  <2>2. ASSUME NEW j \in 0 .. m, t[k + 1][j] = 0 PROVE Alike(a, b, k + 1, j)
    <3>1. j # 0
      BY <2>1, <2>2 DEF IsTable
    <3>2. j \in 1 .. m
      BY <1>1, <3>1
    <3>3. /\ j - 1 \in 0 .. m /\ t[k][j] \in Nat /\ t[k + 1][j - 1] \in Nat /\ t[k][j - 1] \in Nat
          /\ IsLeast(t[k + 1][j], t[k][j], t[k + 1][j - 1], t[k][j - 1] + Cost(a[k + 1], b[j]))
      BY <2>1, <3>2, CellFacts
    <3>4. t[k][j - 1] = 0 /\ a[k + 1] = b[j]
      <4>1. Cost(a[k + 1], b[j]) \in Nat /\ (Cost(a[k + 1], b[j]) = 0 => a[k + 1] = b[j])
        BY DEF Cost
      <4>2. t[k][j - 1] + Cost(a[k + 1], b[j]) = 0
        BY <2>2, <3>3 DEF IsLeast
      <4> QED
        BY <3>3, <4>1, <4>2
    <3>5. Right(k)
      BY <1>3
    <3>6. Alike(a, b, k, j - 1)
      BY <3>3, <3>4, <3>5
    <3> QED
      BY <1>1, <2>1, <3>2, <3>4, <3>6 DEF Alike
  <2>3. Right(k + 1)
    BY <2>2
  <2> HIDE DEF Right
  <2> QED
    BY <2>1, <2>3
<1> HIDE DEF T
<1>4. 0 .. n \subseteq T
  <2> HIDE DEF n
  <2> QED
    BY <1>1, <1>2, <1>3, BoundedInduction
<1> QED
  BY <1>4 DEF T

OneAway(a, b, i, j) ==
  Alike(a, b, i, j) \/ Removed(a, b, i, j) \/ Inserted(a, b, i, j) \/ Replaced(a, b, i, j)

\* A pair of symbols that are the same keeps what the words before them are.
LEMMA OneAwayExtends ==
  ASSUME NEW a, NEW b, NEW i \in Nat, NEW j \in Nat, OneAway(a, b, i, j), a[i + 1] = b[j + 1]
  PROVE  OneAway(a, b, i + 1, j + 1)
<1>1. CASE Alike(a, b, i, j)
  <2>1. Alike(a, b, i + 1, j + 1)
    BY <1>1 DEF Alike
  <2> QED
    BY <2>1 DEF OneAway
<1>2. ASSUME NEW c, NEW d, NEW k \in Nat, NEW l \in Nat, Removed(c, d, k, l), c[k + 1] = d[l + 1]
      PROVE  Removed(c, d, k + 1, l + 1)
  <2>1. PICK p \in 1 .. k : /\ \A q \in 1 .. p - 1 : c[q] = d[q]
                            /\ \A q \in p .. l : c[q + 1] = d[q]
    BY <1>2 DEF Removed
  <2>2. k = l + 1
    BY <1>2 DEF Removed
  <2>3. \A q \in p .. l + 1 : c[q + 1] = d[q]
    BY <1>2, <2>1, <2>2
  <2>4. p \in 1 .. k + 1 /\ k + 1 = (l + 1) + 1
    BY <2>2
  <2> QED
    BY <2>1, <2>3, <2>4 DEF Removed
<1>3. CASE Removed(a, b, i, j)
  BY <1>2, <1>3 DEF OneAway
<1>4. CASE Inserted(a, b, i, j)
  BY <1>2, <1>4 DEF OneAway, Inserted
<1>5. CASE Replaced(a, b, i, j)
  <2>1. i = j
    BY <1>5 DEF Replaced
  <2>2. PICK p \in 1 .. i : \A k \in 1 .. i : k # p => a[k] = b[k]
    BY <1>5 DEF Replaced
  <2>3. \A k \in 1 .. i + 1 : k # p => a[k] = b[k]
    BY <2>1, <2>2
  <2>4. Replaced(a, b, i + 1, j + 1)
    BY <2>1, <2>3 DEF Replaced
  <2> QED
    BY <2>4 DEF OneAway
<1> QED
  BY <1>1, <1>3, <1>4, <1>5 DEF OneAway

\* An edit at the end of words that are alike.
LEMMA OneAwayAtTheEnd ==
  ASSUME NEW a, NEW b, NEW i \in Nat, NEW j \in Nat
  PROVE  /\ Alike(a, b, i, j) => OneAway(a, b, i + 1, j)
         /\ Alike(a, b, i, j) => OneAway(a, b, i, j + 1)
         /\ Alike(a, b, i, j) => OneAway(a, b, i + 1, j + 1)
<1>1. ASSUME NEW c, NEW d, NEW k \in Nat, NEW l \in Nat, Alike(c, d, k, l)
      PROVE  Removed(c, d, k + 1, l)
  <2>1. k = l /\ \A q \in 1 .. k : c[q] = d[q]
    BY <1>1 DEF Alike
  <2>2. /\ k + 1 \in 1 .. k + 1 /\ (k + 1) - 1 = k
        /\ \A q \in k + 1 .. l : c[q + 1] = d[q]
    BY <2>1
  <2> QED
    BY <2>1, <2>2 DEF Removed
<1>2. Alike(a, b, i, j) => OneAway(a, b, i + 1, j)
  BY <1>1 DEF OneAway
<1>3. Alike(a, b, i, j) => OneAway(a, b, i, j + 1)
  <2>1. Alike(a, b, i, j) => Alike(b, a, j, i)
    BY DEF Alike
  <2> QED
    BY <1>1, <2>1 DEF OneAway, Inserted
<1>4. ASSUME Alike(a, b, i, j) PROVE OneAway(a, b, i + 1, j + 1)
  <2>1. i = j /\ \A k \in 1 .. i : a[k] = b[k]
    BY <1>4 DEF Alike
  <2>2. i + 1 \in 1 .. i + 1 /\ \A k \in 1 .. i + 1 : k # i + 1 => a[k] = b[k]
    BY <2>1
  <2> QED
    BY <2>1, <2>2 DEF Replaced, OneAway
<1> QED
  BY <1>2, <1>3, <1>4

\* A cell is at most one only for words that one edit makes the same.
LEMMA OneMeans ==
  ASSUME NEW S, NEW a \in Seq(S), NEW b \in Seq(S), NEW t, IsTable(t, a, b)
  PROVE  \A i \in 0 .. Len(a), j \in 0 .. Len(b) : t[i][j] <= 1 => OneAway(a, b, i, j)
<1> DEFINE n == Len(a)
           m == Len(b)
           Right(i) == \A j \in 0 .. m : t[i][j] <= 1 => OneAway(a, b, i, j)
           T == {i \in 0 .. n : Right(i)}
<1>1. n \in Nat /\ m \in Nat
  OBVIOUS
<1>2. \A i \in 0 .. n, j \in 0 .. m : t[i][j] = 0 => Alike(a, b, i, j)
  BY ZeroMeans
<1>3. 0 \in T
  <2>1. ASSUME NEW j \in 0 .. m, t[0][j] <= 1 PROVE OneAway(a, b, 0, j)
    <3>1. t[0][j] = j
      BY <2>1 DEF IsTable
    <3>2. Alike(a, b, 0, 0)
      BY DEF Alike
    <3>3. j = 0 \/ j = 0 + 1
      BY <1>1, <2>1, <3>1
    <3>4. OneAway(a, b, 0, 0 + 1)
      BY <3>2, OneAwayAtTheEnd
    <3> QED
      BY <3>2, <3>3, <3>4 DEF OneAway
  <2>2. Right(0)
    BY <2>1
  <2> HIDE DEF Right
  <2> QED
    BY <1>1, <2>2
<1>4. ASSUME NEW k \in 0 .. n - 1, k \in T PROVE k + 1 \in T
  <2>1. k \in Nat /\ k \in 0 .. n /\ k + 1 \in 1 .. n /\ k + 1 \in 0 .. n /\ (k + 1) - 1 = k /\ Right(k)
    BY <1>1, <1>4
  <2>2. ASSUME NEW j \in 0 .. m, t[k + 1][j] <= 1 PROVE OneAway(a, b, k + 1, j)
    <3>1. CASE j = 0
      <4>1. t[k + 1][0] = k + 1 /\ t[k][0] = k
        BY <2>1 DEF IsTable
      <4>2. k = 0
        BY <2>1, <2>2, <3>1, <4>1
      <4>3. Alike(a, b, k, 0)
        BY <4>2 DEF Alike
      <4> QED
        BY <2>1, <3>1, <4>3, OneAwayAtTheEnd
    <3>2. CASE j # 0
      <4>1. j \in 1 .. m
        BY <1>1, <3>2
      <4>2. /\ j - 1 \in 0 .. m /\ t[k][j] \in Nat /\ t[k + 1][j - 1] \in Nat /\ t[k][j - 1] \in Nat
            /\ t[k + 1][j] \in Nat
            /\ IsLeast(t[k + 1][j], t[k][j], t[k + 1][j - 1], t[k][j - 1] + Cost(a[k + 1], b[j]))
        BY <2>1, <4>1, CellFacts
      <4>3. /\ Cost(a[k + 1], b[j]) \in {0, 1} /\ (Cost(a[k + 1], b[j]) = 0 => a[k + 1] = b[j])
            /\ j - 1 \in Nat /\ (j - 1) + 1 = j /\ j \in Nat
        BY <1>1, <4>1 DEF Cost
      <4>4. CASE t[k + 1][j] = t[k][j] + 1
        <5>1. t[k][j] = 0
          BY <2>2, <4>2, <4>4
        <5>2. Alike(a, b, k, j)
          BY <1>2, <2>1, <5>1
        <5> QED
          BY <2>1, <4>3, <5>2, OneAwayAtTheEnd
      <4>5. CASE t[k + 1][j] = t[k + 1][j - 1] + 1
        <5>1. t[k + 1][j - 1] = 0
          BY <2>2, <4>2, <4>5
        <5>2. Alike(a, b, k + 1, j - 1)
          BY <1>2, <2>1, <4>2, <5>1
        <5>3. OneAway(a, b, k + 1, (j - 1) + 1)
          BY <2>1, <4>3, <5>2, OneAwayAtTheEnd
        <5> QED
          BY <4>3, <5>3
      <4>6. CASE t[k + 1][j] = t[k][j - 1] + Cost(a[k + 1], b[j]) /\ a[k + 1] = b[j]
        <5>1. t[k][j - 1] <= 1
          BY <2>2, <4>2, <4>3, <4>6
        <5>2. OneAway(a, b, k, j - 1)
          BY <2>1, <4>2, <5>1
        <5>3. OneAway(a, b, k + 1, (j - 1) + 1)
          BY <2>1, <4>3, <4>6, <5>2, OneAwayExtends
        <5> QED
          BY <4>3, <5>3
      <4>7. CASE t[k + 1][j] = t[k][j - 1] + Cost(a[k + 1], b[j]) /\ a[k + 1] # b[j]
        <5>1. t[k][j - 1] = 0
          <6>1. Cost(a[k + 1], b[j]) = 1
            BY <4>3, <4>7
          <6> QED
            BY <2>2, <4>2, <4>7, <6>1
        <5>2. Alike(a, b, k, j - 1)
          BY <1>2, <2>1, <4>2, <5>1
        <5>3. OneAway(a, b, k + 1, (j - 1) + 1)
          BY <2>1, <4>3, <5>2, OneAwayAtTheEnd
        <5> QED
          BY <4>3, <5>3
      <4> QED
        BY <4>2, <4>4, <4>5, <4>6, <4>7 DEF IsLeast
    <3> QED
      BY <3>1, <3>2
  <2>3. Right(k + 1)
    BY <2>2
  <2> HIDE DEF Right
  <2> QED
    BY <2>1, <2>3
<1> HIDE DEF T
<1>5. 0 .. n \subseteq T
  <2> HIDE DEF n
  <2> QED
    BY <1>1, <1>3, <1>4, BoundedInduction
<1> QED
  BY <1>5 DEF T

\* Between a word and itself no edit is needed.
LEMMA DiagonalIsZero ==
  ASSUME NEW S, NEW a \in Seq(S), NEW t, IsTable(t, a, a)
  PROVE  t[Len(a)][Len(a)] = 0
<1> DEFINE n == Len(a)
           T == {i \in 0 .. n : t[i][i] = 0}
<1>1. n \in Nat
  OBVIOUS
<1>2. 0 \in T
  BY <1>1 DEF IsTable
<1>3. ASSUME NEW k \in 0 .. n - 1, k \in T PROVE k + 1 \in T
  <2>1. k \in Nat /\ k + 1 \in 1 .. n /\ k + 1 \in 0 .. n /\ (k + 1) - 1 = k /\ t[k][k] = 0
    BY <1>1, <1>3
  <2>2. t[k + 1][k + 1] \in Nat /\ t[k + 1][k + 1] <= t[k][k] + Cost(a[k + 1], a[k + 1])
    BY <2>1, CellFacts DEF IsLeast
  <2>3. Cost(a[k + 1], a[k + 1]) = 0
    BY DEF Cost
  <2> QED
    BY <2>1, <2>2, <2>3
<1> HIDE DEF T
<1>4. 0 .. n \subseteq T
  <2> HIDE DEF n
  <2> QED
    BY <1>1, <1>2, <1>3, BoundedInduction
<1> QED
  BY <1>1, <1>4 DEF T

\* Neighbours in a row differ by one at most.
LEMMA LeftIsNear ==
  ASSUME NEW S, NEW a \in Seq(S), NEW b \in Seq(S), NEW t, IsTable(t, a, b), NEW j \in 1 .. Len(b)
  PROVE  \A i \in 0 .. Len(a) : t[i][j - 1] <= t[i][j] + 1
<1> DEFINE n == Len(a)
           T == {i \in 0 .. n : t[i][j - 1] <= t[i][j] + 1}
<1>1. n \in Nat /\ Len(b) \in Nat /\ j \in 0 .. Len(b) /\ j - 1 \in 0 .. Len(b) /\ j \in Nat
  OBVIOUS
<1>2. 0 \in T
  <2>1. t[0][j - 1] = j - 1 /\ t[0][j] = j
    BY <1>1 DEF IsTable
  <2> QED
    BY <1>1, <2>1
<1>3. ASSUME NEW k \in 0 .. n - 1, k \in T PROVE k + 1 \in T
  <2>1. k \in Nat /\ k + 1 \in 1 .. n /\ k + 1 \in 0 .. n /\ (k + 1) - 1 = k /\ k \in 0 .. n
        /\ t[k][j - 1] <= t[k][j] + 1
    BY <1>1, <1>3
  <2>2. /\ t[k][j] \in Nat /\ t[k + 1][j - 1] \in Nat /\ t[k][j - 1] \in Nat /\ t[k + 1][j] \in Nat
        /\ IsLeast(t[k + 1][j], t[k][j], t[k + 1][j - 1], t[k][j - 1] + Cost(a[k + 1], b[j]))
    BY <2>1, CellFacts
  <2>3. Cost(a[k + 1], b[j]) \in {0, 1}
    BY DEF Cost
  <2>4. t[k + 1][j - 1] <= t[k][j - 1] + 1
    <3>1. CASE j = 1
      <4>1. t[k + 1][j - 1] = k + 1 /\ t[k][j - 1] = k
        BY <2>1, <3>1 DEF IsTable
      <4> QED
        BY <2>1, <4>1
    <3>2. CASE j # 1
      <4>1. j - 1 \in 1 .. Len(b)
        BY <1>1, <3>2
      <4>2. IsLeast(t[k + 1][j - 1], t[k][j - 1], t[k + 1][(j - 1) - 1], t[k][(j - 1) - 1] + Cost(a[k + 1], b[j - 1]))
        BY <2>1, <4>1, CellFacts
      <4> QED
        BY <4>2 DEF IsLeast
    <3> QED
      BY <3>1, <3>2
  <2>5. \/ t[k + 1][j] = t[k][j] + 1
        \/ t[k + 1][j] = t[k + 1][j - 1] + 1
        \/ t[k + 1][j] = t[k][j - 1] + Cost(a[k + 1], b[j])
    BY <2>2 DEF IsLeast
  <2>6. t[k + 1][j - 1] <= t[k + 1][j] + 1
    <3> DEFINE x == t[k + 1][j - 1]
               y == t[k][j - 1]
               u == t[k][j]
               c == t[k + 1][j]
               e == Cost(a[k + 1], b[j])
    <3>1. x \in Nat /\ y \in Nat /\ u \in Nat /\ c \in Nat /\ e \in {0, 1}
      BY <2>2, <2>3
    <3>2. y <= u + 1 /\ x <= y + 1 /\ (c = u + 1 \/ c = x + 1 \/ c = y + e)
      BY <2>1, <2>4, <2>5
    <3> HIDE DEF x, y, u, c, e
    <3>3. x <= c + 1
      BY <3>1, <3>2
    <3> QED
      BY <3>3 DEF x, c
  <2> QED
    BY <2>1, <2>6
<1> HIDE DEF T
<1>4. 0 .. n \subseteq T
  <2> HIDE DEF n
  <2> QED
    BY <1>1, <1>2, <1>3, BoundedInduction
<1> QED
  BY <1>4 DEF T

\* Nor is a cell more than one above the one to its left.
LEMMA RightIsNear ==
  ASSUME NEW S, NEW a \in Seq(S), NEW b \in Seq(S), NEW t, IsTable(t, a, b), NEW j \in 1 .. Len(b)
  PROVE  \A i \in 0 .. Len(a) : t[i][j] <= t[i][j - 1] + 1
<1>1. Len(a) \in Nat /\ Len(b) \in Nat /\ j \in 0 .. Len(b) /\ j - 1 \in 0 .. Len(b) /\ j \in Nat
  OBVIOUS
<1> TAKE i \in 0 .. Len(a)
<1>2. CASE i = 0
  <2>1. t[0][j - 1] = j - 1 /\ t[0][j] = j
    BY <1>1 DEF IsTable
  <2> QED
    BY <1>1, <1>2, <2>1
<1>3. CASE i # 0
  <2>1. i \in 1 .. Len(a)
    BY <1>1, <1>3
  <2> QED
    BY <2>1, CellFacts DEF IsLeast
<1> QED
  BY <1>2, <1>3

\* A symbol replaced in one of two words changes the columns by one at most.
LEMMA SubstitutedColumn ==
  ASSUME NEW S, NEW a \in Seq(S), NEW u \in Seq(S), NEW v \in Seq(S),
         NEW tu, IsTable(tu, a, u), NEW tv, IsTable(tv, a, v),
         NEW p \in 1 .. Len(u), p \in 1 .. Len(v),
         \A i \in 0 .. Len(a) : tv[i][p - 1] <= tu[i][p - 1]
  PROVE  \A i \in 0 .. Len(a) : tv[i][p] <= tu[i][p] + 1
<1> DEFINE n == Len(a)
           T == {i \in 0 .. n : tv[i][p] <= tu[i][p] + 1}
<1>1. n \in Nat /\ p \in 0 .. Len(v) /\ p \in 0 .. Len(u) /\ p \in Nat
  OBVIOUS
<1>2. 0 \in T
  <2>1. tv[0][p] = p /\ tu[0][p] = p
    BY <1>1 DEF IsTable
  <2> QED
    BY <1>1, <2>1
<1>3. ASSUME NEW k \in 0 .. n - 1, k \in T PROVE k + 1 \in T
  <2>1. /\ k \in Nat /\ k + 1 \in 1 .. n /\ k + 1 \in 0 .. n /\ (k + 1) - 1 = k /\ k \in 0 .. n
        /\ tv[k][p] <= tu[k][p] + 1
    BY <1>1, <1>3
  <2>2. /\ tv[k][p] \in Nat /\ tv[k + 1][p - 1] \in Nat /\ tv[k][p - 1] \in Nat /\ tv[k + 1][p] \in Nat
        /\ IsLeast(tv[k + 1][p], tv[k][p], tv[k + 1][p - 1], tv[k][p - 1] + Cost(a[k + 1], v[p]))
    BY <2>1, CellFacts
  <2>3. /\ tu[k][p] \in Nat /\ tu[k + 1][p - 1] \in Nat /\ tu[k][p - 1] \in Nat /\ tu[k + 1][p] \in Nat
        /\ IsLeast(tu[k + 1][p], tu[k][p], tu[k + 1][p - 1], tu[k][p - 1] + Cost(a[k + 1], u[p]))
    BY <2>1, CellFacts
  <2>4. Cost(a[k + 1], v[p]) \in {0, 1} /\ Cost(a[k + 1], u[p]) \in {0, 1}
    BY DEF Cost
  <2>5. tv[k + 1][p - 1] <= tu[k + 1][p - 1] /\ tv[k][p - 1] <= tu[k][p - 1]
    BY <2>1
  <2> DEFINE up == tv[k][p]
             left == tv[k + 1][p - 1]
             before == tv[k][p - 1]
             c == Cost(a[k + 1], v[p])
             x == tv[k + 1][p]
             up2 == tu[k][p]
             left2 == tu[k + 1][p - 1]
             before2 == tu[k][p - 1]
             d == Cost(a[k + 1], u[p])
             y == tu[k + 1][p]
  <2>6. /\ up \in Nat /\ left \in Nat /\ before \in Nat /\ x \in Nat /\ c \in {0, 1}
        /\ IsLeast(x, up, left, before + c)
    BY <2>2, <2>4
  <2>7. /\ up2 \in Nat /\ left2 \in Nat /\ before2 \in Nat /\ y \in Nat /\ d \in {0, 1}
        /\ IsLeast(y, up2, left2, before2 + d)
    BY <2>3, <2>4
  <2>8. up <= up2 + 1
    BY <2>1
  <2>9. left <= left2
    BY <2>5
  <2>10. before <= before2
    BY <2>5
  <2> HIDE DEF up, left, before, c, x, up2, left2, before2, d, y
  <2>12. x <= up + 1 /\ x <= left + 1 /\ x <= before + c
    BY <2>6 DEF IsLeast
  <2>13. y = up2 + 1 \/ y = left2 + 1 \/ y = before2 + d
    BY <2>7 DEF IsLeast
  <2>14. x <= y + 1
    BY <2>6, <2>7, <2>8, <2>9, <2>10, <2>12, <2>13
  <2>15. tv[k + 1][p] <= tu[k + 1][p] + 1
    BY <2>14 DEF x, y
  <2> QED
    BY <2>1, <2>15
<1> HIDE DEF T
<1>4. 0 .. n \subseteq T
  <2> HIDE DEF n
  <2> QED
    BY <1>1, <1>2, <1>3, BoundedInduction
<1> QED
  BY <1>4 DEF T

\* Two tables for the same word: if their columns are near and the next symbols are the same,
\* so are the next columns.
LEMMA NextColumn ==
  ASSUME NEW S, NEW a \in Seq(S), NEW u \in Seq(S), NEW v \in Seq(S),
         NEW tu, IsTable(tu, a, u), NEW tv, IsTable(tv, a, v),
         NEW j \in 1 .. Len(v), NEW l \in 1 .. Len(u), NEW e \in Nat, j <= l + e,
         v[j] = u[l], \A i \in 0 .. Len(a) : tv[i][j - 1] <= tu[i][l - 1] + e
  PROVE  \A i \in 0 .. Len(a) : tv[i][j] <= tu[i][l] + e
<1> DEFINE n == Len(a)
           T == {i \in 0 .. n : tv[i][j] <= tu[i][l] + e}
<1>1. n \in Nat /\ j \in 0 .. Len(v) /\ l \in 0 .. Len(u)
  OBVIOUS
<1>2. 0 \in T
  <2>1. tv[0][j] = j /\ tu[0][l] = l
    BY <1>1 DEF IsTable
  <2> QED
    BY <1>1, <2>1
<1>3. ASSUME NEW k \in 0 .. n - 1, k \in T PROVE k + 1 \in T
  <2>1. /\ k \in Nat /\ k + 1 \in 1 .. n /\ k + 1 \in 0 .. n /\ (k + 1) - 1 = k /\ k \in 0 .. n
        /\ tv[k][j] <= tu[k][l] + e
    BY <1>1, <1>3
  <2>2. /\ tv[k][j] \in Nat /\ tv[k + 1][j - 1] \in Nat /\ tv[k][j - 1] \in Nat /\ tv[k + 1][j] \in Nat
        /\ IsLeast(tv[k + 1][j], tv[k][j], tv[k + 1][j - 1], tv[k][j - 1] + Cost(a[k + 1], v[j]))
    BY <2>1, CellFacts
  <2>3. /\ tu[k][l] \in Nat /\ tu[k + 1][l - 1] \in Nat /\ tu[k][l - 1] \in Nat /\ tu[k + 1][l] \in Nat
        /\ IsLeast(tu[k + 1][l], tu[k][l], tu[k + 1][l - 1], tu[k][l - 1] + Cost(a[k + 1], u[l]))
    BY <2>1, CellFacts
  <2>4. Cost(a[k + 1], v[j]) = Cost(a[k + 1], u[l]) /\ Cost(a[k + 1], u[l]) \in {0, 1}
    BY DEF Cost
  <2>5. tv[k + 1][j - 1] <= tu[k + 1][l - 1] + e /\ tv[k][j - 1] <= tu[k][l - 1] + e
    BY <2>1
  <2> DEFINE up == tv[k][j]
             left == tv[k + 1][j - 1]
             before == tv[k][j - 1]
             c == Cost(a[k + 1], v[j])
             x == tv[k + 1][j]
             up2 == tu[k][l]
             left2 == tu[k + 1][l - 1]
             before2 == tu[k][l - 1]
             d == Cost(a[k + 1], u[l])
             y == tu[k + 1][l]
  <2>6. /\ up \in Nat /\ left \in Nat /\ before \in Nat /\ x \in Nat /\ c \in {0, 1}
        /\ IsLeast(x, up, left, before + c)
    BY <2>2, <2>4
  <2>7. /\ up2 \in Nat /\ left2 \in Nat /\ before2 \in Nat /\ y \in Nat /\ d \in {0, 1}
        /\ IsLeast(y, up2, left2, before2 + d)
    BY <2>3, <2>4
  <2>8. up <= up2 + e
    BY <2>1
  <2>9. left <= left2 + e
    BY <2>5
  <2>10. before <= before2 + e
    BY <2>5
  <2>11. c = d
    BY <2>4
  <2> HIDE DEF up, left, before, c, x, up2, left2, before2, d, y
  <2>12. x <= up + 1 /\ x <= left + 1 /\ x <= before + c
    BY <2>6 DEF IsLeast
  <2>13. y = up2 + 1 \/ y = left2 + 1 \/ y = before2 + d
    BY <2>7 DEF IsLeast
  <2>14. x <= y + e
    BY <2>6, <2>7, <2>8, <2>9, <2>10, <2>11, <2>12, <2>13
  <2>15. tv[k + 1][j] <= tu[k + 1][l] + e
    BY <2>14 DEF x, y
  <2> QED
    BY <2>1, <2>15
<1> HIDE DEF T
<1>4. 0 .. n \subseteq T
  <2> HIDE DEF n
  <2> QED
    BY <1>1, <1>2, <1>3, BoundedInduction
<1> QED
  BY <1>4 DEF T

\* So it is for all columns of two words that are the same from some place on.
LEMMA ColumnsNear ==
  ASSUME NEW S, NEW a \in Seq(S), NEW u \in Seq(S), NEW v \in Seq(S),
         NEW tu, IsTable(tu, a, u), NEW tv, IsTable(tv, a, v),
         NEW q \in Nat, NEW p \in Nat, NEW len \in Nat, NEW e \in Nat, q <= p + e,
         q + len <= Len(v), p + len <= Len(u),
         \A k \in 1 .. len : v[q + k] = u[p + k],
         \A i \in 0 .. Len(a) : tv[i][q] <= tu[i][p] + e
  PROVE  \A k \in 0 .. len : \A i \in 0 .. Len(a) : tv[i][q + k] <= tu[i][p + k] + e
<1> DEFINE Close(k) == \A i \in 0 .. Len(a) : tv[i][q + k] <= tu[i][p + k] + e
           T == {k \in 0 .. len : Close(k)}
<1>1. Len(v) \in Nat /\ Len(u) \in Nat
  OBVIOUS
<1>2. 0 \in T
  <2>1. q + 0 = q /\ p + 0 = p /\ 0 \in 0 .. len
    OBVIOUS
  <2>2. Close(0)
    BY <2>1
  <2> HIDE DEF Close
  <2> QED
    BY <2>1, <2>2
<1>3. ASSUME NEW k \in 0 .. len - 1, k \in T PROVE k + 1 \in T
  <2> DEFINE j == q + (k + 1)
             l == p + (k + 1)
  <2>1. /\ j \in 1 .. Len(v) /\ l \in 1 .. Len(u) /\ j <= l + e /\ v[j] = u[l]
        /\ j - 1 = q + k /\ l - 1 = p + k /\ k + 1 \in 0 .. len
    <3>1. k \in Nat /\ k + 1 \in 1 .. len
      OBVIOUS
    <3>2. v[q + (k + 1)] = u[p + (k + 1)]
      BY <3>1
    <3> QED
      BY <1>1, <3>1, <3>2
  <2>2. \A i \in 0 .. Len(a) : tv[i][j - 1] <= tu[i][l - 1] + e
    BY <1>3, <2>1
  <2> HIDE DEF j, l
  <2>3. \A i \in 0 .. Len(a) : tv[i][j] <= tu[i][l] + e
    BY <2>1, <2>2, NextColumn
  <2>4. Close(k + 1)
    BY <2>3 DEF j, l
  <2> HIDE DEF Close
  <2> QED
    BY <2>1, <2>4
<1> HIDE DEF T
<1>4. 0 .. len \subseteq T
  BY <1>2, <1>3, BoundedInduction
<1> QED
  BY <1>4 DEF T

\* An edit of one symbol.
IsEdit(u, v) ==
  \/ \E p \in 1 .. Len(u) : /\ Len(v) = Len(u) - 1
                            /\ \A k \in 1 .. p - 1 : v[k] = u[k]
                            /\ \A k \in p .. Len(v) : v[k] = u[k + 1]
  \/ \E p \in 1 .. Len(v) : /\ Len(v) = Len(u) + 1
                            /\ \A k \in 1 .. p - 1 : v[k] = u[k]
                            /\ \A k \in p .. Len(u) : v[k + 1] = u[k]
  \/ \E p \in 1 .. Len(u) : /\ Len(v) = Len(u)
                            /\ \A k \in 1 .. Len(u) : k # p => v[k] = u[k]

\* It changes the last cell by one at most.
LEMMA EditIsNear ==
  ASSUME NEW S, NEW a \in Seq(S), NEW u \in Seq(S), NEW v \in Seq(S), IsEdit(u, v),
         NEW tu, IsTable(tu, a, u), NEW tv, IsTable(tv, a, v)
  PROVE  tv[Len(a)][Len(v)] <= tu[Len(a)][Len(u)] + 1
<1> DEFINE n == Len(a)
<1>1. /\ n \in Nat /\ Len(u) \in Nat /\ Len(v) \in Nat /\ n \in 0 .. n
      /\ \A i \in 0 .. n, j \in 0 .. Len(u) : tu[i][j] \in Nat
      /\ \A i \in 0 .. n, j \in 0 .. Len(v) : tv[i][j] \in Nat
      /\ \A i \in 0 .. n : tu[i][0] = i /\ tv[i][0] = i
  <2>1. /\ tu \in [0 .. n -> [0 .. Len(u) -> Nat]] /\ tv \in [0 .. n -> [0 .. Len(v) -> Nat]]
        /\ \A i \in 0 .. n : tu[i][0] = i /\ tv[i][0] = i
    BY DEF IsTable
  <2>2. /\ \A i \in 0 .. n : tu[i] \in [0 .. Len(u) -> Nat]
        /\ \A i \in 0 .. n : tv[i] \in [0 .. Len(v) -> Nat]
    BY <2>1
  <2>3. n \in Nat /\ Len(u) \in Nat /\ Len(v) \in Nat /\ n \in 0 .. n
    OBVIOUS
  <2> HIDE DEF n
  <2> QED
    BY <2>1, <2>2, <2>3
<1> HIDE DEF n
<1>2. ASSUME NEW p \in Nat, p <= Len(u), p <= Len(v), \A k \in 1 .. p : v[k] = u[k]
      PROVE  \A i \in 0 .. n : tv[i][p] <= tu[i][p]
  <2>1. \A k \in 1 .. p : v[0 + k] = u[0 + k]
    BY <1>2
  <2>2. \A i \in 0 .. Len(a) : tv[i][0] <= tu[i][0] + 0
    BY <1>1 DEF n
  <2>3. 0 + p <= Len(v) /\ 0 + p <= Len(u) /\ 0 <= 0 + 0 /\ p \in 0 .. p
    BY <1>2
  <2>4. \A k \in 0 .. p : \A i \in 0 .. Len(a) : tv[i][0 + k] <= tu[i][0 + k] + 0
    BY <2>1, <2>2, <2>3, ColumnsNear
  <2>5. \A i \in 0 .. n : tv[i][0 + p] <= tu[i][0 + p] + 0
    BY <2>3, <2>4 DEF n
  <2>6. 0 + p = p /\ p \in 0 .. Len(u)
    BY <1>1, <1>2
  <2> QED
    BY <1>1, <2>5, <2>6
<1>3. ASSUME NEW q \in Nat, NEW p \in Nat, q <= p + 1, q <= Len(v), p <= Len(u), Len(v) - q = Len(u) - p,
             \A k \in 1 .. Len(v) - q : v[q + k] = u[p + k],
             \A i \in 0 .. n : tv[i][q] <= tu[i][p] + 1
      PROVE  tv[n][Len(v)] <= tu[n][Len(u)] + 1
  <2> DEFINE len == Len(v) - q
  <2>1. /\ len \in Nat /\ q + len <= Len(v) /\ p + len <= Len(u) /\ len \in 0 .. len
        /\ q + len = Len(v) /\ p + len = Len(u)
    BY <1>1, <1>3
  <2>2. \A k \in 1 .. len : v[q + k] = u[p + k]
    BY <1>3
  <2> HIDE DEF len
  <2>3. \A k \in 0 .. len : \A i \in 0 .. Len(a) : tv[i][q + k] <= tu[i][p + k] + 1
    BY <1>3, <2>1, <2>2, ColumnsNear DEF n
  <2>4. tv[n][q + len] <= tu[n][p + len] + 1
    BY <1>1, <2>1, <2>3 DEF n
  <2> QED
    BY <2>1, <2>4
<1>4. CASE \E p \in 1 .. Len(u) : /\ Len(v) = Len(u) - 1
                                  /\ \A k \in 1 .. p - 1 : v[k] = u[k]
                                  /\ \A k \in p .. Len(v) : v[k] = u[k + 1]
  <2>1. PICK p \in 1 .. Len(u) : /\ Len(v) = Len(u) - 1
                                 /\ \A k \in 1 .. p - 1 : v[k] = u[k]
                                 /\ \A k \in p .. Len(v) : v[k] = u[k + 1]
    BY <1>4
  <2>2. p - 1 \in Nat /\ p - 1 <= Len(u) /\ p - 1 <= Len(v) /\ p - 1 \in 0 .. Len(u) /\ p \in 0 .. Len(u)
        /\ p - 1 \in 0 .. Len(v)
    BY <1>1, <2>1
  <2>3. \A i \in 0 .. n : tv[i][p - 1] <= tu[i][p - 1]
    BY <1>2, <2>1, <2>2
  <2>4. \A i \in 0 .. n : tu[i][p - 1] <= tu[i][p] + 1
    BY <2>1, LeftIsNear DEF n
  <2>5. \A i \in 0 .. n : tv[i][p - 1] <= tu[i][p] + 1
    <3> TAKE i \in 0 .. n
    <3> DEFINE x == tv[i][p - 1]
               y == tu[i][p - 1]
               z == tu[i][p]
    <3>1. x \in Nat /\ y \in Nat /\ z \in Nat
      BY <1>1, <2>2
    <3>2. x <= y /\ y <= z + 1
      BY <2>3, <2>4
    <3> HIDE DEF x, y, z
    <3>3. x <= z + 1
      BY <3>1, <3>2
    <3> QED
      BY <3>3 DEF x, z
  <2>6. \A k \in 1 .. Len(v) - (p - 1) : v[(p - 1) + k] = u[p + k]
    <3> TAKE k \in 1 .. Len(v) - (p - 1)
    <3>1. (p - 1) + k \in p .. Len(v) /\ ((p - 1) + k) + 1 = p + k
      BY <1>1, <2>2
    <3> QED
      BY <2>1, <3>1
  <2>7. p \in Nat /\ p - 1 <= p + 1 /\ p <= Len(u) /\ Len(v) - (p - 1) = Len(u) - p
    BY <1>1, <2>1
  <2> QED
    BY <1>3, <2>2, <2>5, <2>6, <2>7 DEF n
<1>5. CASE \E p \in 1 .. Len(v) : /\ Len(v) = Len(u) + 1
                                  /\ \A k \in 1 .. p - 1 : v[k] = u[k]
                                  /\ \A k \in p .. Len(u) : v[k + 1] = u[k]
  <2>1. PICK p \in 1 .. Len(v) : /\ Len(v) = Len(u) + 1
                                 /\ \A k \in 1 .. p - 1 : v[k] = u[k]
                                 /\ \A k \in p .. Len(u) : v[k + 1] = u[k]
    BY <1>5
  <2>2. p - 1 \in Nat /\ p - 1 <= Len(u) /\ p - 1 <= Len(v) /\ p - 1 \in 0 .. Len(u)
        /\ p \in 0 .. Len(v) /\ p - 1 \in 0 .. Len(v)
    BY <1>1, <2>1
  <2>3. \A i \in 0 .. n : tv[i][p - 1] <= tu[i][p - 1]
    BY <1>2, <2>1, <2>2
  <2>4. \A i \in 0 .. n : tv[i][p] <= tv[i][p - 1] + 1
    BY <2>1, RightIsNear DEF n
  <2>5. \A i \in 0 .. n : tv[i][p] <= tu[i][p - 1] + 1
    <3> TAKE i \in 0 .. n
    <3> DEFINE x == tv[i][p]
               y == tv[i][p - 1]
               z == tu[i][p - 1]
    <3>1. x \in Nat /\ y \in Nat /\ z \in Nat
      BY <1>1, <2>2
    <3>2. x <= y + 1 /\ y <= z
      BY <2>3, <2>4
    <3> HIDE DEF x, y, z
    <3>3. x <= z + 1
      BY <3>1, <3>2
    <3> QED
      BY <3>3 DEF x, z
  <2>6. \A k \in 1 .. Len(v) - p : v[p + k] = u[(p - 1) + k]
    <3> TAKE k \in 1 .. Len(v) - p
    <3>1. (p - 1) + k \in p .. Len(u) /\ ((p - 1) + k) + 1 = p + k
      BY <1>1, <2>1
    <3> QED
      BY <2>1, <3>1
  <2>7. p \in Nat /\ p <= (p - 1) + 1 /\ p <= Len(v) /\ Len(v) - p = Len(u) - (p - 1)
    BY <1>1, <2>1
  <2> QED
    BY <1>3, <2>2, <2>5, <2>6, <2>7 DEF n
<1>6. CASE \E p \in 1 .. Len(u) : /\ Len(v) = Len(u)
                                  /\ \A k \in 1 .. Len(u) : k # p => v[k] = u[k]
  <2>1. PICK p \in 1 .. Len(u) : /\ Len(v) = Len(u)
                                 /\ \A k \in 1 .. Len(u) : k # p => v[k] = u[k]
    BY <1>6
  <2>2. p - 1 \in Nat /\ p - 1 <= Len(u) /\ p - 1 <= Len(v) /\ p \in 1 .. Len(v)
        /\ p \in Nat /\ p <= p + 1 /\ p <= Len(v) /\ p <= Len(u) /\ Len(v) - p = Len(u) - p
    BY <1>1, <2>1
  <2>3. \A k \in 1 .. p - 1 : v[k] = u[k]
    BY <1>1, <2>1
  <2>4. \A i \in 0 .. n : tv[i][p - 1] <= tu[i][p - 1]
    BY <1>2, <2>2, <2>3
  <2>5. \A i \in 0 .. n : tv[i][p] <= tu[i][p] + 1
    BY <2>1, <2>2, <2>4, SubstitutedColumn DEF n
  <2>6. \A k \in 1 .. Len(v) - p : v[p + k] = u[p + k]
    <3> TAKE k \in 1 .. Len(v) - p
    <3>1. p + k \in 1 .. Len(u) /\ p + k # p
      BY <1>1, <2>1
    <3> QED
      BY <2>1, <3>1
  <2> QED
    BY <1>3, <2>2, <2>5, <2>6 DEF n
<1> QED
  BY <1>4, <1>5, <1>6 DEF IsEdit, n

\* The positions of a word with one left out or put in.
LEMMA RemoveAtMeans ==
  ASSUME NEW S, NEW w \in Seq(S), NEW p \in 1 .. Len(w)
  PROVE  /\ RemoveAt(w, p) \in Seq(S) /\ Len(RemoveAt(w, p)) = Len(w) - 1
         /\ \A k \in 1 .. p - 1 : RemoveAt(w, p)[k] = w[k]
         /\ \A k \in p .. Len(w) - 1 : RemoveAt(w, p)[k] = w[k + 1]
<1> DEFINE head == SubSeq(w, 1, p - 1)
           tail == SubSeq(w, p + 1, Len(w))
<1>1. Len(w) \in Nat /\ p \in Nat
  OBVIOUS
<1>2. /\ head \in Seq(S) /\ Len(head) = p - 1 /\ \A k \in 1 .. p - 1 : head[k] = w[k]
  BY <1>1
<1>3. /\ tail \in Seq(S) /\ Len(tail) = Len(w) - p
      /\ \A k \in 1 .. Len(w) - p : tail[k] = w[p + k]
  BY <1>1
<1>4. RemoveAt(w, p) = head \o tail
  BY DEF RemoveAt
<1> HIDE DEF head, tail
<1>5. /\ head \o tail \in Seq(S) /\ Len(head \o tail) = Len(w) - 1
      /\ \A k \in 1 .. p - 1 : (head \o tail)[k] = head[k]
      /\ \A k \in p .. Len(w) - 1 : (head \o tail)[k] = tail[k - (p - 1)]
  BY <1>1, <1>2, <1>3
<1>6. \A k \in p .. Len(w) - 1 : k - (p - 1) \in 1 .. Len(w) - p /\ p + (k - (p - 1)) = k + 1
  BY <1>1
<1>7. \A k \in p .. Len(w) - 1 : tail[k - (p - 1)] = w[k + 1]
  BY <1>3, <1>6
<1> QED
  BY <1>2, <1>4, <1>5, <1>7

\* What InsertAt makes of a word.
LEMMA InsertAtMeans ==
  ASSUME NEW S, NEW w \in Seq(S), NEW p \in 1 .. Len(w) + 1, NEW c \in S
  PROVE  /\ InsertAt(w, p, c) \in Seq(S) /\ Len(InsertAt(w, p, c)) = Len(w) + 1
         /\ InsertAt(w, p, c)[p] = c
         /\ \A k \in 1 .. p - 1 : InsertAt(w, p, c)[k] = w[k]
         /\ \A k \in p .. Len(w) : InsertAt(w, p, c)[k + 1] = w[k]
<1> DEFINE head == SubSeq(w, 1, p - 1)
           tail == SubSeq(w, p, Len(w))
           new == head \o <<c>>
<1>1. Len(w) \in Nat /\ p \in Nat
  OBVIOUS
<1>2. /\ head \in Seq(S) /\ Len(head) = p - 1 /\ \A k \in 1 .. p - 1 : head[k] = w[k]
  BY <1>1
<1>3. /\ tail \in Seq(S) /\ Len(tail) = Len(w) - (p - 1)
      /\ \A k \in 1 .. Len(w) - (p - 1) : tail[k] = w[(p - 1) + k]
  <2>1. CASE p <= Len(w)
    BY <1>1, <2>1
  <2>2. CASE p > Len(w)
    BY <1>1, <2>2
  <2> QED
    BY <1>1, <2>1, <2>2
<1>4. InsertAt(w, p, c) = new \o tail
  BY DEF InsertAt
<1> HIDE DEF head, tail
<1>5. /\ new \in Seq(S) /\ Len(new) = p /\ new[p] = c
      /\ \A k \in 1 .. p - 1 : new[k] = head[k]
  BY <1>1, <1>2
<1> HIDE DEF new
<1>6. /\ new \o tail \in Seq(S) /\ Len(new \o tail) = Len(w) + 1
      /\ \A k \in 1 .. p : (new \o tail)[k] = new[k]
      /\ \A k \in p + 1 .. Len(w) + 1 : (new \o tail)[k] = tail[k - p]
  <2>1. new \in Seq(S) /\ tail \in Seq(S) /\ Len(new) + Len(tail) = Len(w) + 1
    BY <1>1, <1>3, <1>5
  <2> QED
    BY <1>1, <1>5, <2>1, ConcatProperties
<1>7. ASSUME NEW k \in p .. Len(w) PROVE (new \o tail)[k + 1] = w[k]
  <2>1. /\ k + 1 \in p + 1 .. Len(w) + 1 /\ (k + 1) - p \in 1 .. Len(w) - (p - 1)
        /\ (p - 1) + ((k + 1) - p) = k
    BY <1>1
  <2> QED
    BY <1>3, <1>6, <2>1
<1>8. p \in 1 .. p /\ \A k \in 1 .. p - 1 : k \in 1 .. p
  BY <1>1
<1> QED
  BY <1>2, <1>4, <1>5, <1>6, <1>7, <1>8

\* What OneEdit lists are edits of one symbol.
LEMMA EditsMean ==
  ASSUME NEW S, DictionarySymbols \subseteq S, NEW w \in Seq(S), NEW v \in OneEdit(w)
  PROVE  v \in Seq(S) /\ IsEdit(w, v)
<1>1. Len(w) \in Nat
  OBVIOUS
<1>2. ASSUME NEW p \in DOMAIN w, v = RemoveAt(w, p) PROVE v \in Seq(S) /\ IsEdit(w, v)
  <2>1. p \in 1 .. Len(w)
    OBVIOUS
  <2>2. /\ v \in Seq(S) /\ Len(v) = Len(w) - 1
        /\ \A k \in 1 .. p - 1 : v[k] = w[k]
        /\ \A k \in p .. Len(w) - 1 : v[k] = w[k + 1]
    BY <1>2, <2>1, RemoveAtMeans
  <2> QED
    BY <2>1, <2>2 DEF IsEdit
<1>3. ASSUME NEW p \in 1 .. Len(w) + 1, NEW c \in DictionarySymbols, v = InsertAt(w, p, c)
      PROVE  v \in Seq(S) /\ IsEdit(w, v)
  <2>1. /\ v \in Seq(S) /\ Len(v) = Len(w) + 1
        /\ \A k \in 1 .. p - 1 : v[k] = w[k]
        /\ \A k \in p .. Len(w) : v[k + 1] = w[k]
    BY <1>3, InsertAtMeans
  <2>2. p \in 1 .. Len(v)
    BY <2>1
  <2> QED
    BY <2>1, <2>2 DEF IsEdit
<1>4. ASSUME NEW p \in DOMAIN w, NEW c \in DictionarySymbols, v = ReplaceAt(w, p, c)
      PROVE  v \in Seq(S) /\ IsEdit(w, v)
  <2>1. p \in 1 .. Len(w) /\ v = [w EXCEPT ![p] = c] /\ c \in S
    BY <1>4 DEF ReplaceAt
  <2>2. v \in Seq(S) /\ Len(v) = Len(w) /\ \A k \in 1 .. Len(w) : k # p => v[k] = w[k]
    BY <1>1, <2>1
  <2> QED
    BY <2>1, <2>2 DEF IsEdit
<1> QED
  BY <1>2, <1>3, <1>4 DEF OneEdit

\* And it lists all that make a word of the dictionary's symbols.
LEMMA OneAwayMeans ==
  ASSUME NEW S, NEW w \in Seq(S), NEW v \in Seq(DictionarySymbols), DictionarySymbols \subseteq S,
         OneAway(w, v, Len(w), Len(v))
  PROVE  v = w \/ v \in OneEdit(w)
<1>1. Len(w) \in Nat /\ Len(v) \in Nat /\ v \in Seq(S)
  OBVIOUS
<1>2. CASE Alike(w, v, Len(w), Len(v))
  BY <1>1, <1>2, SeqEqual DEF Alike
<1>3. CASE Removed(w, v, Len(w), Len(v))
  <2>1. PICK p \in 1 .. Len(w) : /\ \A k \in 1 .. p - 1 : w[k] = v[k]
                                 /\ \A k \in p .. Len(v) : w[k + 1] = v[k]
    BY <1>3 DEF Removed
  <2>2. Len(v) = Len(w) - 1
    BY <1>1, <1>3 DEF Removed
  <2> DEFINE r == RemoveAt(w, p)
  <2>3. /\ r \in Seq(S) /\ Len(r) = Len(w) - 1
        /\ \A k \in 1 .. p - 1 : r[k] = w[k]
        /\ \A k \in p .. Len(w) - 1 : r[k] = w[k + 1]
    BY RemoveAtMeans
  <2> HIDE DEF r
  <2>4. \A k \in 1 .. Len(v) : k \in 1 .. p - 1 \/ k \in p .. Len(v)
    BY <1>1
  <2>5. \A k \in 1 .. Len(v) : r[k] = v[k]
    BY <2>1, <2>2, <2>3, <2>4
  <2>6. v = r
    BY <1>1, <2>2, <2>3, <2>5, SeqEqual
  <2>7. p \in DOMAIN w
    BY <2>1
  <2> QED
    BY <2>6, <2>7 DEF r, OneEdit
<1>4. CASE Inserted(w, v, Len(w), Len(v))
  <2>1. PICK p \in 1 .. Len(v) : /\ \A k \in 1 .. p - 1 : v[k] = w[k]
                                 /\ \A k \in p .. Len(w) : v[k + 1] = w[k]
    BY <1>4 DEF Inserted, Removed
  <2>2. Len(v) = Len(w) + 1
    BY <1>1, <1>4 DEF Inserted, Removed
  <2>3. p \in 1 .. Len(w) + 1 /\ v[p] \in DictionarySymbols /\ v[p] \in S
    BY <2>1, <2>2
  <2> DEFINE r == InsertAt(w, p, v[p])
  <2>4. /\ r \in Seq(S) /\ Len(r) = Len(w) + 1 /\ r[p] = v[p]
        /\ \A k \in 1 .. p - 1 : r[k] = w[k]
        /\ \A k \in p .. Len(w) : r[k + 1] = w[k]
    BY <2>3, InsertAtMeans
  <2>5. r \in OneEdit(w)
    BY <2>3 DEF OneEdit
  <2> HIDE DEF r
  <2>6. ASSUME NEW k \in 1 .. Len(v) PROVE r[k] = v[k]
    <3>1. CASE k < p
      BY <1>1, <2>1, <2>4, <3>1
    <3>2. CASE k = p
      BY <2>4, <3>2
    <3>3. CASE k > p
      <4>1. k - 1 \in p .. Len(w) /\ (k - 1) + 1 = k
        BY <1>1, <2>1, <2>2, <3>3
      <4>2. v[(k - 1) + 1] = w[k - 1] /\ r[(k - 1) + 1] = w[k - 1]
        BY <2>1, <2>4, <4>1
      <4> QED
        BY <4>1, <4>2
    <3> QED
      BY <1>1, <2>1, <3>1, <3>2, <3>3
  <2>7. v = r
    BY <1>1, <2>2, <2>4, <2>6, SeqEqual
  <2> QED
    BY <2>5, <2>7
<1>5. CASE Replaced(w, v, Len(w), Len(v))
  <2>1. PICK p \in 1 .. Len(w) : \A k \in 1 .. Len(w) : k # p => w[k] = v[k]
    BY <1>5 DEF Replaced
  <2>2. Len(v) = Len(w)
    BY <1>5 DEF Replaced
  <2>3. v[p] \in DictionarySymbols /\ p \in DOMAIN w
    BY <2>1, <2>2
  <2> DEFINE r == ReplaceAt(w, p, v[p])
  <2>4. r \in OneEdit(w)
    BY <2>3 DEF OneEdit
  <2>5. r \in Seq(S) /\ Len(r) = Len(w) /\ \A k \in 1 .. Len(w) : r[k] = IF k = p THEN v[p] ELSE w[k]
    BY <1>1, <2>3 DEF ReplaceAt
  <2> HIDE DEF r
  <2>6. \A k \in 1 .. Len(v) : r[k] = v[k]
    BY <2>1, <2>2, <2>5
  <2>7. v = r
    BY <1>1, <2>2, <2>5, <2>6, SeqEqual
  <2> QED
    BY <2>4, <2>7
<1> QED
  BY <1>2, <1>3, <1>4, <1>5 DEF OneAway

\* The number of edits between a word and one that is within them.
Edits(w, v) == IF v = w THEN 0 ELSE IF v \in OneEdit(w) THEN 1 ELSE 2

\* Every two words have a table.
LEMMA TableExists ==
  ASSUME NEW S, NEW a \in Seq(S), NEW b \in Seq(S)
  PROVE  \E t : IsTable(t, a, b)
BY RowsExist, TableOfRows

\* For a word within the bound, the bounded distance is the number of edits.
LEMMA DistanceIsEdits ==
  ASSUME NEW S, DictionarySymbols \subseteq S, NEW w \in Seq(S), NEW v \in Seq(DictionarySymbols),
         NEW max \in {1, 2}, v \in Within(w, max)
  PROVE  BoundedLevenshtein(w, v, max) = Edits(w, v)
<1>1. Len(w) \in Nat /\ Len(v) \in Nat /\ v \in Seq(S) /\ max \in Nat
      /\ Len(w) \in 0 .. Len(w) /\ Len(v) \in 0 .. Len(v)
  OBVIOUS
<1>2. PICK t : /\ IsTable(t, w, v)
               /\ Bounded(BoundedLevenshtein(w, v, max), t[Len(w)][Len(v)], Len(w), Len(v), max)
  BY <1>1, LevenshteinTable
<1> DEFINE cell == t[Len(w)][Len(v)]
           d == BoundedLevenshtein(w, v, max)
<1>3. cell \in Nat
  BY <1>1, <1>2 DEF IsTable
<1>4. cell = 0 => v = w
  <2>1. ASSUME cell = 0 PROVE v = w
    <3>1. Alike(w, v, Len(w), Len(v))
      BY <1>1, <1>2, <2>1, ZeroMeans
    <3> QED
      BY <1>1, <3>1, SeqEqual DEF Alike
  <2> QED
    BY <2>1
<1>5. cell <= 1 => v = w \/ v \in OneEdit(w)
  <2>1. ASSUME cell <= 1 PROVE v = w \/ v \in OneEdit(w)
    <3>1. OneAway(w, v, Len(w), Len(v))
      BY <1>1, <1>2, <2>1, OneMeans
    <3> QED
      BY <3>1, OneAwayMeans
  <2> QED
    BY <2>1
<1>6. v = w => cell = 0
  BY <1>2, DiagonalIsZero
<1>7. PICK zero : IsTable(zero, w, w)
  BY TableExists
<1>8. zero[Len(w)][Len(w)] = 0
  BY <1>7, DiagonalIsZero
<1>9. ASSUME NEW u \in OneEdit(w), NEW s, IsTable(s, w, u)
      PROVE  /\ s[Len(w)][Len(u)] \in Nat /\ s[Len(w)][Len(u)] <= 1 /\ u \in Seq(S)
             /\ Len(u) \in Nat /\ Len(w) - Len(u) <= 1 /\ Len(u) - Len(w) <= 1
  <2>1. u \in Seq(S) /\ IsEdit(w, u)
    BY EditsMean
  <2>2. s[Len(w)][Len(u)] <= zero[Len(w)][Len(w)] + 1
    BY <1>7, <1>9, <2>1, EditIsNear
  <2>3. Len(u) \in Nat /\ Len(u) \in 0 .. Len(u)
    BY <2>1
  <2>4. s[Len(w)][Len(u)] \in Nat
    BY <1>1, <1>9, <2>3 DEF IsTable
  <2>5. Len(w) - Len(u) <= 1 /\ Len(u) - Len(w) <= 1
    BY <1>1, <2>1, <2>3 DEF IsEdit
  <2> QED
    BY <1>8, <2>1, <2>2, <2>3, <2>4, <2>5
<1> HIDE DEF cell, d
<1>10. CASE v \in OneEdit(w)
  <2>1. cell <= 1 /\ Len(w) - Len(v) <= 1 /\ Len(v) - Len(w) <= 1
    BY <1>2, <1>9, <1>10 DEF cell
  <2>2. d = cell
    BY <1>1, <1>2, <1>3, <2>1 DEF Bounded, cell, d
  <2>3. d = Edits(w, v)
    BY <1>3, <1>4, <1>6, <1>10, <2>1, <2>2 DEF Edits
  <2> QED
    BY <2>3 DEF d
<1>11. CASE v \notin OneEdit(w)
  <2>1. max = 2 /\ \E u \in OneEdit(w) : v \in OneEdit(u)
    BY <1>11 DEF Within
  <2>2. PICK u \in OneEdit(w) : v \in OneEdit(u)
    BY <2>1
  <2>3. u \in Seq(S)
    BY EditsMean
  <2>4. PICK s : IsTable(s, w, u)
    BY <2>3, TableExists
  <2>5. /\ s[Len(w)][Len(u)] \in Nat /\ s[Len(w)][Len(u)] <= 1
        /\ Len(u) \in Nat /\ Len(w) - Len(u) <= 1 /\ Len(u) - Len(w) <= 1
    BY <1>9, <2>4
  <2>6. IsEdit(u, v)
    BY <2>2, <2>3, EditsMean
  <2>7. cell <= s[Len(w)][Len(u)] + 1
    BY <1>1, <1>2, <2>3, <2>4, <2>6, EditIsNear DEF cell
  <2>8. Len(u) - Len(v) <= 1 /\ Len(v) - Len(u) <= 1
    BY <1>1, <2>5, <2>6 DEF IsEdit
  <2>9. cell <= 2 /\ Len(w) - Len(v) <= 2 /\ Len(v) - Len(w) <= 2
    BY <1>1, <1>3, <2>5, <2>7, <2>8
  <2>10. d = cell
    BY <1>1, <1>2, <1>3, <2>1, <2>9 DEF Bounded, cell, d
  <2>11. d = Edits(w, v)
    BY <1>3, <1>4, <1>5, <1>6, <1>11, <2>9, <2>10 DEF Edits
  <2> QED
    BY <2>11 DEF d
<1> QED
  BY <1>10, <1>11

\* The bounded distance is a number, and zero for a word itself only.
LEMMA LevenshteinMeans ==
  ASSUME NEW v \in Keys, NEW w \in Keys, NEW max \in Nat
  PROVE  /\ BoundedLevenshtein(v, w, max) \in Nat
         /\ v # w => BoundedLevenshtein(v, w, max) # 0
<1> DEFINE d == BoundedLevenshtein(v, w, max)
           n == Len(v)
           m == Len(w)
<1>1. /\ v \in Seq(DictionarySymbols) /\ w \in Seq(DictionarySymbols)
      /\ n \in Nat /\ m \in Nat /\ n \in 0 .. n /\ m \in 0 .. m
  BY DEF Keys
<1>2. PICK t : IsTable(t, v, w) /\ Bounded(d, t[n][m], n, m, max)
  BY <1>1, LevenshteinTable
<1>3. t[n][m] \in Nat
  BY <1>1, <1>2 DEF IsTable
<1>4. v # w => t[n][m] # 0
  <2>1. ASSUME t[n][m] = 0 PROVE v = w
    <3>1. Alike(v, w, n, m)
      BY <1>1, <1>2, <2>1, ZeroMeans
    <3> QED
      BY <1>1, <3>1, SeqEqual DEF Alike
  <2> QED
    BY <2>1
<1> HIDE DEF d, n, m
<1>5. d \in Nat /\ (v # w => d # 0)
  BY <1>1, <1>2, <1>3, <1>4 DEF Bounded
<1> QED
  BY <1>5 DEF d

\* The beginning of a list of a set has members of the set only.
LEMMA FirstOfListed ==
  ASSUME NEW S, IsFiniteSet(S), NEW seq, Lists(seq, S), NEW n \in Nat
  PROVE  FirstOf(seq, n) \in Seq(S) /\ ToSet(FirstOf(seq, n)) \subseteq S
<1>1. Cardinality(S) \in Nat
  BY FS_CardinalityType
<1>2. seq \in Seq(S)
  BY <1>1 DEF Lists
<1>3. FirstOf(seq, n) \in Seq(S)
  BY <1>2, FirstOfSeq
<1> QED
  BY <1>3 DEF ToSet

\* The image of a finite set is finite.
LEMMA ImageIsFinite ==
  ASSUME NEW S, IsFiniteSet(S), NEW f
  PROVE  IsFiniteSet({f[x] : x \in S})
<1> DEFINE T == {f[x] : x \in S}
           g == [x \in S |-> f[x]]
<1>1. g \in [S -> T] /\ \A t \in T : \E x \in S : g[x] = t
  OBVIOUS
<1> HIDE DEF T, g
<1>2. g \in Surjection(S, T)
  BY <1>1 DEF Surjection
<1>3. IsFiniteSet(T)
  BY <1>2, FS_Surjection
<1> QED
  BY <1>3 DEF T

\* What the search of a dictionary may find for a word: words of the dictionary, the
\* others of them at a distance.
Hits(lex, w) ==
  {r \in Raws : /\ r.word \in DOMAIN lex /\ r.frequency = lex[r.word]
                /\ r.word # w => r.distance # 0}

\* The words of the dictionary are keys with a frequency.
LEMMA LexiconWords ==
  ASSUME NEW lex \in Lexicons
  PROVE  /\ IsFiniteSet(DOMAIN lex) /\ DOMAIN lex \subseteq Keys
         /\ \A v \in DOMAIN lex : /\ lex[v] \in Nat /\ lex[v] \in Frequencies
                                  /\ v # <<>> /\ Len(v) <= MaxFieldLen
<1>1. MaxFrequency \in Nat /\ Frequencies \subseteq Nat
  BY DecisionAssumption
<1> QED
  BY <1>1, EngineAssumption DEF Keys

\* A word of the dictionary is a hit, at a distance that is zero for the word alone.
LEMMA HitMeans ==
  ASSUME NEW lex \in Lexicons, NEW w, NEW v \in DOMAIN lex, NEW d \in Nat, v # w => d # 0
  PROVE  Raw(lex, v, d) \in Hits(lex, w)
BY LexiconWords DEF Raw, Raws, Hits

\* What the stream finds are hits.
LEMMA StreamedMeans ==
  ASSUME NEW lex \in Lexicons, NEW w \in Keys
  PROVE  Streamed(lex, w) \subseteq Hits(lex, w) /\ IsFiniteSet(Streamed(lex, w))
<1> DEFINE M == Matches(lex, w)
           found == FirstOf(KeysInOrder(M), RawMatchCap)
           f == [v \in ToSet(found) |-> Raw(lex, v, BoundedLevenshtein(w, v, MaxEditDistance(w)))]
<1>1. M \in SUBSET Keys /\ IsFiniteSet(M) /\ M \subseteq DOMAIN lex
  <2>1. M \in SUBSET DOMAIN lex
    BY DEF Matches
  <2> QED
    BY <2>1, LexiconWords, FS_Subset
<1> HIDE DEF M
<1>2. Lists(KeysInOrder(M), M)
  BY <1>1, KeysListed
<1>3. RawMatchCap \in Nat
  BY LexiconAssumption
<1>4. found \in Seq(M) /\ ToSet(found) \in SUBSET M
  BY <1>1, <1>2, <1>3, FirstOfListed
<1>5. Streamed(lex, w) = {f[v] : v \in ToSet(found)}
  BY DEF Streamed, KeysInOrder, M
<1> HIDE DEF found
<1>6. IsFiniteSet(ToSet(found))
  BY <1>1, <1>4, FS_Subset
<1>7. \A v \in ToSet(found) : f[v] \in Hits(lex, w)
  <2> TAKE v \in ToSet(found)
  <2>1. v \in DOMAIN lex /\ v \in Keys
    BY <1>1, <1>4
  <2>2. MaxEditDistance(w) \in Nat
    BY DEF MaxEditDistance
  <2>3. /\ BoundedLevenshtein(w, v, MaxEditDistance(w)) \in Nat
        /\ v # w => BoundedLevenshtein(w, v, MaxEditDistance(w)) # 0
    BY <2>1, <2>2, LevenshteinMeans
  <2> QED
    BY <2>1, <2>3, HitMeans
<1> HIDE DEF f
<1> QED
  BY <1>5, <1>6, <1>7, ImageIsFinite

\* So are the transpositions that are added.
LEMMA TranspositionsMean ==
  ASSUME NEW lex \in Lexicons, NEW w \in Keys, NEW raw \in SUBSET Hits(lex, w), IsFiniteSet(raw)
  PROVE  /\ WithTranspositions(lex, w, raw) \subseteq Hits(lex, w)
         /\ IsFiniteSet(WithTranspositions(lex, w, raw))
<1> DEFINE seen == {r.word : r \in raw}
           hits == {i \in SwapsAt(w) : Swap(w, i) \in DOMAIN lex}
           new == {i \in hits : Swap(w, i) \notin seen}
           room == {i \in new :
                      Cardinality({j \in new : j < i}) + Cardinality(raw) < RawMatchCap}
           f == [r \in raw |-> IF \E i \in hits : Swap(w, i) = r.word
                               THEN [r EXCEPT !.distance = Min({@, 1})] ELSE r]
           g == [i \in room |-> Raw(lex, Swap(w, i), 1)]
<1>1. WithTranspositions(lex, w, raw) = {f[r] : r \in raw} \cup {g[i] : i \in room}
  BY DEF WithTranspositions
<1>2. room \in SUBSET SwapsAt(w) /\ \A i \in room : Swap(w, i) \in DOMAIN lex
  OBVIOUS
<1> HIDE DEF room, hits
<1>3. IsFiniteSet(room)
  <2>1. Len(w) \in Nat
    BY DEF Keys
  <2>2. IsFiniteSet(1 .. Len(w) - 1) /\ SwapsAt(w) \in SUBSET (1 .. Len(w) - 1)
    BY <2>1, FS_Interval DEF SwapsAt
  <2>3. room \in SUBSET (1 .. Len(w) - 1)
    BY <1>2, <2>2
  <2> QED
    BY <2>2, <2>3, FS_Subset
<1>4. \A r \in raw : f[r] \in Hits(lex, w)
  <2> TAKE r \in raw
  <2>1. r \in Hits(lex, w) /\ r.distance \in Nat
    BY DEF Hits, Raws
  <2>2. Min({r.distance, 1}) \in Nat /\ (r.distance # 0 => Min({r.distance, 1}) # 0)
    BY <2>1, MinOfTwo
  <2> DEFINE m == Min({r.distance, 1})
  <2>3. f[r] = r \/ f[r] = [r EXCEPT !.distance = m]
    BY <2>1 DEF Hits, Raws
  <2> HIDE DEF f, m
  <2>4. m \in Nat /\ (r.distance # 0 => m # 0)
    BY <2>2 DEF m
  <2>5. [r EXCEPT !.distance = m] \in Hits(lex, w)
    BY <2>1, <2>4 DEF Hits, Raws
  <2> QED
    BY <2>1, <2>3, <2>5
<1>5. \A i \in room : g[i] \in Hits(lex, w)
  BY <1>2, HitMeans
<1> HIDE DEF f, g
<1>6. IsFiniteSet({f[r] : r \in raw}) /\ IsFiniteSet({g[i] : i \in room})
  BY <1>3, ImageIsFinite
<1>7. IsFiniteSet({f[r] : r \in raw} \cup {g[i] : i \in room})
  BY <1>6, FS_Union, Zenon
<1> QED
  BY <1>1, <1>4, <1>5, <1>7

\* So are the candidates, of which there are finitely many.
LEMMA CandidatesMean ==
  ASSUME NEW lex \in Lexicons, NEW w \in Keys
  PROVE  /\ ToSet(Candidates(lex, w)) \subseteq Hits(lex, w)
         /\ IsFiniteSet(ToSet(Candidates(lex, w)))
<1> DEFINE S == WithTranspositions(lex, w, Streamed(lex, w))
           found == FirstOf(RawsInOrder(S), MaxLexiconCandidates)
<1>1. S \subseteq Hits(lex, w) /\ IsFiniteSet(S)
  BY StreamedMeans, TranspositionsMean
<1>2. Candidates(lex, w) = found
  BY DEF Candidates, RawsInOrder
<1> HIDE DEF S
<1>3. S \in SUBSET Raws
  BY <1>1 DEF Hits
<1>4. Lists(RawsInOrder(S), S)
  BY <1>1, <1>3, RawsListed
<1>5. MaxLexiconCandidates \in Nat
  BY LexiconAssumption
<1>6. ToSet(found) \in SUBSET S
  BY <1>1, <1>4, <1>5, FirstOfListed
<1> HIDE DEF found
<1>7. IsFiniteSet(ToSet(found))
  BY <1>1, <1>6, FS_Subset
<1> QED
  BY <1>1, <1>2, <1>6, <1>7

-----------------------------------------------------------------------------
(* The candidates for a word.                                              *)

\* A set of numbers below a bound that is not empty has a largest.
LEMMA MaxOf ==
  ASSUME NEW s \in SUBSET Nat, s # {}, NEW n \in Nat, \A i \in s : i <= n
  PROVE  Max(s) \in s /\ \A i \in s : i <= Max(s)
<1> DEFINE t == {n - i : i \in s}
<1>1. t \in SUBSET Nat /\ t # {}
  <2>1. \A i \in s : n - i \in Nat
    <3> TAKE i \in s
    <3>1. i \in Nat /\ i <= n
      OBVIOUS
    <3> QED
      BY <3>1
  <2> QED
    BY <2>1
<1>2. Min(t) \in t /\ \A j \in t : Min(t) <= j
  BY <1>1, MinOf
<1> DEFINE m == Min(t)
<1>3. m \in t /\ \A j \in t : m <= j
  BY <1>2
<1> HIDE DEF m
<1>4. PICK k \in s : m = n - k
  BY <1>3
<1>5. \A i \in s : i <= k
  <2> TAKE i \in s
  <2>1. n - i \in t /\ i \in Nat /\ k \in Nat
    OBVIOUS
  <2>2. m <= n - i
    BY <1>3, <2>1
  <2> QED
    BY <1>4, <2>1, <2>2
<1> QED
  BY <1>5 DEF Max

Sources == {"lexicon", "rule", "user"}
\* What a correction may be.
Answers == {v \in Keys : v # <<>> /\ Len(v) <= MaxFieldLen}
CandidateRecords ==
  [word : Answers, distance : Nat, frequency : Frequencies, source : Sources]

\* The priorities of the sources.
LEMMA PriorityMeans ==
  Priority["lexicon"] = 0 /\ Priority["rule"] = 1 /\ Priority["user"] = 2
BY DEF Priority

\* A merged candidate has the least distance, the highest frequency and the first of the
\* sources of those that it is merged from.
MergesTo(twins, m) ==
  /\ m \in CandidateRecords
  /\ \A c \in twins : /\ m.word = c.word /\ m.distance <= c.distance
                      /\ c.frequency <= m.frequency
                      /\ Priority[c.source] <= Priority[m.source]
  /\ \E c \in twins : m.distance = c.distance
  /\ \E c \in twins : m.frequency = c.frequency
  /\ \E c \in twins : m.source = c.source

\* The frequencies are numbers, and there is a highest.
LEMMA FrequenciesBounded ==
  /\ MaxFrequency \in Nat /\ MaxFrequency \in Frequencies
  /\ \A f \in Frequencies : f \in Nat /\ f <= MaxFrequency
<1>1. MaxFrequency \in Nat /\ Frequencies \subseteq 0 .. MaxFrequency
      /\ MaxFrequency \in Frequencies
  BY DecisionAssumption
<1> QED
  BY <1>1

\* Candidates with one word are merged into a candidate with that word.
LEMMA MergedMeans ==
  ASSUME NEW twins \in SUBSET CandidateRecords, NEW x, \A c \in twins : c.word = x,
         twins # {}
  PROVE  MergesTo(twins, Merged(twins))
<1> DEFINE distances == {c.distance : c \in twins}
           frequencies == {c.frequency : c \in twins}
           one == CHOOSE c \in twins : TRUE
           first == CHOOSE c \in twins : \A d \in twins : Priority[c.source] >= Priority[d.source]
<1>1. Merged(twins) = [word |-> one.word, distance |-> Min(distances),
                       frequency |-> Max(frequencies), source |-> first.source]
  BY DEF Merged, Candidate
<1>2. one \in twins
  OBVIOUS
<1>3. Min(distances) \in distances /\ \A d \in distances : Min(distances) <= d
  <2>1. distances \in SUBSET Nat /\ distances # {}
    BY DEF CandidateRecords, Answers
  <2> HIDE DEF distances
  <2> QED
    BY <2>1, MinOf
<1>4. Max(frequencies) \in frequencies /\ \A f \in frequencies : f <= Max(frequencies)
  <2>2. MaxFrequency \in Nat /\ \A f \in Frequencies : f \in Nat /\ f <= MaxFrequency
    BY FrequenciesBounded
  <2>3. \A c \in twins : c.frequency \in Frequencies
    BY DEF CandidateRecords, Answers
  <2>1. /\ frequencies \in SUBSET Nat /\ frequencies # {}
        /\ \A f \in frequencies : f <= MaxFrequency
    BY <2>2, <2>3
  <2> HIDE DEF frequencies
  <2> QED
    BY <2>1, <2>2, MaxOf
<1>5. first \in twins /\ \A d \in twins : Priority[d.source] <= Priority[first.source]
  <2>1. \A c \in twins : c.source \in Sources
    BY DEF CandidateRecords, Answers
  <2>2. \E c \in twins : \A d \in twins : Priority[c.source] >= Priority[d.source]
    <3>1. CASE \E c \in twins : c.source = "user"
      BY <2>1, <3>1, PriorityMeans DEF Sources
    <3>2. CASE (\A c \in twins : c.source # "user") /\ \E c \in twins : c.source = "rule"
      BY <2>1, <3>2, PriorityMeans DEF Sources
    <3>3. CASE (\A c \in twins : c.source # "user") /\ \A c \in twins : c.source # "rule"
      BY <2>1, <3>3, PriorityMeans DEF Sources
    <3> QED
      BY <3>1, <3>2, <3>3
  <2>3. first \in twins /\ \A d \in twins : Priority[first.source] >= Priority[d.source]
    BY <2>2
  <2> HIDE DEF first
  <2>4. \A d \in twins : Priority[d.source] \in Nat
    BY <2>1, PriorityMeans DEF Sources
  <2> QED
    BY <2>3, <2>4
<1>6. \A c \in twins : c.distance \in distances /\ c.frequency \in frequencies
  OBVIOUS
<1>7. /\ \E c \in twins : Min(distances) = c.distance
      /\ \E c \in twins : Max(frequencies) = c.frequency
  BY <1>3, <1>4
<1> HIDE DEF distances, frequencies, one, first
<1>8. Merged(twins) \in CandidateRecords
  BY <1>1, <1>2, <1>5, <1>7 DEF CandidateRecords, Answers
<1> DEFINE m == Merged(twins)
<1>9. /\ m.word = x /\ m.distance = Min(distances) /\ m.frequency = Max(frequencies)
      /\ m.source = first.source
  BY <1>1, <1>2
<1> HIDE DEF m
<1>10. MergesTo(twins, m)
  BY <1>3, <1>4, <1>5, <1>6, <1>7, <1>8, <1>9 DEF MergesTo, m
<1> QED
  BY <1>10 DEF m

\* What is proposed for a word: by the dictionary and by the pairs of the user.
Proposals(lex, dict, w) ==
  {Candidate(c.word, c.distance, c.frequency, "lexicon") : c \in ToSet(Candidates(lex, w))}
    \cup {Candidate(p[2], 1, MaxFrequency, "user") : p \in Forced(dict, w)}

\* A proposal that is not the word itself.
IsProposal(dict, w, c) ==
  /\ c \in CandidateRecords /\ c.word # w /\ c.distance # 0
  /\ c.source = "rule" => /\ c.word \in RuleFor(w) /\ c.distance = 1
                          /\ c.frequency = RuleFrequency
  /\ c.source = "user" => /\ \E p \in Forced(dict, w) : c.word = p[2]
                          /\ c.distance = 1 /\ c.frequency = MaxFrequency

All(lex, dict, w) == {c \in RuleCandidates(w) \cup Proposals(lex, dict, w) : c.word # w}

\* What is proposed for a word: matches, a rule and the pair of the user.
LEMMA AllMeans ==
  ASSUME NEW lex \in Lexicons, NEW dict \in Dictionaries, NEW w \in Keys
  PROVE  /\ IsFiniteSet(All(lex, dict, w))
         /\ \A c \in All(lex, dict, w) : IsProposal(dict, w, c)
<1> DEFINE H == ToSet(Candidates(lex, w))
           F == Forced(dict, w)
           f == [c \in H |-> Candidate(c.word, c.distance, c.frequency, "lexicon")]
           g == [p \in F |-> Candidate(p[2], 1, MaxFrequency, "user")]
<1>1. H \subseteq Hits(lex, w) /\ IsFiniteSet(H)
  BY CandidatesMean
<1>2. IsFiniteSet(F) /\ F \subseteq dict.forced
  <2>1. F \in SUBSET dict.forced /\ IsFiniteSet(dict.forced)
    BY DEF Forced, Dictionaries, WithinBounds
  <2> QED
    BY <2>1, FS_Subset
<1>3. Proposals(lex, dict, w) = {f[c] : c \in H} \cup {g[p] : p \in F}
  BY DEF Proposals
<1>4. ASSUME NEW c \in H, c.word # w PROVE IsProposal(dict, w, f[c])
  <2>1. c \in Hits(lex, w)
    BY <1>1
  <2>2. /\ c.word \in Answers /\ c.distance \in Nat /\ c.distance # 0
        /\ c.frequency \in Frequencies
    BY <1>4, <2>1, LexiconWords DEF Hits, Raws, Answers
  <2>3. f[c] = [word |-> c.word, distance |-> c.distance, frequency |-> c.frequency,
                source |-> "lexicon"]
    BY DEF Candidate
  <2> HIDE DEF f
  <2> QED
    BY <1>4, <2>2, <2>3 DEF IsProposal, CandidateRecords, Sources
<1>5. ASSUME NEW p \in F, p[2] # w PROVE IsProposal(dict, w, g[p])
  <2>3. p \in dict.forced /\ p[2] \in Keys /\ IsValidWord(p[2])
    BY <1>2 DEF Dictionaries, Pairs
  <2>4. p[2] # <<>> /\ Len(p[2]) <= MaxPersonalWordLen
    BY <2>3 DEF IsValidWord
  <2>6. Len(p[2]) <= MaxFieldLen
    <3>1. /\ Len(p[2]) \in Nat /\ MaxPersonalWordLen \in Nat /\ MaxFieldLen \in Nat
          /\ MaxPersonalWordLen <= MaxFieldLen
      BY <2>3, EngineAssumption, WireAssumption DEF Keys
    <3> QED
      BY <2>4, <3>1
  <2>1. p[2] \in Answers /\ MaxFrequency \in Frequencies
    BY <2>3, <2>4, <2>6, FrequenciesBounded DEF Answers
  <2>2. g[p] = [word |-> p[2], distance |-> 1, frequency |-> MaxFrequency, source |-> "user"]
    BY DEF Candidate
  <2>5. p \in Forced(dict, w)
    OBVIOUS
  <2> HIDE DEF g
  <2> QED
    BY <1>5, <2>1, <2>2, <2>5 DEF IsProposal, CandidateRecords, Sources
<1>6. ASSUME NEW c \in RuleCandidates(w), c.word # w PROVE IsProposal(dict, w, c)
  <2>1. /\ w \in DOMAIN Typos
        /\ c = Candidate(Typos[w], OsaDistance(w, Typos[w]), RuleFrequency, "rule")
    BY DEF RuleCandidates
  <2>2. /\ Typos[w] \in Answers /\ OsaDistance(w, Typos[w]) = 1
        /\ RuleFrequency \in Frequencies
    BY <2>1, DecisionAssumption, EngineAssumption DEF Keys, Answers
  <2>3. c = [word |-> Typos[w], distance |-> 1, frequency |-> RuleFrequency, source |-> "rule"]
    BY <2>1, <2>2 DEF Candidate
  <2> QED
    BY <1>6, <2>1, <2>2, <2>3 DEF IsProposal, CandidateRecords, Sources, RuleFor
<1>7. IsFiniteSet(RuleCandidates(w))
  BY FS_EmptySet, FS_Singleton DEF RuleCandidates
<1>8. /\ \A c \in H : f[c].word = c.word
      /\ \A p \in F : g[p].word = p[2]
  BY DEF Candidate
<1> HIDE DEF f, g
<1>9. IsFiniteSet(RuleCandidates(w) \cup Proposals(lex, dict, w))
  <2>1. IsFiniteSet({f[c] : c \in H}) /\ IsFiniteSet({g[p] : p \in F})
    BY <1>1, <1>2, ImageIsFinite
  <2>2. IsFiniteSet({f[c] : c \in H} \cup {g[p] : p \in F})
    BY <2>1, FS_Union, Zenon
  <2>3. IsFiniteSet(Proposals(lex, dict, w))
    BY <1>3, <2>2
  <2> QED
    BY <1>7, <2>3, FS_Union, Zenon
<1>10. IsFiniteSet(All(lex, dict, w))
  <2>1. All(lex, dict, w) \in SUBSET (RuleCandidates(w) \cup Proposals(lex, dict, w))
    BY DEF All
  <2> QED
    BY <1>9, <2>1, FS_Subset
<1>11. ASSUME NEW c \in All(lex, dict, w) PROVE IsProposal(dict, w, c)
  <2>1. c.word # w /\ (c \in RuleCandidates(w) \/ c \in Proposals(lex, dict, w))
    BY DEF All
  <2>2. CASE c \in RuleCandidates(w)
    BY <1>6, <2>1, <2>2
  <2>3. CASE \E h \in H : c = f[h]
    BY <1>4, <1>8, <2>1, <2>3
  <2>4. CASE \E p \in F : c = g[p]
    BY <1>5, <1>8, <2>1, <2>4
  <2> QED
    BY <1>3, <2>1, <2>2, <2>3, <2>4
<1> QED
  BY <1>10, <1>11

\* A candidate that assemble hands on: what it says of its source is what the best of
\* the proposals of the same word said.
IsCandidate(dict, w, c) ==
  /\ c \in CandidateRecords /\ c.word # w /\ c.distance # 0
  /\ c.source = "rule" => c.word \in RuleFor(w) /\ c.distance = 1
  /\ c.source = "user" => /\ \E p \in Forced(dict, w) : c.word = p[2]
                          /\ c.distance = 1 /\ c.frequency = MaxFrequency

Assembled(lex, dict, w) == Assemble(w, Proposals(lex, dict, w))

\* One candidate per word.
IsAssembly(dict, w, A) ==
  /\ IsFiniteSet(A)
  /\ \A c \in A : IsCandidate(dict, w, c)
  /\ \A c, d \in A : c.word = d.word => c = d

\* assemble keeps one candidate per word, of the highest priority.
LEMMA AssembleMeans ==
  ASSUME NEW lex \in Lexicons, NEW dict \in Dictionaries, NEW w \in Keys
  PROVE  /\ IsAssembly(dict, w, Assembled(lex, dict, w))
         /\ \A c \in All(lex, dict, w) : \E m \in Assembled(lex, dict, w) :
              m.word = c.word /\ Priority[c.source] <= Priority[m.source]
<1> DEFINE S == All(lex, dict, w)
           twins(x) == {d \in S : d.word = x}
           f == [c \in S |-> Merged(twins(c.word))]
           A == Assembled(lex, dict, w)
<1>1. A = {f[c] : c \in S}
  BY DEF Assemble, All, Assembled
<1>2. IsFiniteSet(S) /\ \A c \in S : IsProposal(dict, w, c)
  BY AllMeans
<1>3. \A c \in S : f[c] = Merged(twins(c.word))
  OBVIOUS
<1> HIDE DEF f, A, S
<1>4. IsFiniteSet(A)
  BY <1>1, <1>2, ImageIsFinite
<1>5. ASSUME NEW c \in S PROVE MergesTo(twins(c.word), f[c])
  <2>1. /\ twins(c.word) \in SUBSET CandidateRecords /\ c \in twins(c.word)
        /\ \A d \in twins(c.word) : d.word = c.word
    BY <1>2 DEF IsProposal
  <2> HIDE DEF twins
  <2> QED
    BY <1>3, <2>1, MergedMeans
<1>6. ASSUME NEW c \in S
      PROVE  /\ IsCandidate(dict, w, f[c]) /\ f[c].word = c.word
             /\ Priority[c.source] <= Priority[f[c].source]
  <2> DEFINE m == f[c]
  <2>1. MergesTo(twins(c.word), m)
    BY <1>5
  <2>2. /\ \A d \in twins(c.word) : IsProposal(dict, w, d) /\ d.word = c.word
        /\ c \in twins(c.word)
    BY <1>2
  <2> HIDE DEF twins, m
  <2>3. /\ m \in CandidateRecords /\ m.word = c.word
        /\ Priority[c.source] <= Priority[m.source]
        /\ \A d \in twins(c.word) : m.distance <= d.distance /\ d.frequency <= m.frequency
    BY <2>1, <2>2 DEF MergesTo
  <2>4. m.distance # 0
    BY <2>1, <2>2 DEF MergesTo, IsProposal
  <2>5. PICK d \in twins(c.word) : d.source = m.source
    BY <2>1 DEF MergesTo
  <2>6. /\ IsProposal(dict, w, d) /\ d.word = m.word
        /\ m.distance <= d.distance /\ d.frequency <= m.frequency
        /\ m.distance \in Nat /\ m.frequency \in Nat /\ m.frequency <= MaxFrequency
        /\ MaxFrequency \in Nat
    BY <2>2, <2>3, FrequenciesBounded DEF CandidateRecords, Answers
  <2>7. m.word # w
    BY <2>6 DEF IsProposal
  <2>8. m.source = "rule" => m.word \in RuleFor(w) /\ d.distance = 1
    BY <2>5, <2>6 DEF IsProposal
  <2>9. m.source = "user" => /\ \E p \in Forced(dict, w) : m.word = p[2]
                             /\ d.distance = 1 /\ d.frequency = MaxFrequency
    BY <2>5, <2>6 DEF IsProposal
  <2>10. d.distance = 1 => m.distance = 1
    BY <2>4, <2>6
  <2>11. d.frequency = MaxFrequency => m.frequency = MaxFrequency
    BY <2>6
  <2> QED
    BY <2>3, <2>4, <2>7, <2>8, <2>9, <2>10, <2>11 DEF IsCandidate, m
<1>7. ASSUME NEW c \in S, NEW d \in S, f[c].word = f[d].word PROVE f[c] = f[d]
  <2>1. c.word = d.word
    BY <1>6, <1>7
  <2> QED
    BY <1>3, <2>1
<1>8. \A c, d \in A : c.word = d.word => c = d
  BY <1>1, <1>7
<1>9. \A c \in A : IsCandidate(dict, w, c)
  BY <1>1, <1>6
<1>10. \A c \in S : \E m \in A : m.word = c.word /\ Priority[c.source] <= Priority[m.source]
  BY <1>1, <1>6
<1> QED
  BY <1>4, <1>8, <1>9, <1>10 DEF IsAssembly, A, S

-----------------------------------------------------------------------------
(* The scores.                                                             *)

\* The bonus of a source, at least.
Bonus(source) ==
  IF source = "user" THEN UserBonus ELSE IF source = "rule" THEN RuleBonus ELSE 0

\* The reward of a frequency is at most the highest one.
LEMMA RewardMeans ==
  /\ \A f \in Frequencies : /\ Reward[f] \in Int /\ Reward[f] >= 0 /\ Reward[f] <= 26617
                            /\ Reward[f] <= Reward[MaxFrequency]
  /\ MaxFrequency \in Frequencies
<1>1. Reward \in [Frequencies -> 0 .. MaxReward]
  BY DecisionAssumption
<1>2. \A f \in Frequencies : f \in Nat /\ f <= MaxFrequency /\ MaxFrequency \in Frequencies
  BY FrequenciesBounded
<1>3. \A f, g \in Frequencies : f <= g => Reward[f] <= Reward[g]
  BY DecisionAssumption
<1>4. \A f \in Frequencies : /\ Reward[f] \in Int /\ Reward[f] >= 0 /\ Reward[f] <= 26617
  <2>1. \A f \in Frequencies : Reward[f] \in 0 .. MaxReward
    BY <1>1
  <2>2. MaxReward \in Int /\ MaxReward <= 26617
    BY DEF MaxReward
  <2> QED
    BY <2>1, <2>2
<1>5. \A f \in Frequencies : Reward[f] <= Reward[MaxFrequency]
  BY <1>2, <1>3
<1>6. MaxFrequency \in Frequencies
  BY FrequenciesBounded
<1> QED
  BY <1>4, <1>5, <1>6

\* The case of the text can be carried over to a word.
Restorable(text, word) == RestoreCase(text, word) # NoText

\* The bounds of a score.
LEMMA ScoreMeans ==
  ASSUME NEW text, NEW c \in CandidateRecords
  PROVE  /\ Score(text, c) \in Int
         /\ Restorable(text, c.word) =>
              LET most == 100000 * c.distance - Reward[c.frequency] - Bonus(c.source)
              IN  most - 8000 <= Score(text, c) /\ Score(text, c) <= most
<1> DEFINE r == Reward[c.frequency]
           b == CASE c.source = "rule" -> RuleBonus [] c.source = "user" -> UserBonus [] OTHER -> 0
           k == IF SingleSubstitution(Normalize(text), c.word) \cap Adjacent # {}
                THEN KeyboardBonus ELSE 0
           p == IF RestoreCase(text, c.word) = NoText THEN CasingPenalty ELSE 0
           d == c.distance
<1>1. Score(text, c) = EditCost * d - r - b - k + p
  BY DEF Score
<1>2. d \in Nat /\ r \in Int /\ c.source \in Sources
  BY RewardMeans DEF CandidateRecords, Answers
<1>3. b = Bonus(c.source) /\ b \in Int
  BY <1>2 DEF Bonus, Sources, RuleBonus, UserBonus
<1>4. k \in Int /\ 0 <= k /\ k <= 8000
  BY DEF KeyboardBonus
<1>5. p \in Int /\ (Restorable(text, c.word) => p = 0)
  BY DEF CasingPenalty, Restorable
<1> HIDE DEF r, b, k, p, d
<1>6. EditCost * d = 100000 * d
  BY DEF EditCost
<1>7. 100000 * d \in Int
  BY <1>2
<1> DEFINE e == 100000 * d
<1>8. Score(text, c) = e - r - b - k + p /\ e \in Int
  BY <1>1, <1>6, <1>7
<1> HIDE DEF e
<1>9. Score(text, c) \in Int
  BY <1>2, <1>3, <1>4, <1>5, <1>8
<1>10. Restorable(text, c.word) =>
         e - r - b - 8000 <= Score(text, c) /\ Score(text, c) <= e - r - b
  BY <1>2, <1>3, <1>4, <1>5, <1>8
<1> QED
  BY <1>3, <1>9, <1>10 DEF e, r, d

\* The candidates with their scores.
Scored(text, A) == {[candidate |-> c, score |-> Score(text, c)] : c \in A}
ScoreRecords == [candidate : CandidateRecords, score : Int]
AheadOrder == {e \in ScoreRecords \X ScoreRecords : Ahead(e[1], e[2])}

\* The candidates with their scores can be put in order.
LEMMA ScoredMeans ==
  ASSUME NEW dict, NEW w, NEW A, IsAssembly(dict, w, A), NEW text
  PROVE  /\ IsFiniteSet(Scored(text, A)) /\ Scored(text, A) \subseteq ScoreRecords
         /\ \A s \in Scored(text, A) : s.candidate \in A /\ s.score = Score(text, s.candidate)
         /\ \A c \in A : \E s \in Scored(text, A) : s.candidate = c
         /\ Orders(AheadOrder, Scored(text, A))
<1> DEFINE f == [c \in A |-> [candidate |-> c, score |-> Score(text, c)]]
           S == Scored(text, A)
<1>1. S = {f[c] : c \in A}
  BY DEF Scored
<1>2. \A c \in A : /\ f[c] = [candidate |-> c, score |-> Score(text, c)]
                   /\ f[c].candidate = c /\ f[c].score = Score(text, c)
  OBVIOUS
<1>3. \A c \in A : c \in CandidateRecords
  BY DEF IsAssembly, IsCandidate
<1>4. \A c \in A : f[c] \in ScoreRecords
  BY <1>2, <1>3, ScoreMeans DEF ScoreRecords
<1> HIDE DEF f, S
<1>13. \A s \in S : \E c \in A : s = f[c] /\ s.candidate = c /\ s.score = Score(text, c)
  <2>1. \A s \in S : \E c \in A : s = f[c]
    BY <1>1
  <2> TAKE s \in S
  <2>2. PICK c \in A : s = f[c]
    BY <2>1
  <2>3. f[c].candidate = c /\ f[c].score = Score(text, c)
    BY <1>2
  <2> QED
    BY <2>2, <2>3
<1>5. IsFiniteSet(S) /\ S \subseteq ScoreRecords
  BY <1>1, <1>4, ImageIsFinite DEF IsAssembly
<1>6. \A s \in S : s.candidate \in A /\ s.score = Score(text, s.candidate)
  BY <1>13, Zenon
<1>7. \A c \in A : \E s \in S : s.candidate = c
  BY <1>1, <1>2
<1>8. \A s \in ScoreRecords : s.score \in Int /\ s.candidate.word \in Keys
  BY DEF ScoreRecords, CandidateRecords, Answers
<1>9. \A s \in ScoreRecords : ~Ahead(s, s)
  BY <1>8, PrecedesIsAnOrder DEF Ahead
<1>10. ASSUME NEW q \in ScoreRecords, NEW s \in ScoreRecords, NEW t \in ScoreRecords,
              Ahead(q, s), Ahead(s, t)
       PROVE  Ahead(q, t)
  <2>1. /\ q.score \in Int /\ s.score \in Int /\ t.score \in Int
        /\ Precedes(q.candidate.word, s.candidate.word)
             /\ Precedes(s.candidate.word, t.candidate.word) =>
               Precedes(q.candidate.word, t.candidate.word)
    BY <1>8, PrecedesIsAnOrder
  <2> QED
    BY <1>10, <2>1 DEF Ahead
<1>11. ASSUME NEW s \in S, NEW t \in S, s # t PROVE Ahead(s, t) \/ Ahead(t, s)
  <2>1. s.candidate # t.candidate
    BY <1>11, <1>13, Zenon
  <2>2. s.candidate.word # t.candidate.word
    BY <1>6, <2>1 DEF IsAssembly
  <2>3. /\ s.score \in Int /\ t.score \in Int
        /\ s.candidate.word \in Keys /\ t.candidate.word \in Keys
    BY <1>5, <1>8
  <2>4. Precedes(s.candidate.word, t.candidate.word) \/ Precedes(t.candidate.word, s.candidate.word)
    BY <2>2, <2>3, PrecedesIsAnOrder
  <2> QED
    BY <2>3, <2>4 DEF Ahead
<1>12. Orders(AheadOrder, S)
  BY <1>5, <1>9, <1>10, <1>11 DEF Orders, AheadOrder
<1> QED
  BY <1>5, <1>6, <1>7, <1>12 DEF S

\* The ranking holds every candidate once, the lowest score first.
IsRanking(seq, text, A) ==
  /\ seq \in Seq(Scored(text, A))
  /\ \A c \in A : \E n \in 1 .. Len(seq) : seq[n].candidate = c
  /\ \A m, n \in 1 .. Len(seq) : m < n => /\ seq[m].candidate # seq[n].candidate
                                          /\ seq[m].score <= seq[n].score

\* rank lists every candidate once, and the scores do not fall.
LEMMA RankedMeans ==
  ASSUME NEW dict, NEW w, NEW A, IsAssembly(dict, w, A), NEW text
  PROVE  IsRanking(Ranked(text, A), text, A)
<1> DEFINE S == Scored(text, A)
           seq == Ranked(text, A)
           N == Cardinality(S)
<1>1. /\ IsFiniteSet(S) /\ S \subseteq ScoreRecords /\ Orders(AheadOrder, S)
      /\ \A s \in S : s.candidate \in A /\ s.score = Score(text, s.candidate)
      /\ \A c \in A : \E s \in S : s.candidate = c
  BY ScoredMeans
<1>2. seq = [n \in 1 .. N |-> CHOOSE x \in S : Cardinality({y \in S : Ahead(y, x)}) = n - 1]
  BY DEF InOrder, Ranked, Scored
<1> HIDE DEF seq, N, S
<1>3. \A x \in S : Before(AheadOrder, S, x) = {y \in S : Ahead(y, x)}
  BY <1>1 DEF Before, AheadOrder
<1>4. seq = [n \in 1 .. N |-> seq[n]]
  <2> DEFINE pick(n) == CHOOSE x \in S : Cardinality({y \in S : Ahead(y, x)}) = n - 1
  <2>1. seq = [n \in 1 .. N |-> pick(n)]
    BY <1>2
  <2> HIDE DEF pick
  <2> QED
    BY <2>1
<1>5. ASSUME NEW n \in 1 .. N, NEW x \in S, Cardinality(Before(AheadOrder, S, x)) = n - 1
      PROVE  seq[n] \in S /\ Cardinality(Before(AheadOrder, S, seq[n])) = n - 1
  <2>1. Cardinality({y \in S : Ahead(y, x)}) = n - 1
    BY <1>3, <1>5
  <2>2. seq[n] = CHOOSE z \in S : Cardinality({y \in S : Ahead(y, z)}) = n - 1
    BY <1>2
  <2>3. seq[n] \in S /\ Cardinality({y \in S : Ahead(y, seq[n])}) = n - 1
    BY <2>1, <2>2
  <2> QED
    BY <1>3, <2>3
<1>6. Picks(seq, S, AheadOrder)
  BY <1>4, <1>5 DEF Picks, N
<1>7. Lists(seq, S) /\ Sorted(seq, AheadOrder)
  BY <1>1, <1>6, Listing
<1>8. N \in Nat
  BY <1>1, FS_CardinalityType DEF N
<1>9. /\ seq \in [1 .. N -> S] /\ \A x \in S : \E n \in 1 .. N : seq[n] = x
      /\ \A m, n \in 1 .. N : seq[m] = seq[n] => m = n
  BY <1>7 DEF Lists, N
<1>10. seq \in Seq(S) /\ Len(seq) = N
  BY <1>8, <1>9
<1>11. ASSUME NEW m \in 1 .. N, NEW n \in 1 .. N, m < n
       PROVE  seq[m].candidate # seq[n].candidate /\ seq[m].score <= seq[n].score
  <2>1. /\ seq[m] \in S /\ seq[n] \in S /\ seq[m] # seq[n]
        /\ <<seq[m], seq[n]>> \in AheadOrder
    BY <1>7, <1>9, <1>11 DEF Sorted
  <2>2. /\ seq[m].score \in Int /\ seq[n].score \in Int /\ Ahead(seq[m], seq[n])
    BY <2>1 DEF AheadOrder, ScoreRecords
  <2>3. /\ seq[m].score <= seq[n].score
    BY <2>2 DEF Ahead
  <2>4. \A s \in S : s = [candidate |-> s.candidate, score |-> Score(text, s.candidate)]
    BY DEF S, Scored
  <2> QED
    BY <2>1, <2>3, <2>4
<1>12. \A c \in A : \E n \in 1 .. N : seq[n].candidate = c
  BY <1>1, <1>9
<1> QED
  BY <1>10, <1>11, <1>12 DEF IsRanking, S, seq

-----------------------------------------------------------------------------
(* The decision about a word.                                              *)

\* A text as a user types it.
IsText(t) ==
  /\ t = Text(t.symbols, t.upper)
  /\ t.symbols \in Seq(Letters \cup Marks) /\ t.upper \subseteq LetterPositions(t.symbols)

\* A shape that can be carried over to another word.
IsShaped(t) == CasePattern(t) \in {"AllLower", "Capitalized"}

\* A natural word is a key of the dictionary, and has such a shape.
LEMMA NaturalMeans ==
  ASSUME NEW t, IsText(t), NEW max, Classify(t, max) = "NaturalWord"
  PROVE  Normalize(t) \in Keys /\ Normalize(t) # <<>> /\ IsShaped(t)
<1> DEFINE s == t.symbols
           odd == {i \in DOMAIN s : /\ s[i] \notin Letters
                                    /\ s[i] = "'" => i \in {1, Len(s)}}
<1>1. s # <<>> /\ odd = {} /\ IsShaped(t)
  BY DEF Classify, IsShaped
<1>2. s \in Seq(Letters \cup Marks)
  BY DEF IsText
<1>3. \A i \in 1 .. Len(s) : s[i] \in DictionarySymbols
  BY <1>1, <1>2 DEF DictionarySymbols
<1> HIDE DEF s
<1>4. s \in Seq(DictionarySymbols)
  <2>1. Len(s) \in Nat /\ s = [i \in 1 .. Len(s) |-> s[i]]
    BY <1>2
  <2>2. s \in [1 .. Len(s) -> DictionarySymbols]
    BY <1>3, <2>1
  <2> QED
    BY <2>1, <2>2
<1> QED
  BY <1>1, <1>4 DEF Normalize, Keys, s

\* The shape is carried over to any word.
LEMMA RestoreMeans ==
  ASSUME NEW t, IsShaped(t), NEW word \in Keys \ {<<>>}
  PROVE  /\ Restorable(t, word) /\ Normalize(RestoreCase(t, word)) = word
         /\ IsText(RestoreCase(t, word))
<1> DEFINE at == LetterPositions(word)
           X == [symbols : Seq(Letters \cup Marks), upper : SUBSET Nat]
<1>1. word \in Seq(Letters \cup Marks)
  <2>1. DictionarySymbols \subseteq Letters \cup Marks
    BY DEF DictionarySymbols, Marks
  <2>2. word \in Seq(DictionarySymbols)
    BY DEF Keys
  <2>3. \A i \in 1 .. Len(word) : word[i] \in Letters \cup Marks
    BY <2>1, <2>2
  <2>4. Len(word) \in Nat /\ word = [i \in 1 .. Len(word) |-> word[i]]
    BY <2>2
  <2>5. word \in [1 .. Len(word) -> Letters \cup Marks]
    BY <2>3, <2>4
  <2> QED
    BY <2>4, <2>5
<1>2. at \in SUBSET Nat
  BY <1>1 DEF LetterPositions
<1>3. NoText \notin X
  BY WordsAssumption
<1>4. CasePattern(t) = "AllLower" => RestoreCase(t, word) = Text(word, {})
  BY DEF RestoreCase
<1>5. CasePattern(t) = "Capitalized" => RestoreCase(t, word) = Text(word, at \cap {1})
  BY DEF RestoreCase
<1>6. PICK upper \in SUBSET at : RestoreCase(t, word) = Text(word, upper)
  BY <1>4, <1>5 DEF IsShaped
<1>7. Text(word, upper) \in X
  BY <1>1, <1>2 DEF Text
<1> QED
  BY <1>1, <1>3, <1>6, <1>7 DEF Restorable, Normalize, IsText, Text

\* The first of the ranking is the best of the candidates.
LEMMA TopMeans ==
  ASSUME NEW dict, NEW w, NEW A, IsAssembly(dict, w, A), NEW text
  PROVE  LET seq == Ranked(text, A)
         IN  /\ Len(seq) \in Nat /\ (seq = <<>> <=> Len(seq) = 0)
             /\ A # {} => seq # <<>>
             /\ seq # <<>> => /\ seq[1].candidate \in A
                              /\ \A c \in A : Score(text, seq[1].candidate) <= Score(text, c)
             /\ \A i \in DOMAIN seq :
                  /\ seq[i].candidate \in A /\ seq[i].score = Score(text, seq[i].candidate)
                  /\ i # 1 => seq[i].candidate # seq[1].candidate
<1> DEFINE seq == Ranked(text, A)
           S == Scored(text, A)
<1>1. IsRanking(seq, text, A)
  BY RankedMeans
<1>2. /\ S \subseteq ScoreRecords
      /\ \A s \in S : s.candidate \in A /\ s.score = Score(text, s.candidate)
  BY ScoredMeans
<1> HIDE DEF seq, S
<1>3. /\ seq \in Seq(S)
      /\ \A c \in A : \E n \in 1 .. Len(seq) : seq[n].candidate = c
      /\ \A m, n \in 1 .. Len(seq) : m < n => /\ seq[m].candidate # seq[n].candidate
                                              /\ seq[m].score <= seq[n].score
  BY <1>1 DEF IsRanking, S
<1>4. /\ Len(seq) \in Nat /\ DOMAIN seq = 1 .. Len(seq) /\ (seq = <<>> <=> Len(seq) = 0)
      /\ \A i \in 1 .. Len(seq) : seq[i] \in S
  BY <1>3
<1>5. A # {} => seq # <<>>
  BY <1>3, <1>4
<1>6. \A i \in 1 .. Len(seq) : /\ seq[i].candidate \in A
                               /\ seq[i].score = Score(text, seq[i].candidate)
                               /\ seq[i].score \in Int
  BY <1>2, <1>4 DEF ScoreRecords
<1>7. ASSUME seq # <<>>, NEW c \in A PROVE Score(text, seq[1].candidate) <= Score(text, c)
  <2>1. 1 \in 1 .. Len(seq)
    BY <1>4, <1>7
  <2>2. PICK n \in 1 .. Len(seq) : seq[n].candidate = c
    BY <1>3
  <2>3. seq[1].score <= seq[n].score
    <3>1. CASE n = 1
      BY <1>6, <2>1, <3>1
    <3>2. CASE n # 1
      BY <1>3, <1>4, <2>1, <2>2, <3>2
    <3> QED
      BY <3>1, <3>2
  <2> QED
    BY <1>6, <2>1, <2>2, <2>3
<1>8. ASSUME NEW i \in 1 .. Len(seq), i # 1 PROVE seq[i].candidate # seq[1].candidate
  BY <1>3, <1>4, <1>8
<1>9. seq # <<>> => seq[1].candidate \in A
  BY <1>4, <1>6
<1> QED
  BY <1>4, <1>5, <1>6, <1>7, <1>8, <1>9 DEF seq

\* The first of a ranking stands out.
StandsOut(seq) ==
  /\ seq[1].score <= MaxAutoScore
  /\ Len(seq) > 1 => seq[2].score - seq[1].score >= MinMargin \/ Dominates(seq)

\* A correction is the first of the ranking, in the case of the text, and stands out.
LEMMA CorrectionMeans ==
  ASSUME NEW text, NEW seq, Decide(text, seq).kind = "AutoCorrect", seq[1].score \in Int
  PROVE  /\ seq # <<>> /\ Decide(text, seq).text = RestoreCase(text, seq[1].candidate.word)
         /\ StandsOut(seq)
<1> DEFINE top == seq[1]
           source == top.candidate.source
           replacement == RestoreCase(text, top.candidate.word)
           margin == Len(seq) > 1 => \/ seq[2].score - top.score >= MinMargin
                                     \/ Dominates(seq)
<1>1. /\ \A reason : Ignore(reason).kind = "Ignore"
      /\ \A reason, t, s : Suggest(reason, t, s).kind = "Suggest"
      /\ \A t, s : AutoCorrect(t, s).text = t
  BY DEF Ignore, Suggest, AutoCorrect
<1>2. seq # <<>>
  BY <1>1 DEF Decide
<1>3. Decide(text, seq) =
        CASE replacement = NoText -> Ignore("CasingMismatch")
          [] replacement # NoText /\ top.score > MaxSuggestScore -> Ignore("LowConfidence")
          [] replacement # NoText /\ top.score \in MaxAutoScore + 1 .. MaxSuggestScore ->
               Suggest("BelowAutoThreshold", replacement, source)
          [] replacement # NoText /\ top.score <= MaxAutoScore /\ ~margin ->
               Suggest("AmbiguousMargin", replacement, source)
          [] replacement # NoText /\ top.score <= MaxAutoScore /\ margin ->
               AutoCorrect(replacement, source)
  BY <1>2 DEF Decide
<1> DEFINE a == MaxAutoScore
           b == MaxSuggestScore
<1>4. a \in Int /\ b \in Int /\ a <= b /\ MaxAutoScore = a /\ MaxSuggestScore = b
  BY DEF MaxAutoScore, MaxSuggestScore
<1> HIDE DEF a, b, margin, replacement, source
<1>5. \/ replacement = NoText
      \/ replacement # NoText /\ top.score > b
      \/ replacement # NoText /\ top.score \in a + 1 .. b
      \/ replacement # NoText /\ top.score <= a /\ ~margin
      \/ replacement # NoText /\ top.score <= a /\ margin
  BY <1>4
<1>6. \/ Decide(text, seq) = Ignore("CasingMismatch")
      \/ Decide(text, seq) = Ignore("LowConfidence")
      \/ Decide(text, seq) = Suggest("BelowAutoThreshold", replacement, source)
      \/ Decide(text, seq) = Suggest("AmbiguousMargin", replacement, source)
      \/ /\ Decide(text, seq) = AutoCorrect(replacement, source)
         /\ top.score <= MaxAutoScore /\ margin
  BY <1>3, <1>4, <1>5
<1>7. /\ Decide(text, seq) = AutoCorrect(replacement, source)
      /\ top.score <= MaxAutoScore /\ margin
  BY <1>1, <1>6
<1>8. StandsOut(seq)
  BY <1>7 DEF StandsOut, margin
<1> QED
  BY <1>1, <1>2, <1>7, <1>8 DEF replacement

\* Evaluate of a word, by the words of the dictionary and the pairs of the user.
LEMMA DecisionMeans ==
  ASSUME NEW lex, NEW dict, NEW text, NEW class, NEW late \in BOOLEAN
  PROVE  LET w == Normalize(text)
             A == Assembled(lex, dict, w)
             decision == EngineDecide(lex, dict, text, class, late)
             known == IsKnown(lex, dict, w)
             asked == \E c \in A : c.source \in {"rule", "user"}
         IN  /\ decision.kind = "AutoCorrect" =>
                  /\ ~late /\ class = "NaturalWord" /\ (known => asked)
                  /\ decision = Decide(text, Ranked(text, A))
             /\ ~late /\ class = "NaturalWord" /\ (known => asked) =>
                  decision = Decide(text, Ranked(text, A))
<1> DEFINE w == Normalize(text)
           A == Assembled(lex, dict, w)
           decision == EngineDecide(lex, dict, text, class, late)
           known == IsKnown(lex, dict, w)
           asked == \E c \in A : c.source \in {"rule", "user"}
<1>1. (\A reason : Ignore(reason).kind = "Ignore") /\ Known.kind = "Known"
  BY DEF Ignore, Known
<1>2. decision = IF late THEN Ignore("DeadlineExceeded")
                 ELSE Evaluate(text, class, known, Proposals(lex, dict, w))
  BY DEF EngineDecide, Proposals
<1>3. Evaluate(text, class, known, Proposals(lex, dict, w)) =
        IF class # "NaturalWord" THEN Ignore("NotEligible")
        ELSE IF known /\ ~asked THEN Known
        ELSE Decide(text, Ranked(text, A))
  BY DEF Evaluate, Assembled
<1> HIDE DEF decision, known, asked, A, w
<1>4. decision.kind = "AutoCorrect" =>
        /\ ~late /\ class = "NaturalWord" /\ (known => asked)
        /\ decision = Decide(text, Ranked(text, A))
  BY <1>1, <1>2, <1>3
<1>5. ~late /\ class = "NaturalWord" /\ (known => asked) =>
        decision = Decide(text, Ranked(text, A))
  BY <1>2, <1>3
<1> QED
  BY <1>4, <1>5 DEF decision, known, asked, A, w

\* The scores that an assembled candidate can have.
LEMMA CandidateScores ==
  ASSUME NEW dict, NEW w, NEW A, IsAssembly(dict, w, A), NEW text, IsShaped(text), NEW c \in A
  PROVE  LET high == Reward[MaxFrequency] IN
         /\ Score(text, c) \in Int /\ high \in Int /\ 0 <= high /\ high <= 26617
         /\ c.source \in Sources
         /\ c.source = "lexicon" => 100000 - high - 8000 <= Score(text, c)
         /\ c.source = "rule" => 40000 - high - 8000 <= Score(text, c) /\ Score(text, c) <= 40000
         /\ c.source = "user" => Score(text, c) <= -100000 - high
<1> DEFINE high == Reward[MaxFrequency]
           r == Reward[c.frequency]
           d == c.distance
           most == 100000 * d - r - Bonus(c.source)
<1>1. IsCandidate(dict, w, c) /\ c \in CandidateRecords
  BY DEF IsAssembly, IsCandidate
<1>2. /\ d \in Nat /\ d # 0 /\ c.word \in Keys \ {<<>>} /\ c.frequency \in Frequencies
      /\ c.source \in Sources
  BY <1>1 DEF IsCandidate, CandidateRecords, Answers
<1>3. /\ high \in Int /\ 0 <= high /\ high <= 26617
      /\ r \in Int /\ 0 <= r /\ r <= high
  BY <1>2, RewardMeans
<1>4. /\ Score(text, c) \in Int /\ most - 8000 <= Score(text, c) /\ Score(text, c) <= most
  BY <1>1, <1>2, RestoreMeans, ScoreMeans
<1>5. /\ c.source = "lexicon" => Bonus(c.source) = 0
      /\ c.source = "rule" => Bonus(c.source) = 60000 /\ d = 1
      /\ c.source = "user" => Bonus(c.source) = 200000 /\ d = 1 /\ r = high
  BY <1>1 DEF IsCandidate, Bonus, RuleBonus, UserBonus
<1> DEFINE s == Score(text, c)
           b == Bonus(c.source)
<1> HIDE DEF high, r, d, s, b
<1>6. s \in Int /\ 100000 * d - r - b - 8000 <= s /\ s <= 100000 * d - r - b
  BY <1>4 DEF s, b
<1>7. c.source = "lexicon" => 100000 - high - 8000 <= s
  BY <1>2, <1>3, <1>5, <1>6 DEF b
<1>8. c.source = "rule" => 40000 - high - 8000 <= s /\ s <= 40000
  BY <1>2, <1>3, <1>5, <1>6 DEF b
<1>9. c.source = "user" => s <= -100000 - high
  BY <1>2, <1>3, <1>5, <1>6 DEF b
<1> QED
  BY <1>2, <1>3, <1>6, <1>7, <1>8, <1>9 DEF high, s

\* A rule or a pair of the user comes before the words of the dictionary.
LEMMA OverridesWin ==
  ASSUME NEW dict, NEW w, NEW A, IsAssembly(dict, w, A), NEW text, IsShaped(text),
         NEW c \in A, c.source \in {"rule", "user"},
         NEW top \in A, Score(text, top) <= Score(text, c)
  PROVE  top.source \in {"rule", "user"}
<1> DEFINE high == Reward[MaxFrequency]
<1>1. /\ high \in Int /\ 0 <= high /\ high <= 26617
      /\ Score(text, c) \in Int /\ Score(text, c) <= 40000
  BY CandidateScores
<1>2. /\ Score(text, top) \in Int /\ top.source \in Sources
      /\ top.source = "lexicon" => 100000 - high - 8000 <= Score(text, top)
  BY CandidateScores
<1> HIDE DEF high
<1>3. top.source # "lexicon"
  BY <1>1, <1>2
<1> QED
  BY <1>2, <1>3 DEF Sources

\* The only pair of the user comes first, by more than the margin.
LEMMA PairWins ==
  ASSUME NEW dict, NEW w, NEW A, IsAssembly(dict, w, A), NEW text, IsShaped(text),
         NEW m \in A, m.source = "user", \A c \in A : c # m => c.source # "user"
  PROVE  Decide(text, Ranked(text, A)) = AutoCorrect(RestoreCase(text, m.word), "user")
<1> DEFINE high == Reward[MaxFrequency]
           seq == Ranked(text, A)
<1>1. /\ high \in Int /\ 0 <= high /\ high <= 26617
      /\ Score(text, m) \in Int /\ Score(text, m) <= -100000 - high
  BY CandidateScores
<1>2. ASSUME NEW c \in A, c # m
      PROVE  Score(text, c) \in Int /\ 32000 - high <= Score(text, c)
  <2>1. /\ Score(text, c) \in Int
        /\ 100000 - high - 8000 <= Score(text, c) \/ 40000 - high - 8000 <= Score(text, c)
    BY <1>2, CandidateScores DEF Sources
  <2> HIDE DEF high
  <2> QED
    BY <1>1, <2>1
<1>3. /\ Len(seq) \in Nat /\ (seq = <<>> <=> Len(seq) = 0) /\ seq # <<>>
      /\ seq[1].candidate \in A
      /\ \A c \in A : Score(text, seq[1].candidate) <= Score(text, c)
      /\ \A i \in DOMAIN seq :
           /\ seq[i].candidate \in A /\ seq[i].score = Score(text, seq[i].candidate)
           /\ i # 1 => seq[i].candidate # seq[1].candidate
  BY TopMeans
<1>4. seq \in Seq(Scored(text, A))
  BY RankedMeans DEF IsRanking
<1>5. DOMAIN seq = 1 .. Len(seq) /\ 1 \in DOMAIN seq
  BY <1>3, <1>4
<1> HIDE DEF high, seq
<1>6. seq[1].candidate = m
  <2>1. Score(text, seq[1].candidate) <= Score(text, m)
    BY <1>3
  <2> DEFINE c == seq[1].candidate
  <2>2. c \in A
    BY <1>3
  <2> HIDE DEF c
  <2>3. c # m => Score(text, c) \in Int /\ 32000 - high <= Score(text, c)
    BY <1>2, <2>2
  <2>4. Score(text, c) <= Score(text, m)
    BY <2>1 DEF c
  <2>5. c = m
    BY <1>1, <2>3, <2>4
  <2> QED
    BY <2>5 DEF c
<1>7. seq[1].score = Score(text, m)
  BY <1>3, <1>5, <1>6
<1>8. Len(seq) > 1 => seq[2].score - seq[1].score >= MinMargin
  <2>1. SUFFICES ASSUME Len(seq) > 1 PROVE seq[2].score - seq[1].score >= MinMargin
    OBVIOUS
  <2>2. 2 \in DOMAIN seq
    BY <1>3, <1>5, <2>1
  <2>3. /\ seq[2].candidate \in A /\ seq[2].candidate # m
        /\ seq[2].score = Score(text, seq[2].candidate)
    BY <1>3, <1>6, <2>2
  <2>4. seq[2].score \in Int /\ 32000 - high <= seq[2].score
    BY <1>2, <2>3
  <2>5. seq[2].score - seq[1].score >= 132000
    BY <1>1, <1>7, <2>4
  <2> QED
    BY <1>1, <1>7, <2>4, <2>5 DEF MinMargin
<1>9. m.word \in Keys \ {<<>>}
  BY DEF IsAssembly, IsCandidate, CandidateRecords, Answers
<1>10. RestoreCase(text, m.word) # NoText
  BY <1>9, RestoreMeans DEF Restorable
<1>11. seq[1].score <= MaxAutoScore /\ ~(seq[1].score > MaxSuggestScore)
       /\ seq[1].score \notin MaxAutoScore + 1 .. MaxSuggestScore
  <2> DEFINE a == MaxAutoScore
             b == MaxSuggestScore
  <2>1. a \in Int /\ b \in Int /\ 0 <= a /\ a <= b
    BY DEF MaxAutoScore, MaxSuggestScore
  <2> HIDE DEF a, b
  <2>2. seq[1].score \in Int /\ seq[1].score <= 0
    BY <1>1, <1>7
  <2>3. seq[1].score <= a /\ ~(seq[1].score > b) /\ seq[1].score \notin a + 1 .. b
    BY <2>1, <2>2
  <2> QED
    BY <2>3 DEF a, b
<1> DEFINE replacement == RestoreCase(text, seq[1].candidate.word)
           source == seq[1].candidate.source
           margin == Len(seq) > 1 => \/ seq[2].score - seq[1].score >= MinMargin
                                     \/ Dominates(seq)
<1>12. replacement = RestoreCase(text, m.word) /\ source = "user" /\ margin
  BY <1>6, <1>8
<1>13. Decide(text, seq) =
        CASE replacement = NoText -> Ignore("CasingMismatch")
          [] replacement # NoText /\ seq[1].score > MaxSuggestScore -> Ignore("LowConfidence")
          [] replacement # NoText /\ seq[1].score \in MaxAutoScore + 1 .. MaxSuggestScore ->
               Suggest("BelowAutoThreshold", replacement, source)
          [] replacement # NoText /\ seq[1].score <= MaxAutoScore /\ ~margin ->
               Suggest("AmbiguousMargin", replacement, source)
          [] replacement # NoText /\ seq[1].score <= MaxAutoScore /\ margin ->
               AutoCorrect(replacement, source)
  BY <1>3 DEF Decide
<1> HIDE DEF replacement, source, margin
<1>14. Decide(text, seq) = AutoCorrect(replacement, source)
  BY <1>10, <1>11, <1>12, <1>13
<1> QED
  BY <1>12, <1>14 DEF seq

-----------------------------------------------------------------------------
(* A text on the wire.                                                     *)

\* The octets of one symbol.
Octet(t, i) == <<t.symbols[i], i \in t.upper>>
Lead == <<"lead", FALSE>>
Tail2 == <<"tail", FALSE>>
Piece(t, i) == IF t.symbols[i] = "non-ascii" THEN <<Lead, Tail2>> ELSE <<Octet(t, i)>>

Symbols == Letters \cup Marks

\* The values of the octets.
Values(t) == {Octet(t, i) : i \in DOMAIN t.symbols} \cup {Lead, Tail2}

\* A symbol is one octet, and two outside of ASCII.
LEMMA PieceMeans ==
  ASSUME NEW t, t.symbols \in Seq(Symbols), NEW i \in 1 .. Len(t.symbols)
  PROVE  /\ Piece(t, i) \in Seq(Values(t))
         /\ t.symbols[i] = "non-ascii" => Len(Piece(t, i)) = 2 /\ Piece(t, i)[1] = Lead
         /\ t.symbols[i] # "non-ascii" =>
              /\ Len(Piece(t, i)) = 1 /\ Piece(t, i)[1] = Octet(t, i)
              /\ Octet(t, i) \in Values(t)
<1>1. {Octet(t, i), Lead, Tail2} \subseteq Values(t)
  BY DEF Values
<1>2. Piece(t, i) = <<Lead, Tail2>> \/ Piece(t, i) = <<Octet(t, i)>>
  BY DEF Piece
<1> QED
  BY <1>1, <1>2 DEF Piece

\* The octets of a text are those of its symbols, one after another.
LEMMA OctetsRun ==
  ASSUME NEW t, t.symbols \in Seq(Symbols)
  PROVE  /\ t.symbols = <<>> => Octets(t) = <<>>
         /\ t.symbols # <<>> =>
              \E acc : /\ Concatenates(acc, Len(t.symbols), Values(t),
                                       [i \in 1 .. Len(t.symbols) |-> Piece(t, i)])
                       /\ Octets(t) = acc[Len(t.symbols)]
<1> DEFINE s == t.symbols
           n == Len(s)
           seqs == [i \in 1 .. n |-> Piece(t, i)]
<1>1. n \in Nat /\ DOMAIN s = 1 .. n /\ (s = <<>> <=> n = 0)
  OBVIOUS
<1>2. Octets(t) = FlattenSeq(seqs)
  BY <1>1 DEF Octets, Piece, Octet, Lead, Tail2
<1>3. CASE s = <<>>
  <2>1. seqs = <<>>
    BY <1>1, <1>3
  <2> HIDE DEF seqs
  <2>2. Len(seqs) = 0
    BY <2>1
  <2>3. FlattenSeq(seqs) = seqs
    BY <2>2 DEF FlattenSeq
  <2> QED
    BY <1>2, <1>3, <2>1, <2>3
<1>4. CASE s # <<>>
  <2>1. \A i \in 1 .. n : Piece(t, i) \in Seq(Values(t))
    BY PieceMeans
  <2>2. seqs \in [1 .. n -> Seq(Values(t))]
    BY <2>1
  <2>3. \E acc : Concatenates(acc, n, Values(t), seqs) /\ FlattenSeq(seqs) = acc[n]
    <3> HIDE DEF seqs, n
    <3> DEFINE V == Values(t)
    <3>1. n # 0 /\ n \in Nat
      BY <1>1, <1>4
    <3>2. seqs \in [1 .. n -> Seq(V)]
      BY <2>2
    <3> HIDE DEF V
    <3>3. \E acc : Concatenates(acc, n, V, seqs) /\ FlattenSeq(seqs) = acc[n]
      BY <3>1, <3>2, FlattenRun
    <3> QED
      BY <3>3 DEF V
  <2> QED
    BY <1>2, <1>4, <2>3
<1> QED
  BY <1>3, <1>4

\* The octets are octets.
LEMMA OctetsType ==
  ASSUME NEW t, t.symbols \in Seq(Symbols)
  PROVE  Octets(t) \in Seq(Values(t))
<1>1. CASE t.symbols = <<>>
  <2>1. Octets(t) = <<>>
    BY <1>1, OctetsRun
  <2> QED
    BY <2>1
<1>2. CASE t.symbols # <<>>
  <2> DEFINE n == Len(t.symbols)
             seqs == [i \in 1 .. n |-> Piece(t, i)]
             V == Values(t)
  <2>1. n \in Nat /\ n \in 0 .. n
    OBVIOUS
  <2>2. PICK acc : Concatenates(acc, n, V, seqs) /\ Octets(t) = acc[n]
    BY <1>2, OctetsRun
  <2> HIDE DEF n, seqs, V
  <2>3. acc[n] \in Seq(V)
    BY <2>1, <2>2 DEF Concatenates
  <2> QED
    BY <2>2, <2>3 DEF V
<1> QED
  BY <1>1, <1>2

\* A text of ASCII characters.
IsPlain(t) ==
  /\ t.symbols \in Seq(Symbols)
  /\ \A i \in 1 .. Len(t.symbols) : t.symbols[i] # "non-ascii"

\* An ASCII character is one octet.
LEMMA PlainOctets ==
  ASSUME NEW t, IsPlain(t)
  PROVE  /\ Octets(t) \in Seq(Values(t)) /\ Len(Octets(t)) = Len(t.symbols)
         /\ \A i \in 1 .. Len(t.symbols) : Octets(t)[i] = Octet(t, i)
<1> DEFINE s == t.symbols
           n == Len(s)
           V == Values(t)
           e(i) == Octet(t, i)
           seqs == [i \in 1 .. n |-> Piece(t, i)]
<1>1. /\ s \in Seq(Symbols) /\ n \in Nat /\ (s = <<>> <=> n = 0)
      /\ \A i \in 1 .. n : seqs[i] = Piece(t, i) /\ s[i] # "non-ascii"
  BY DEF IsPlain
<1>5. \A i \in 1 .. n : /\ seqs[i] \in Seq(V) /\ Len(seqs[i]) = 1 /\ seqs[i][1] = e(i)
  <2> TAKE i \in 1 .. n
  <2>1. /\ Piece(t, i) \in Seq(V) /\ Len(Piece(t, i)) = 1 /\ Piece(t, i)[1] = e(i)
    BY <1>1, PieceMeans
  <2> QED
    BY <1>1, <2>1
<1>2. Octets(t) \in Seq(V)
  BY <1>1, OctetsType
<1>3. CASE s = <<>>
  <2>1. Octets(t) = <<>>
    BY <1>1, <1>3, OctetsRun
  <2> HIDE DEF V
  <2> QED
    BY <1>1, <1>2, <1>3, <2>1
<1>4. CASE s # <<>>
  <2>1. PICK acc : Concatenates(acc, n, V, seqs) /\ Octets(t) = acc[n]
    BY <1>1, <1>4, OctetsRun
  <2> HIDE DEF e, V, seqs, n, s
  <2> DEFINE T == {k \in 0 .. n : Len(acc[k]) = k /\ \A i \in 1 .. k : acc[k][i] = e(i)}
  <2>3. 0 \in T
    BY <1>1, <2>1 DEF Concatenates
  <2>4. ASSUME NEW k \in 0 .. n - 1, k \in T PROVE k + 1 \in T
    <3>1. /\ k + 1 \in 1 .. n /\ (k + 1) - 1 = k /\ k \in 0 .. n /\ k \in Nat
          /\ Len(acc[k]) = k /\ \A i \in 1 .. k : acc[k][i] = e(i)
      BY <1>1, <2>4
    <3> DEFINE one == seqs[k + 1]
               a == acc[k]
    <3>2. a \in Seq(V) /\ acc[k + 1] = Joined(a, one)
      BY <1>1, <2>1, <3>1 DEF Concatenates
    <3>3. one \in Seq(V) /\ Len(one) = 1 /\ one[1] = e(k + 1)
      BY <1>5, <3>1
    <3>8. Len(a) = k /\ \A i \in 1 .. k : a[i] = e(i)
      BY <3>1
    <3> HIDE DEF one, a
    <3>4. /\ Len(Joined(a, one)) = k + 1
          /\ \A i \in 1 .. k : Joined(a, one)[i] = a[i]
          /\ Joined(a, one)[k + 1] = one[1]
      <4>1. /\ Len(Joined(a, one)) = Len(a) + Len(one)
            /\ \A i \in 1 .. Len(a) : Joined(a, one)[i] = a[i]
            /\ \A i \in 1 .. Len(one) : Joined(a, one)[Len(a) + i] = one[i]
        <5>1. IsJoin(Joined(a, one), a, one)
          BY <3>2, <3>3, JoinedMeans
        <5> QED
          BY <5>1 DEF IsJoin
      <4>2. 1 \in 1 .. Len(one)
        BY <3>3
      <4> QED
        BY <3>3, <3>8, <4>1, <4>2
    <3>5. \A i \in 1 .. k + 1 : i \in 1 .. k \/ i = k + 1
      BY <3>1
    <3>7. Len(acc[k + 1]) = k + 1 /\ \A i \in 1 .. k + 1 : acc[k + 1][i] = e(i)
      BY <3>2, <3>3, <3>4, <3>5, <3>8
    <3> QED
      BY <3>1, <3>7
  <2> HIDE DEF T
  <2>5. 0 .. n \subseteq T
    BY <1>1, <2>3, <2>4, BoundedInduction
  <2>6. n \in T
    BY <1>1, <2>5
  <2>7. Len(acc[n]) = n /\ \A i \in 1 .. n : acc[n][i] = e(i)
    BY <2>6 DEF T
  <2> QED
    BY <1>2, <2>1, <2>7 DEF e, V, n, s
<1> QED
  BY <1>3, <1>4

\* Another character leaves a lead.
LEMMA OtherOctets ==
  ASSUME NEW t, t.symbols \in Seq(Symbols), ~IsPlain(t)
  PROVE  \E j \in 1 .. Len(Octets(t)) : Octets(t)[j] = Lead
<1> DEFINE s == t.symbols
           n == Len(s)
           V == Values(t)
           seqs == [i \in 1 .. n |-> Piece(t, i)]
<1>1. PICK j \in 1 .. n : s[j] = "non-ascii"
  BY DEF IsPlain
<1>2. n \in Nat /\ s # <<>> /\ \A i \in 1 .. n : seqs[i] = Piece(t, i)
  BY <1>1
<1>3. PICK acc : Concatenates(acc, n, V, seqs) /\ Octets(t) = acc[n]
  BY <1>2, OctetsRun
<1>4. Len(seqs[j]) = 2 /\ seqs[j][1] = Lead
  <2>1. Len(Piece(t, j)) = 2 /\ Piece(t, j)[1] = Lead
    BY <1>1, PieceMeans
  <2> QED
    BY <1>2, <2>1
<1>6. \A k \in 1 .. n : seqs[k] \in Seq(V)
  <2> TAKE k \in 1 .. n
  <2>1. Piece(t, k) \in Seq(V)
    BY PieceMeans
  <2> QED
    BY <1>2, <2>1
<1> HIDE DEF V, seqs, n, s
<1> DEFINE Has(q) == \E i \in 1 .. Len(q) : q[i] = Lead
           T == {k \in 0 .. n : j <= k => Has(acc[k])}
<1>5. \A k \in 1 .. n : /\ acc[k - 1] \in Seq(V) /\ acc[k] \in Seq(V)
                        /\ acc[k] = Joined(acc[k - 1], seqs[k])
  BY <1>2, <1>3 DEF Concatenates
<1>7. 0 \in T
  BY <1>1, <1>2
<1>8. ASSUME NEW k \in 0 .. n - 1, k \in T PROVE k + 1 \in T
  <2>1. k + 1 \in 1 .. n /\ (k + 1) - 1 = k /\ k \in Nat
    BY <1>2
  <2> DEFINE a == acc[k]
             b == seqs[k + 1]
  <2>2. a \in Seq(V) /\ b \in Seq(V) /\ acc[k + 1] = Joined(a, b)
    BY <1>5, <1>6, <2>1
  <2>3. b = seqs[k + 1] /\ (k + 1 = j => Len(b) = 2 /\ b[1] = Lead)
    BY <1>4
  <2>4. j <= k => Has(a)
    BY <1>8
  <2> HIDE DEF a, b
  <2>5. /\ Len(a) \in Nat /\ Len(b) \in Nat /\ Len(Joined(a, b)) = Len(a) + Len(b)
        /\ \A i \in 1 .. Len(a) : Joined(a, b)[i] = a[i]
        /\ \A i \in 1 .. Len(b) : Joined(a, b)[Len(a) + i] = b[i]
    <3>1. IsJoin(Joined(a, b), a, b)
      BY <2>2, JoinedMeans
    <3>2. Len(a) \in Nat /\ Len(b) \in Nat
      BY <2>2
    <3> QED
      BY <3>1, <3>2 DEF IsJoin
  <2>6. CASE j <= k
    <3>1. PICK i \in 1 .. Len(a) : a[i] = Lead
      BY <2>4, <2>6
    <3>2. i \in 1 .. Len(acc[k + 1]) /\ acc[k + 1][i] = Lead
      BY <2>2, <2>5, <3>1
    <3> QED
      BY <2>1, <3>2
  <2>7. CASE k + 1 = j
    <3>1. 1 \in 1 .. Len(b) /\ b[1] = Lead
      BY <2>3, <2>7
    <3>2. Len(a) + 1 \in 1 .. Len(acc[k + 1]) /\ acc[k + 1][Len(a) + 1] = Lead
      BY <2>2, <2>5, <3>1
    <3> QED
      BY <2>1, <3>2
  <2>8. CASE k + 1 < j
    BY <2>1, <2>8
  <2> QED
    BY <1>1, <2>1, <2>6, <2>7, <2>8
<1> HIDE DEF T
<1>9. 0 .. n \subseteq T
  BY <1>2, <1>7, <1>8, BoundedInduction
<1>10. n \in T /\ j <= n
  BY <1>1, <1>2, <1>9
<1>11. Has(acc[n])
  BY <1>10 DEF T
<1> QED
  BY <1>3, <1>11 DEF n, s

\* What follows a tail is kept.
LEMMA DecodedMeans ==
  ASSUME NEW V, NEW chars \in Seq(V), NEW octet \in V
  PROVE  /\ Decoded(chars, octet) \in Seq(V)
         /\ \A i \in 1 .. Len(chars) : /\ i \in 1 .. Len(Decoded(chars, octet))
                                       /\ Decoded(chars, octet)[i] = chars[i]
         /\ octet[1] # "tail" => /\ Len(Decoded(chars, octet)) = Len(chars) + 1
                                 /\ Decoded(chars, octet)[Len(chars) + 1] = octet
<1>1. CASE octet[1] = "tail"
  BY <1>1 DEF Decoded
<1>2. CASE octet[1] # "tail"
  <2>1. Decoded(chars, octet) = Append(chars, octet)
    BY <1>2 DEF Decoded
  <2>2. /\ Append(chars, octet) \in Seq(V) /\ Len(Append(chars, octet)) = Len(chars) + 1
        /\ \A i \in 1 .. Len(chars) : Append(chars, octet)[i] = chars[i]
        /\ Append(chars, octet)[Len(chars) + 1] = octet
    BY AppendProperties
  <2>3. Len(chars) \in Nat
    OBVIOUS
  <2> QED
    BY <2>1, <2>2, <2>3
<1> QED
  BY <1>1, <1>2

\* The characters of a sequence of octets.
LEMMA DecodingRun ==
  ASSUME NEW V, NEW octets \in Seq(V)
  PROVE  \E acc : IsDecoding(acc, Len(octets), Seq(V), <<>>, octets)
<1> DEFINE n == Len(octets)
           W == Seq(V)
<1>1. n \in Nat /\ DOMAIN octets = 1 .. n /\ \A i \in 1 .. n : octets[i] \in V
  OBVIOUS
<1>2. <<>> \in W /\ \A v \in W, i \in 1 .. n : Decoded(v, octets[i]) \in W
  BY <1>1, DecodedMeans
<1> HIDE DEF n, W
<1>3. \E acc : IsDecoding(acc, n, W, <<>>, octets)
  BY <1>1, <1>2, DecodedFold
<1> QED
  BY <1>3 DEF n, W

\* Without a tail they are the octets.
LEMMA DecodedPlain ==
  ASSUME NEW V, NEW octets \in Seq(V), \A i \in 1 .. Len(octets) : octets[i][1] # "tail"
  PROVE  DecodedRun(<<>>, octets) = octets
<1> DEFINE n == Len(octets)
<1>1. n \in Nat /\ DOMAIN octets = 1 .. n
      /\ \A i \in 1 .. n : octets[i] \in V /\ octets[i][1] # "tail"
  OBVIOUS
<1>2. PICK acc : IsDecoding(acc, n, Seq(V), <<>>, octets)
  BY DecodingRun
<1> HIDE DEF n
<1> DEFINE T == {k \in 0 .. n : Len(acc[k]) = k /\ \A i \in 1 .. k : acc[k][i] = octets[i]}
<1>3. 0 \in T
  BY <1>1, <1>2 DEF IsDecoding
<1>4. ASSUME NEW k \in 0 .. n - 1, k \in T PROVE k + 1 \in T
  <2> DEFINE a == acc[k]
             o == octets[k + 1]
  <2>1. /\ k + 1 \in 1 .. n /\ (k + 1) - 1 = k /\ k \in 0 .. n /\ k \in Nat
        /\ Len(a) = k /\ \A i \in 1 .. k : a[i] = octets[i]
    BY <1>1, <1>4
  <2>2. a \in Seq(V) /\ acc[k + 1] = Decoded(a, o)
    BY <1>2, <2>1 DEF IsDecoding
  <2>3. o \in V /\ o[1] # "tail"
    BY <1>1, <2>1
  <2>4. o = octets[k + 1]
    OBVIOUS
  <2> HIDE DEF a, o
  <2>5. /\ \A i \in 1 .. Len(a) : Decoded(a, o)[i] = a[i]
        /\ Len(Decoded(a, o)) = Len(a) + 1 /\ Decoded(a, o)[Len(a) + 1] = o
    BY <2>2, <2>3, DecodedMeans
  <2>6. \A i \in 1 .. k + 1 : i \in 1 .. k \/ i = k + 1
    BY <2>1
  <2>7. Len(acc[k + 1]) = k + 1 /\ \A i \in 1 .. k + 1 : acc[k + 1][i] = octets[i]
    BY <2>1, <2>2, <2>4, <2>5, <2>6
  <2> QED
    BY <2>1, <2>7
<1> HIDE DEF T
<1>5. 0 .. n \subseteq T
  BY <1>1, <1>3, <1>4, BoundedInduction
<1>6. n \in T
  BY <1>1, <1>5
<1>7. acc[n] \in Seq(V) /\ Len(acc[n]) = n /\ \A i \in 1 .. n : acc[n][i] = octets[i]
  BY <1>1, <1>2, <1>6 DEF T, IsDecoding
<1>8. acc[n] = octets
  BY <1>1, <1>7, SeqEqual DEF n
<1> QED
  BY <1>2, <1>8 DEF IsDecoding

\* What is not a tail is among them.
LEMMA DecodedKeeps ==
  ASSUME NEW V, NEW octets \in Seq(V), NEW j \in 1 .. Len(octets), octets[j][1] # "tail"
  PROVE  \E i \in 1 .. Len(DecodedRun(<<>>, octets)) : DecodedRun(<<>>, octets)[i] = octets[j]
<1> DEFINE n == Len(octets)
           Has(q) == \E i \in 1 .. Len(q) : q[i] = octets[j]
<1>1. n \in Nat /\ j \in 1 .. n /\ DOMAIN octets = 1 .. n /\ \A i \in 1 .. n : octets[i] \in V
  OBVIOUS
<1>2. PICK acc : IsDecoding(acc, n, Seq(V), <<>>, octets)
  BY DecodingRun
<1> HIDE DEF n
<1> DEFINE T == {k \in 0 .. n : j <= k => Has(acc[k])}
<1>3. 0 \in T
  BY <1>1
<1>4. ASSUME NEW k \in 0 .. n - 1, k \in T PROVE k + 1 \in T
  <2> DEFINE a == acc[k]
             o == octets[k + 1]
  <2>1. k + 1 \in 1 .. n /\ (k + 1) - 1 = k /\ k \in 0 .. n /\ k \in Nat /\ (j <= k => Has(a))
    <3>1. j <= k => Has(a)
      <4> HIDE DEF Has
      <4> QED
        BY <1>4
    <3> QED
      BY <1>1, <3>1
  <2>2. a \in Seq(V) /\ acc[k + 1] = Decoded(a, o)
    BY <1>2, <2>1 DEF IsDecoding
  <2>3. o \in V /\ (k + 1 = j => o = octets[j] /\ o[1] # "tail")
    BY <1>1, <2>1
  <2> HIDE DEF a, o
  <2>5. /\ \A i \in 1 .. Len(a) : i \in 1 .. Len(Decoded(a, o)) /\ Decoded(a, o)[i] = a[i]
        /\ o[1] # "tail" => /\ Len(Decoded(a, o)) = Len(a) + 1
                            /\ Decoded(a, o)[Len(a) + 1] = o
    BY <2>2, <2>3, DecodedMeans
  <2>6. CASE j <= k
    BY <2>1, <2>2, <2>5, <2>6
  <2>7. CASE k + 1 = j
    <3>1. Len(a) \in Nat
      BY <2>2
    <3>2. Len(a) + 1 \in 1 .. Len(acc[k + 1]) /\ acc[k + 1][Len(a) + 1] = octets[j]
      BY <2>2, <2>3, <2>5, <2>7, <3>1
    <3>3. Has(acc[k + 1])
      BY <3>2
    <3> QED
      BY <2>1, <3>3
  <2>8. CASE k + 1 < j
    BY <2>1, <2>8
  <2> QED
    BY <1>1, <2>1, <2>6, <2>7, <2>8
<1> HIDE DEF T
<1>5. 0 .. n \subseteq T
  BY <1>1, <1>3, <1>4, BoundedInduction
<1>6. n \in T /\ j <= n
  BY <1>1, <1>5
<1>7. Has(acc[n])
  BY <1>6 DEF T
<1> QED
  BY <1>2, <1>7 DEF IsDecoding

\* The marks of the wire are no symbols.
LEMMA SymbolsMean ==
  /\ "lead" \notin Symbols /\ "tail" \notin Symbols /\ "len" \notin Symbols
  /\ DictionarySymbols \subseteq Symbols /\ "non-ascii" \notin DictionarySymbols
BY WireAssumption, WordsAssumption DEF Symbols, Marks, DictionarySymbols

\* The text that arrives.
Arrived(t) == TextOf(Octets(t))

\* A text of ASCII characters arrives as it was.
LEMMA PlainArrives ==
  ASSUME NEW t, IsPlain(t)
  PROVE  /\ Arrived(t) = Text(t.symbols, t.upper \cap DOMAIN t.symbols)
         /\ ValidUtf8(Octets(t))
<1> DEFINE s == t.symbols
           n == Len(s)
           O == Octets(t)
<1>1. /\ O \in Seq(Values(t)) /\ Len(O) = n
      /\ \A i \in 1 .. n : O[i] = Octet(t, i)
  BY PlainOctets
<1>2. s \in Seq(Symbols) /\ n \in Nat /\ DOMAIN s = 1 .. n /\ \A i \in 1 .. n : s[i] \in Symbols
  BY DEF IsPlain
<1>3. \A i \in 1 .. n : O[i][1] = s[i] /\ (O[i][2] <=> i \in t.upper)
  <2> TAKE i \in 1 .. n
  <2>1. Octet(t, i)[1] = s[i] /\ (Octet(t, i)[2] <=> i \in t.upper)
    BY DEF Octet
  <2> HIDE DEF O, s
  <2> QED
    BY <1>1, <2>1
<1> HIDE DEF O, s, n
<1>4. \A i \in 1 .. n : O[i][1] # "tail" /\ O[i][1] # "lead"
  BY <1>2, <1>3, SymbolsMean
<1>5. DecodedRun(<<>>, O) = O
  BY <1>1, <1>4, DecodedPlain
<1>6. DOMAIN O = 1 .. n
  BY <1>1
<1>7. TextOf(O) = Text([i \in 1 .. n |-> IF O[i][1] = "lead" THEN "non-ascii" ELSE O[i][1]],
                       {i \in 1 .. n : O[i][2]})
  BY <1>5, <1>6 DEF TextOf, DecodedRun
<1>8. [i \in 1 .. n |-> IF O[i][1] = "lead" THEN "non-ascii" ELSE O[i][1]] = s
  <2>1. s = [i \in 1 .. n |-> s[i]]
    BY <1>2 DEF n
  <2> QED
    BY <1>3, <1>4, <2>1
<1>9. {i \in 1 .. n : O[i][2]} = t.upper \cap DOMAIN s
  BY <1>2, <1>3
<1>10. ValidUtf8(O)
  <2>1. \A i \in 1 .. n + 1 : i > 1 => i - 1 \in 1 .. n
    BY <1>2
  <2>2. \A i \in 1 .. n + 1 : i <= n => i \in 1 .. n
    BY <1>2
  <2> QED
    BY <1>1, <1>4, <2>1, <2>2 DEF ValidUtf8
<1> QED
  BY <1>7, <1>8, <1>9, <1>10 DEF Arrived, O, s

\* Any other text arrives, if it does, with a character outside of ASCII.
LEMMA OtherArrives ==
  ASSUME NEW t, t.symbols \in Seq(Symbols), ~IsPlain(t)
  PROVE  \E i \in DOMAIN Arrived(t).symbols : Arrived(t).symbols[i] = "non-ascii"
<1> DEFINE O == Octets(t)
           chars == DecodedRun(<<>>, O)
<1>1. O \in Seq(Values(t))
  BY OctetsType
<1>2. PICK j \in 1 .. Len(O) : O[j] = Lead
  BY OtherOctets
<1>3. O[j][1] = "lead"
  BY <1>2 DEF Lead
<1> HIDE DEF O
<1>4. PICK i \in 1 .. Len(chars) : chars[i] = O[j]
  BY <1>1, <1>3, DecodedKeeps
<1>5. chars \in Seq(Values(t))
  <2>1. Len(O) \in Nat
    BY <1>1
  <2>2. PICK acc : IsDecoding(acc, Len(O), Seq(Values(t)), <<>>, O)
    BY <1>1, DecodingRun
  <2> DEFINE m == Len(O)
             W == Seq(Values(t))
  <2>3. m \in 0 .. m /\ IsDecoding(acc, m, W, <<>>, O)
    BY <2>1, <2>2
  <2> HIDE DEF m, W, chars
  <2>4. acc[m] \in W /\ acc[m] = DecodedRun(<<>>, O)
    BY <2>3 DEF IsDecoding
  <2> QED
    BY <2>4 DEF W, chars
<1>6. Arrived(t).symbols =
        [k \in DOMAIN chars |-> IF chars[k][1] = "lead" THEN "non-ascii" ELSE chars[k][1]]
  BY DEF Arrived, TextOf, Text, DecodedRun, O
<1> HIDE DEF chars
<1>7. i \in DOMAIN chars
  BY <1>5
<1> QED
  BY <1>3, <1>4, <1>6, <1>7

-----------------------------------------------------------------------------
(* A message on the wire.                                                  *)

Headed(x, s) == <<x>> \o s

IsHeaded(r, x, s) ==
  /\ Len(r) = Len(s) + 1 /\ r[1] = x
  /\ \A i \in 1 .. Len(s) : r[i + 1] = s[i]
  /\ SubSeq(r, 2, Len(s) + 1) = s

\* A message is its first octet and the rest.
LEMMA HeadedMeans ==
  ASSUME NEW W, NEW x \in W, NEW s \in Seq(W)
  PROVE  Headed(x, s) \in Seq(W) /\ IsHeaded(Headed(x, s), x, s)
<1> DEFINE r == <<x>> \o s
           n == Len(s)
           t == SubSeq(r, 2, n + 1)
<1>1. /\ r \in Seq(W) /\ Len(r) = 1 + n
      /\ \A i \in 1 .. 1 + n : r[i] = IF i <= 1 THEN <<x>>[i] ELSE s[i - 1]
  BY ConcatProperties
<1>2. n \in Nat /\ s \in Seq(W)
  OBVIOUS
<1> HIDE DEF r, n
<1>3. Len(r) = n + 1 /\ r[1] = x
  BY <1>1, <1>2
<1>4. \A i \in 1 .. n : i + 1 \in 1 .. 1 + n /\ ~(i + 1 <= 1) /\ (i + 1) - 1 = i
  BY <1>2
<1>5. \A i \in 1 .. n : r[i + 1] = s[i]
  BY <1>1, <1>4
<1>6. t \in Seq(W) /\ Len(t) = n /\ \A i \in 1 .. n : t[i] = r[i + 1]
  BY <1>1, <1>2, <1>3
<1>7. t = s
  <2> HIDE DEF t
  <2> QED
    BY <1>2, <1>5, <1>6, SeqEqual DEF n
<1> QED
  BY <1>1, <1>3, <1>5, <1>7 DEF IsHeaded, Headed, r, n

\* A string is its length and its octets.
LEMMA PutStringMeans ==
  ASSUME NEW t, t.symbols \in Seq(Symbols)
  PROVE  /\ PutString(t) \in Seq(Values(t) \cup {<<"len", Len(Octets(t))>>})
         /\ IsHeaded(PutString(t), <<"len", Len(Octets(t))>>, Octets(t))
<1> DEFINE O == Octets(t)
           len == <<"len", Len(O)>>
           W == Values(t) \cup {len}
<1>1. O \in Seq(Values(t))
  BY OctetsType
<1>2. Values(t) \subseteq W /\ len \in W
  OBVIOUS
<1>3. PutString(t) = Headed(len, O)
  BY DEF PutString, Headed
<1> HIDE DEF O, W, len
<1>4. Len(O) \in Nat /\ O = [i \in 1 .. Len(O) |-> O[i]] /\ \A i \in 1 .. Len(O) : O[i] \in W
  BY <1>1, <1>2
<1>5. O \in Seq(W)
  BY <1>4
<1>6. Headed(len, O) \in Seq(W) /\ IsHeaded(Headed(len, O), len, O)
  BY <1>2, <1>5, HeadedMeans
<1> QED
  BY <1>3, <1>6 DEF W, len, O

\* What the reader makes of a string.
LEMMA StringTaken ==
  ASSUME NEW t, t.symbols \in Seq(Symbols)
  PROVE  TakeString(PutString(t)) =
           IF Len(Octets(t)) > MaxFieldLen THEN Failed("TooLong")
           ELSE IF ~ValidUtf8(Octets(t)) THEN Failed("BadUtf8")
           ELSE [kind |-> "String", text |-> Arrived(t)]
<1> DEFINE O == Octets(t)
           m == Len(O)
           len == <<"len", m>>
           W == Values(t) \cup {len}
           P == PutString(t)
<1>1. m \in Nat
  <2>1. O \in Seq(Values(t))
    BY OctetsType
  <2> HIDE DEF O
  <2> QED
    BY <2>1
<1>2. P \in Seq(W) /\ IsHeaded(P, len, O)
  BY PutStringMeans
<1>3. len[1] = "len" /\ len[2] = m
  OBVIOUS
<1> HIDE DEF O, W, len, P
<1>4. /\ Len(P) = m + 1 /\ P[1] = len /\ SubSeq(P, 2, m + 1) = O
  BY <1>2 DEF IsHeaded
<1> HIDE DEF m
<1>5. P # <<>> /\ ~(Len(P) - 1 < m)
  BY <1>1, <1>2, <1>4
<1>6. TakeString(P) =
        IF m > MaxFieldLen THEN Failed("TooLong")
        ELSE IF ~ValidUtf8(O) THEN Failed("BadUtf8")
        ELSE [kind |-> "String", text |-> TextOf(O)]
  BY <1>3, <1>4, <1>5 DEF TakeString
<1> QED
  BY <1>6 DEF P, m, O, Arrived

\* The string of a text that the wire carries, or what is wrong with it.
Taken(t) == TakeString(PutString(t))

\* It is the text that arrives, if it is understood at all.
LEMMA TakenMeans ==
  ASSUME NEW t, t.symbols \in Seq(Symbols)
  PROVE  /\ Taken(t).kind = "Error" \/ (Taken(t).kind = "String" /\ Taken(t).text = Arrived(t))
         /\ IsPlain(t) /\ Len(t.symbols) <= MaxFieldLen =>
              Taken(t).kind = "String" /\ Taken(t).text = Arrived(t)
<1>1. Taken(t) = IF Len(Octets(t)) > MaxFieldLen THEN Failed("TooLong")
                 ELSE IF ~ValidUtf8(Octets(t)) THEN Failed("BadUtf8")
                 ELSE [kind |-> "String", text |-> Arrived(t)]
  BY StringTaken DEF Taken
<1>2. \A e : Failed(e).kind = "Error"
  BY DEF Failed
<1>3. IsPlain(t) => Len(Octets(t)) = Len(t.symbols) /\ ValidUtf8(Octets(t))
  BY PlainOctets, PlainArrives
<1>4. MaxFieldLen \in Nat /\ Len(t.symbols) \in Nat
  BY WireAssumption
<1> DEFINE string == [kind |-> "String", text |-> Arrived(t)]
<1>5. string.kind = "String" /\ string.text = Arrived(t)
  OBVIOUS
<1> HIDE DEF string
<1>6. Taken(t).kind = "Error" \/ Taken(t) = string
  BY <1>1, <1>2 DEF string
<1>7. IsPlain(t) /\ Len(t.symbols) <= MaxFieldLen => Taken(t) = string
  BY <1>1, <1>3, <1>4 DEF string
<1> QED
  BY <1>5, <1>6, <1>7

\* The string after one octet, and after two.
LEMMA AfterTheHead ==
  ASSUME NEW t, t.symbols \in Seq(Symbols), NEW x
  PROVE  LET r == Headed(x, PutString(t))
             n == Len(Octets(t))
         IN  /\ n \in Nat /\ Len(r) = n + 2 /\ r # <<>> /\ r[1] = x
             /\ SubSeq(r, 2, Len(r)) = PutString(t)
             /\ r[2] = <<"len", n>> /\ \A i \in 1 .. n : r[i + 2] = Octets(t)[i]
             /\ DOMAIN r = 1 .. n + 2
<1> DEFINE P == PutString(t)
           O == Octets(t)
           n == Len(O)
           len == <<"len", n>>
           W == Values(t) \cup {len}
           X == W \cup {x}
           r == Headed(x, P)
<1>1. P \in Seq(W) /\ IsHeaded(P, len, O)
  BY PutStringMeans
<1>2. n \in Nat
  <2>1. O \in Seq(Values(t))
    BY OctetsType
  <2> HIDE DEF O
  <2> QED
    BY <2>1
<1>3. W \subseteq X /\ x \in X
  OBVIOUS
<1> HIDE DEF P, O, len, W, X
<1>4. P \in Seq(X) /\ Len(P) \in Nat
  <2>1. Len(P) \in Nat /\ P = [i \in 1 .. Len(P) |-> P[i]] /\ \A i \in 1 .. Len(P) : P[i] \in X
    BY <1>1, <1>3
  <2> QED
    BY <2>1
<1>5. r \in Seq(X) /\ IsHeaded(r, x, P)
  BY <1>3, <1>4, HeadedMeans
<1> HIDE DEF r, n
<1>6. /\ Len(P) = n + 1 /\ P[1] = len /\ \A i \in 1 .. n : P[i + 1] = O[i]
  BY <1>1 DEF IsHeaded, n
<1>7. /\ Len(r) = Len(P) + 1 /\ r[1] = x /\ \A i \in 1 .. Len(P) : r[i + 1] = P[i]
      /\ SubSeq(r, 2, Len(P) + 1) = P
  BY <1>5 DEF IsHeaded
<1>8. Len(r) = n + 2 /\ r # <<>> /\ SubSeq(r, 2, Len(r)) = P /\ DOMAIN r = 1 .. n + 2
  <2>1. Len(r) = n + 2
    BY <1>2, <1>6, <1>7
  <2>2. SubSeq(r, 2, Len(r)) = P
    BY <1>7
  <2> QED
    BY <1>2, <1>5, <2>1, <2>2
<1>9. r[2] = len
  <2>1. 1 \in 1 .. Len(P) /\ 1 + 1 = 2
    BY <1>2, <1>6
  <2> QED
    BY <1>6, <1>7, <2>1
<1>10. \A i \in 1 .. n : r[i + 2] = O[i]
  <2> TAKE i \in 1 .. n
  <2>1. i + 1 \in 1 .. Len(P) /\ (i + 1) + 1 = i + 2
    BY <1>2, <1>6
  <2> QED
    BY <1>6, <1>7, <2>1
<1> QED
  BY <1>2, <1>7, <1>8, <1>9, <1>10 DEF r, n, P, O, len

\* The same after two octets.
LEMMA AfterTwoHeads ==
  ASSUME NEW t, t.symbols \in Seq(Symbols), NEW x, NEW y
  PROVE  LET r == Headed(x, Headed(y, PutString(t)))
             n == Len(Octets(t))
         IN  /\ n \in Nat /\ Len(r) = n + 3 /\ r # <<>> /\ r[1] = x /\ r[2] = y
             /\ SubSeq(r, 3, Len(r)) = PutString(t)
             /\ r[3] = <<"len", n>> /\ \A i \in 1 .. n : r[i + 3] = Octets(t)[i]
             /\ DOMAIN r = 1 .. n + 3
<1> DEFINE P == PutString(t)
           O == Octets(t)
           n == Len(O)
           len == <<"len", n>>
           W == Values(t) \cup {len}
           q == Headed(y, P)
           r == Headed(x, q)
           X == W \cup {x, y}
<1>1. /\ n \in Nat /\ Len(q) = n + 2 /\ q[1] = y
      /\ SubSeq(q, 2, Len(q)) = P
      /\ q[2] = len /\ \A i \in 1 .. n : q[i + 2] = O[i]
  BY AfterTheHead
<1>2. P \in Seq(W)
  BY PutStringMeans
<1>3. W \subseteq X /\ x \in X /\ y \in X
  OBVIOUS
<1> HIDE DEF P, O, len, W, X, n
<1>4. P \in Seq(X)
  <2>1. Len(P) \in Nat /\ P = [i \in 1 .. Len(P) |-> P[i]] /\ \A i \in 1 .. Len(P) : P[i] \in X
    BY <1>2, <1>3
  <2> QED
    BY <2>1
<1>5. q \in Seq(X)
  BY <1>3, <1>4, HeadedMeans
<1> HIDE DEF q
<1>6. r \in Seq(X) /\ IsHeaded(r, x, q)
  BY <1>3, <1>5, HeadedMeans
<1> HIDE DEF r
<1>7. /\ Len(r) = Len(q) + 1 /\ r[1] = x /\ \A i \in 1 .. Len(q) : r[i + 1] = q[i]
      /\ SubSeq(r, 2, Len(q) + 1) = q
  BY <1>6 DEF IsHeaded
<1>8. Len(r) = n + 3 /\ r # <<>> /\ DOMAIN r = 1 .. n + 3
  <2>1. Len(r) = n + 3
    BY <1>1, <1>7
  <2> QED
    BY <1>1, <1>6, <2>1
<1>9. r[2] = y /\ r[3] = len
  <2>1. 1 \in 1 .. Len(q) /\ 1 + 1 = 2 /\ 2 \in 1 .. Len(q) /\ 2 + 1 = 3
    BY <1>1
  <2> QED
    BY <1>1, <1>7, <2>1
<1>10. \A i \in 1 .. n : r[i + 3] = O[i]
  <2> TAKE i \in 1 .. n
  <2>1. i + 2 \in 1 .. Len(q) /\ (i + 2) + 1 = i + 3
    BY <1>1
  <2> QED
    BY <1>1, <1>7, <2>1
<1>11. SubSeq(r, 3, Len(r)) = P
  <2>1. SubSeq(q, 2, Len(q)) = SubSeq(r, 3, Len(r))
    <3>1. 2 \in 1 .. Len(r) /\ Len(r) \in 1 .. Len(r)
          /\ 2 \in 1 .. Len(r) - 2 + 1 /\ Len(q) \in 1 .. Len(r) - 2 + 1
          /\ (2 + 2) - 1 = 3 /\ (2 + Len(q)) - 1 = Len(r) /\ Len(q) + 1 = Len(r)
      BY <1>1, <1>7, <1>8
    <3>2. SubSeq(SubSeq(r, 2, Len(r)), 2, Len(q)) = SubSeq(r, (2 + 2) - 1, (2 + Len(q)) - 1)
      BY <1>6, <3>1, SubSeqOfSubSeq
    <3>3. SubSeq(r, 2, Len(r)) = q
      BY <1>7, <3>1
    <3> QED
      BY <3>1, <3>2, <3>3
  <2> QED
    BY <1>1, <2>1
<1> QED
  BY <1>1, <1>7, <1>8, <1>9, <1>10, <1>11 DEF r, q, n, P, O, len

\* The octets on the wire: the one of the length counts for four.
LEMMA SizeMeans ==
  ASSUME NEW r, NEW n \in Nat, DOMAIN r = 1 .. n, Len(r) = n, NEW k \in 1 .. n,
         \A i \in 1 .. n : r[i][1] = "len" <=> i = k
  PROVE  Size(r) = n + 3
<1> DEFINE lens == {i \in DOMAIN r : r[i][1] = "len"}
<1>1. lens = {k}
  OBVIOUS
<1> HIDE DEF lens
<1>2. Cardinality(lens) = 1
  BY <1>1, FS_Singleton
<1> QED
  BY <1>2 DEF Size, lens

\* No octet of a text is a length.
LEMMA OctetValues ==
  ASSUME NEW t, t.symbols \in Seq(Symbols)
  PROVE  \A i \in 1 .. Len(Octets(t)) : Octets(t)[i][1] # "len"
<1> DEFINE O == Octets(t)
           V == Values(t)
<1>1. O \in Seq(V)
  BY OctetsType
<1>2. ASSUME NEW v \in V PROVE v[1] # "len"
  <2>1. CASE v = Lead \/ v = Tail2
    <3>1. Lead[1] = "lead" /\ Tail2[1] = "tail"
      BY DEF Lead, Tail2
    <3> QED
      BY <2>1, <3>1
  <2>2. CASE \E i \in DOMAIN t.symbols : v = Octet(t, i)
    <3>1. PICK i \in DOMAIN t.symbols : v = Octet(t, i)
      BY <2>2
    <3>2. Octet(t, i)[1] = t.symbols[i] /\ t.symbols[i] \in Symbols
      BY DEF Octet
    <3> QED
      BY <3>1, <3>2, SymbolsMean
  <2> QED
    BY <1>2, <2>1, <2>2 DEF Values
<1> HIDE DEF O, V
<1>3. \A i \in 1 .. Len(O) : O[i] \in V
  BY <1>1
<1> QED
  BY <1>2, <1>3 DEF O

\* The two boundaries that the paths send have a code, and the code means them.
LEMMA BoundaryCodes ==
  ASSUME NEW b \in {"Semicolon", "Space"}
  PROVE  LET k == CHOOSE k \in DOMAIN Boundaries : Boundaries[k] = b
         IN  k \in DOMAIN Boundaries /\ Boundaries[k] = b
<1>1. /\ 7 \in DOMAIN Boundaries /\ Boundaries[7] = "Semicolon"
      /\ 1 \in DOMAIN Boundaries /\ Boundaries[1] = "Space"
  BY DEF Boundaries
<1>2. \E k \in DOMAIN Boundaries : Boundaries[k] = b
  BY <1>1
<1> QED
  BY <1>2

\* The broker understands the token of a request as it arrives, or does not understand
\* the request; a text of ASCII characters that is not too long it understands.
LEMMA RequestMeans ==
  ASSUME NEW t, t.symbols \in Seq(Symbols), NEW b \in {"Semicolon", "Space"}
  PROVE  LET request == Delivered(EvaluateToken(t, b)) IN
         /\ request.kind = "Error" \/ request = EvaluateToken(Arrived(t), b)
         /\ IsPlain(t) /\ Len(t.symbols) <= MaxFieldLen => request = EvaluateToken(Arrived(t), b)
<1> DEFINE request == EvaluateToken(t, b)
           k == CHOOSE i \in DOMAIN Boundaries : Boundaries[i] = b
           x == <<"tag", 2>>
           y == <<"code", k>>
           r == Headed(x, Headed(y, PutString(t)))
           n == Len(Octets(t))
<1>1. k \in DOMAIN Boundaries /\ Boundaries[k] = b
  BY BoundaryCodes
<1>2. EncodeRequest(request) = r
  <2>1. /\ request.kind = "Evaluate" /\ request.token = t /\ request.boundary = b
        /\ RequestTags["Evaluate"] = 2
    BY DEF EvaluateToken, RequestTags
  <2> HIDE DEF request
  <2> QED
    BY <2>1 DEF EncodeRequest, Headed
<1>3. x[1] = "tag" /\ x[2] = 2 /\ y[1] = "code" /\ y[2] = k
  OBVIOUS
<1> HIDE DEF k, x, y
<1>4. /\ n \in Nat /\ Len(r) = n + 3 /\ r # <<>> /\ r[1] = x /\ r[2] = y
      /\ SubSeq(r, 3, Len(r)) = PutString(t)
      /\ r[3] = <<"len", n>> /\ \A i \in 1 .. n : r[i + 3] = Octets(t)[i]
      /\ DOMAIN r = 1 .. n + 3
  BY AfterTwoHeads
<1>5. <<"len", n>>[1] = "len"
  OBVIOUS
<1> HIDE DEF r, n
<1>6. \A i \in 1 .. n : r[i + 3][1] # "len"
  BY <1>4, OctetValues DEF n
<1>7. Size(r) = n + 6
  <2> DEFINE m == n + 3
  <2>1. /\ m \in Nat /\ DOMAIN r = 1 .. m /\ Len(r) = m /\ 3 \in 1 .. m
        /\ r[3][1] = "len" /\ r[1][1] # "len" /\ r[2][1] # "len"
    BY <1>3, <1>4, <1>5
  <2>2. \A i \in 1 .. m : i = 1 \/ i = 2 \/ i = 3 \/ (i - 3 \in 1 .. n /\ (i - 3) + 3 = i)
    BY <1>4
  <2>3. \A i \in 1 .. m : r[i][1] = "len" <=> i = 3
    BY <1>6, <2>1, <2>2
  <2> HIDE DEF m
  <2>4. Size(r) = m + 3
    BY <2>1, <2>3, SizeMeans
  <2> QED
    BY <1>4, <2>4 DEF m
<1>8. DecodeRequest(r) = IF Taken(t).kind = "Error" THEN Taken(t)
                         ELSE EvaluateToken(Taken(t).text, b)
  <2>1. RequestTags.Ping = 1 /\ RequestTags.Evaluate = 2 /\ RequestTags.Active = 3
    BY DEF RequestTags
  <2>2. r[1][2] = 2 /\ r[2][2] = k /\ ~(Len(r) < 2)
    BY <1>3, <1>4
  <2> DEFINE token == TakeString(SubSeq(r, 3, Len(r)))
  <2>3. token = Taken(t)
    BY <1>4 DEF Taken
  <2>4. DecodeRequest(r) = IF token.kind = "Error" THEN token ELSE EvaluateToken(token.text, b)
    <3>1. r # <<>> /\ ~(r[1][2] = 1) /\ ~(r[1][2] = 3)
      BY <1>4, <2>2
    <3> HIDE DEF token
    <3> QED
      BY <1>1, <2>1, <2>2, <3>1 DEF DecodeRequest, token
  <2> QED
    BY <2>3, <2>4
<1>9. Delivered(request) = IF Size(r) > BufSize THEN Failed("no answer") ELSE DecodeRequest(r)
  BY <1>2 DEF Delivered
<1>10. /\ Taken(t).kind = "Error" \/ (Taken(t).kind = "String" /\ Taken(t).text = Arrived(t))
       /\ IsPlain(t) /\ Len(t.symbols) <= MaxFieldLen =>
              Taken(t).kind = "String" /\ Taken(t).text = Arrived(t)
  BY TakenMeans
<1>11. Failed("no answer").kind = "Error"
  BY DEF Failed
<1> DEFINE d == Delivered(request)
<1>12. d.kind = "Error" \/ d = EvaluateToken(Arrived(t), b)
  <2> HIDE DEF d, request
  <2> QED
    BY <1>8, <1>9, <1>10, <1>11 DEF d
<1>13. ASSUME IsPlain(t), Len(t.symbols) <= MaxFieldLen PROVE d = EvaluateToken(Arrived(t), b)
  <2>1. n = Len(t.symbols) /\ Taken(t).kind # "Error" /\ Taken(t).text = Arrived(t)
    BY <1>10, <1>13, PlainOctets DEF n
  <2>2. ~(Size(r) > BufSize)
    BY <1>4, <1>7, <1>13, <2>1, WireAssumption
  <2> HIDE DEF d, request
  <2> QED
    BY <1>8, <1>9, <2>1, <2>2 DEF d
<1> QED
  BY <1>12, <1>13

\* The client understands a correction of ASCII characters that is not too long.
LEMMA ReturnedMeans ==
  /\ Returned(Simple["Leave"]) = Simple["Leave"]
  /\ \A t : IsPlain(t) /\ Len(t.symbols) <= MaxFieldLen =>
       Returned(Replace(t)) = Replace(Arrived(t))
<1>1. ResponseTags["Pong"] = 1 /\ ResponseTags["Leave"] = 2 /\ ResponseTags["Replace"] = 3
  BY DEF ResponseTags
<1>2. Returned(Simple["Leave"]) = Simple["Leave"]
  <2> DEFINE x == <<"tag", 2>>
             r == <<x>>
             o == r \o <<>>
  <2>1. Simple["Leave"].kind = "Leave"
    BY DEF Simple
  <2>2. EncodeResponse(Simple["Leave"]) = o
    BY <1>1, <2>1 DEF EncodeResponse
  <2>3. o = r
    OBVIOUS
  <2>4. /\ r # <<>> /\ r[1] = x /\ Len(r) = 1 /\ DOMAIN r = {1} /\ x[1] = "tag" /\ x[2] = 2
    OBVIOUS
  <2> HIDE DEF o, r, x
  <2> DEFINE lens == {i \in DOMAIN r : r[i][1] = "len"}
  <2>5. lens = {}
    BY <2>4
  <2>6. Size(r) = 1
    <3>1. Cardinality(lens) = 0
      BY <2>5, FS_EmptySet
    <3> HIDE DEF lens
    <3> QED
      BY <2>4, <3>1 DEF Size, lens
  <2>7. ~(Size(r) > BufSize)
    BY <2>6, WireAssumption
  <2>8. DecodeResponse(r) = Simple["Leave"]
    <3>1. ~(r[1][2] = 1) /\ r[1][2] = 2 /\ r # <<>> /\ ~(r[1][2] = 3)
      BY <2>4
    <3> QED
      BY <1>1, <3>1 DEF DecodeResponse
  <2> QED
    BY <2>2, <2>3, <2>7, <2>8 DEF Returned
<1>3. ASSUME NEW t, IsPlain(t), Len(t.symbols) <= MaxFieldLen
      PROVE  Returned(Replace(t)) = Replace(Arrived(t))
  <2> DEFINE x == <<"tag", 3>>
             r == Headed(x, PutString(t))
             n == Len(Octets(t))
  <2>0. t.symbols \in Seq(Symbols)
    BY <1>3 DEF IsPlain
  <2>1. Replace(t).kind = "Replace" /\ Replace(t).replacement = t
    BY DEF Replace
  <2>2. EncodeResponse(Replace(t)) = r
    BY <1>1, <2>1 DEF EncodeResponse, Headed
  <2>3. x[1] = "tag" /\ x[2] = 3 /\ <<"len", n>>[1] = "len"
    OBVIOUS
  <2> HIDE DEF x
  <2>4. /\ n \in Nat /\ Len(r) = n + 2 /\ r # <<>> /\ r[1] = x
        /\ SubSeq(r, 2, Len(r)) = PutString(t)
        /\ r[2] = <<"len", n>> /\ \A i \in 1 .. n : r[i + 2] = Octets(t)[i]
        /\ DOMAIN r = 1 .. n + 2
    BY <2>0, AfterTheHead
  <2> HIDE DEF r, n
  <2>5. \A i \in 1 .. n : r[i + 2][1] # "len"
    BY <2>0, <2>4, OctetValues DEF n
  <2>6. Size(r) = n + 5
    <3> DEFINE m == n + 2
    <3>1. /\ m \in Nat /\ DOMAIN r = 1 .. m /\ Len(r) = m /\ 2 \in 1 .. m
          /\ r[2][1] = "len" /\ r[1][1] # "len"
      BY <2>3, <2>4
    <3>2. \A i \in 1 .. m : i = 1 \/ i = 2 \/ (i - 2 \in 1 .. n /\ (i - 2) + 2 = i)
      BY <2>4
    <3>3. \A i \in 1 .. m : r[i][1] = "len" <=> i = 2
      BY <2>5, <3>1, <3>2
    <3> HIDE DEF m
    <3>4. Size(r) = m + 3
      BY <3>1, <3>3, SizeMeans
    <3> QED
      BY <2>4, <3>4 DEF m
  <2>7. n = Len(t.symbols) /\ Taken(t).kind = "String" /\ Taken(t).text = Arrived(t)
    BY <1>3, <2>0, TakenMeans, PlainOctets DEF n
  <2>8. ~(Size(r) > BufSize)
    BY <1>3, <2>4, <2>6, <2>7, WireAssumption
  <2>9. DecodeResponse(r) = Replace(Arrived(t))
    <3>1. r # <<>> /\ ~(r[1][2] = 1) /\ ~(r[1][2] = 2) /\ r[1][2] = 3
      BY <2>3, <2>4
    <3>2. TakeString(SubSeq(r, 2, Len(r))) = Taken(t)
      BY <2>4 DEF Taken
    <3>3. DecodeResponse(r) = IF Taken(t).kind = "Error" THEN Taken(t) ELSE Replace(Taken(t).text)
      BY <1>1, <3>1, <3>2 DEF DecodeResponse
    <3> QED
      BY <2>7, <3>3
  <2> QED
    BY <2>2, <2>8, <2>9 DEF Returned
<1> QED
  BY <1>2, <1>3

-----------------------------------------------------------------------------
(* A dictionary that is written and read back.                             *)

PairOrder == {e \in Pairs \X Pairs : PairBefore(e[1], e[2])}
PairsInOrder(S) == InOrder(S, PairBefore)

\* The order of the pairs is strict and total.
LEMMA PairBeforeIsAnOrder ==
  ASSUME NEW S \in SUBSET Pairs
  PROVE  Orders(PairOrder, S)
<1>1. \A p \in Pairs : p[1] \in Keys /\ p[2] \in Keys /\ p = <<p[1], p[2]>>
  BY DEF Pairs
<1>2. \A p \in Pairs : ~PairBefore(p, p)
  BY <1>1, PrecedesIsAnOrder DEF PairBefore
<1>3. ASSUME NEW p \in Pairs, NEW q \in Pairs, NEW r \in Pairs,
             PairBefore(p, q), PairBefore(q, r)
      PROVE  PairBefore(p, r)
  <2>1. \A k \in {1, 2} : Precedes(p[k], q[k]) /\ Precedes(q[k], r[k]) => Precedes(p[k], r[k])
    BY <1>1, PrecedesIsAnOrder
  <2> QED
    BY <1>3, <2>1 DEF PairBefore
<1>4. ASSUME NEW p \in Pairs, NEW q \in Pairs, p # q PROVE PairBefore(p, q) \/ PairBefore(q, p)
  <2>1. p[1] # q[1] \/ p[2] # q[2]
    BY <1>1, <1>4
  <2>2. \A k \in {1, 2} : p[k] # q[k] => Precedes(p[k], q[k]) \/ Precedes(q[k], p[k])
    BY <1>1, PrecedesIsAnOrder
  <2> QED
    BY <2>1, <2>2 DEF PairBefore
<1> QED
  BY <1>2, <1>3, <1>4 DEF Orders, PairOrder

\* InOrder lists every pair of a set once.
LEMMA PairsListed ==
  ASSUME NEW S \in SUBSET Pairs, IsFiniteSet(S)
  PROVE  Lists(PairsInOrder(S), S)
<1> DEFINE seq == PairsInOrder(S)
           N == Cardinality(S)
<1>1. Orders(PairOrder, S)
  BY PairBeforeIsAnOrder
<1>2. \A x \in S : Before(PairOrder, S, x) = {y \in S : PairBefore(y, x)}
  BY DEF Before, PairOrder
<1>3. seq = [n \in 1 .. N |-> CHOOSE x \in S : Cardinality({y \in S : PairBefore(y, x)}) = n - 1]
  BY DEF InOrder, PairsInOrder
<1> HIDE DEF seq, N
<1>4. seq = [n \in 1 .. N |-> seq[n]]
  <2> DEFINE pick(n) == CHOOSE x \in S : Cardinality({y \in S : PairBefore(y, x)}) = n - 1
  <2>1. seq = [n \in 1 .. N |-> pick(n)]
    BY <1>3
  <2> HIDE DEF pick
  <2> QED
    BY <2>1
<1>5. ASSUME NEW n \in 1 .. N, NEW x \in S, Cardinality(Before(PairOrder, S, x)) = n - 1
      PROVE  seq[n] \in S /\ Cardinality(Before(PairOrder, S, seq[n])) = n - 1
  <2>1. Cardinality({y \in S : PairBefore(y, x)}) = n - 1
    BY <1>2, <1>5
  <2>2. seq[n] = CHOOSE z \in S : Cardinality({y \in S : PairBefore(y, z)}) = n - 1
    BY <1>3
  <2>3. seq[n] \in S /\ Cardinality({y \in S : PairBefore(y, seq[n])}) = n - 1
    BY <2>1, <2>2
  <2> QED
    BY <1>2, <2>3
<1>6. Picks(seq, S, PairOrder)
  BY <1>4, <1>5 DEF Picks, N
<1> QED
  BY <1>1, <1>6, Listing DEF seq

\* Of a list that is within the bound all is read.
LEMMA AllIsRead ==
  ASSUME NEW S, NEW seq, WithinBounds(S), Lists(seq, S)
  PROVE  /\ Cardinality(S) \in Nat /\ seq \in Seq(S) /\ DOMAIN seq = 1 .. Cardinality(S)
         /\ FirstOf(seq, MaxPersonalEntries) = seq
<1> DEFINE n == Cardinality(S)
           m == MaxPersonalEntries
<1>1. n \in Nat /\ m \in Nat /\ n <= m
  BY FS_CardinalityType, EngineAssumption DEF WithinBounds
<1>2. seq \in [1 .. n -> S]
  BY DEF Lists
<1> HIDE DEF n, m
<1>3. seq \in Seq(S) /\ DOMAIN seq = 1 .. n /\ Len(seq) = n
  BY <1>1, <1>2
<1>4. /\ FirstOf(seq, m) \in Seq(S) /\ Len(FirstOf(seq, m)) = n
      /\ \A i \in 1 .. n : FirstOf(seq, m)[i] = seq[i]
  BY <1>1, <1>3, FirstOfSeq
<1> DEFINE f == FirstOf(seq, m)
<1> HIDE DEF f
<1>5. f = seq
  BY <1>3, <1>4, SeqEqual DEF f
<1> QED
  BY <1>1, <1>3, <1>5 DEF f, n, m

\* What is read after k lines.
Read(seq, k) == {seq[i] : i \in 1 .. k}

\* Each line adds an entry, and before each one there is room for it.
LEMMA ReadMeans ==
  ASSUME NEW S, NEW seq, WithinBounds(S), Lists(seq, S)
  PROVE  /\ Read(seq, 0) = {} /\ Read(seq, Cardinality(S)) = S
         /\ \A k \in 1 .. Cardinality(S) :
              /\ seq[k] \in S /\ seq[k] \notin Read(seq, k - 1) /\ Read(seq, k - 1) \subseteq S
              /\ Read(seq, k) = Read(seq, k - 1) \cup {seq[k]}
              /\ Cardinality(Read(seq, k - 1)) < MaxPersonalEntries
<1> DEFINE n == Cardinality(S)
<1>1. n \in Nat /\ MaxPersonalEntries \in Nat /\ n <= MaxPersonalEntries /\ IsFiniteSet(S)
  BY FS_CardinalityType, EngineAssumption DEF WithinBounds
<1>2. /\ seq \in [1 .. n -> S] /\ \A x \in S : \E i \in 1 .. n : seq[i] = x
      /\ \A i, j \in 1 .. n : seq[i] = seq[j] => i = j
  BY DEF Lists
<1> HIDE DEF n
<1>3. Read(seq, 0) = {} /\ Read(seq, n) = S
  BY <1>1, <1>2 DEF Read
<1>4. ASSUME NEW k \in 1 .. n
      PROVE  /\ seq[k] \in S /\ seq[k] \notin Read(seq, k - 1) /\ Read(seq, k - 1) \subseteq S
             /\ Read(seq, k) = Read(seq, k - 1) \cup {seq[k]}
             /\ Cardinality(Read(seq, k - 1)) < MaxPersonalEntries
  <2>1. /\ \A i \in 1 .. k - 1 : i \in 1 .. n /\ i # k
        /\ \A i \in 1 .. k : i \in 1 .. k - 1 \/ i = k
        /\ \A i \in 1 .. k - 1 : i \in 1 .. k
        /\ k \in 1 .. k
    BY <1>1
  <2>2. seq[k] \in S /\ seq[k] \notin Read(seq, k - 1) /\ Read(seq, k - 1) \subseteq S
    BY <1>2, <2>1 DEF Read
  <2>3. Read(seq, k) = Read(seq, k - 1) \cup {seq[k]}
    BY <2>1 DEF Read
  <2> DEFINE R == Read(seq, k - 1)
  <2>4. R \in SUBSET S /\ R # S
    BY <2>2
  <2> HIDE DEF R
  <2>5. /\ IsFiniteSet(R) /\ Cardinality(R) <= Cardinality(S)
        /\ Cardinality(S) = Cardinality(R) => S = R
    BY <1>1, <2>4, FS_Subset, Zenon
  <2>6. Cardinality(R) \in Nat
    BY <2>5, FS_CardinalityType
  <2>7. Cardinality(R) < MaxPersonalEntries
    BY <1>1, <2>4, <2>5, <2>6 DEF n
  <2> QED
    BY <2>2, <2>3, <2>7 DEF R
<1> QED
  BY <1>3, <1>4 DEF n

Holding(words, forced, blocked) == [words |-> words, forced |-> forced, blocked |-> blocked]

\* What a dictionary holds may be written into its files.
LEMMA PairsArePairs ==
  /\ Keys \subseteq Seq(Letters \cup Marks)
  /\ \A p \in Pairs : IsPair(p)
<1>1. ASSUME NEW w \in Keys PROVE w \in Seq(Letters \cup Marks)
  <2>1. DictionarySymbols \subseteq Letters \cup Marks
    BY DEF DictionarySymbols, Marks
  <2>2. Len(w) \in Nat /\ w = [i \in 1 .. Len(w) |-> w[i]]
        /\ \A i \in 1 .. Len(w) : w[i] \in DictionarySymbols
    BY DEF Keys
  <2> QED
    BY <2>1, <2>2
<1>2. \A p \in Pairs : p[1] \in Keys /\ p[2] \in Keys /\ p = <<p[1], p[2]>>
  BY DEF Pairs
<1> QED
  BY <1>1, <1>2 DEF IsPair

\* The words that are listed are the words that are read.
LEMMA WordsReadBack ==
  ASSUME NEW d \in Dictionaries, NEW seq, Lists(seq, d.words)
  PROVE  AddWords(NothingPersonal, seq) = Holding(d.words, {}, {})
<1> DEFINE S == d.words
           n == Cardinality(S)
<1>1. WithinBounds(S) /\ S \subseteq Keys /\ \A w \in S : IsValidWord(w)
  BY DEF Dictionaries
<1>2. n \in Nat /\ DOMAIN seq = 1 .. n
  BY <1>1, AllIsRead
<1>3. /\ Read(seq, 0) = {} /\ Read(seq, n) = S
      /\ \A k \in 1 .. n : /\ seq[k] \in S
                           /\ Read(seq, k) = Read(seq, k - 1) \cup {seq[k]}
                           /\ Cardinality(Read(seq, k - 1)) < MaxPersonalEntries
  BY <1>1, ReadMeans
<1> HIDE DEF S, n
<1>4. \A v \in Dictionaries, i \in 1 .. n : AddWord(v, seq[i]) \in Dictionaries
  BY <1>1, <1>3, AddWordStays, PairsArePairs
<1>5. PICK acc : IsWordRun(acc, n, Dictionaries, NothingPersonal, seq)
  BY <1>2, <1>4, NothingIsADictionary, AddWordFold
<1> DEFINE T == {k \in 0 .. n : acc[k] = Holding(Read(seq, k), {}, {})}
<1>6. 0 \in T
  <2>1. NothingPersonal = Holding({}, {}, {})
    BY DEF NothingPersonal, Holding
  <2>2. 0 \in 0 .. n /\ Read(seq, 0) = {}
    BY <1>2, <1>3
  <2>3. acc[0] = Holding(Read(seq, 0), {}, {})
    BY <1>5, <2>1, <2>2 DEF IsWordRun
  <2> QED
    BY <2>2, <2>3
<1>7. ASSUME NEW k \in 0 .. n - 1, k \in T PROVE k + 1 \in T
  <2>1. k + 1 \in 1 .. n /\ (k + 1) - 1 = k /\ k + 1 \in 0 .. n
    BY <1>2
  <2>2. acc[k + 1] = AddWord(Holding(Read(seq, k), {}, {}), seq[k + 1])
    BY <1>5, <1>7, <2>1 DEF IsWordRun
  <2>3. IsValidWord(seq[k + 1]) /\ Cardinality(Read(seq, k)) < MaxPersonalEntries
    BY <1>1, <1>3, <2>1
  <2>4. AddWord(Holding(Read(seq, k), {}, {}), seq[k + 1]) =
          Holding(Read(seq, k) \cup {seq[k + 1]}, {}, {})
    BY <2>3 DEF AddWord, Holding
  <2>5. Read(seq, k + 1) = Read(seq, k) \cup {seq[k + 1]}
    BY <1>3, <2>1
  <2> QED
    BY <2>1, <2>2, <2>4, <2>5
<1> HIDE DEF T
<1>8. 0 .. n \subseteq T
  BY <1>2, <1>6, <1>7, BoundedInduction
<1>9. acc[n] = Holding(Read(seq, n), {}, {})
  BY <1>2, <1>8 DEF T
<1> QED
  BY <1>3, <1>5, <1>9 DEF S, IsWordRun

\* No pair that is listed replaces another one.
LEMMA ForcedReadBack ==
  ASSUME NEW d \in Dictionaries, NEW seq, Lists(seq, d.forced), NEW w,
         Holding(w, {}, {}) \in Dictionaries
  PROVE  AddForceds(Holding(w, {}, {}), seq) = Holding(w, d.forced, {})
<1> DEFINE S == d.forced
           n == Cardinality(S)
           base == Holding(w, {}, {})
<1>1. /\ WithinBounds(S) /\ S \subseteq Pairs
      /\ \A p \in S : IsValidWord(p[1]) /\ IsValidWord(p[2])
      /\ \A p, q \in S : p[1] = q[1] => p = q
  BY DEF Dictionaries
<1>2. n \in Nat /\ DOMAIN seq = 1 .. n
  BY <1>1, AllIsRead
<1>3. /\ Read(seq, 0) = {} /\ Read(seq, n) = S
      /\ \A k \in 1 .. n : /\ seq[k] \in S /\ seq[k] \notin Read(seq, k - 1)
                           /\ Read(seq, k - 1) \subseteq S
                           /\ Read(seq, k) = Read(seq, k - 1) \cup {seq[k]}
                           /\ Cardinality(Read(seq, k - 1)) < MaxPersonalEntries
  BY <1>1, ReadMeans
<1> HIDE DEF S, n
<1>4. \A v \in Dictionaries, i \in 1 .. n : AddForced(v, seq[i]) \in Dictionaries
  BY <1>1, <1>3, AddForcedStays, PairsArePairs
<1>5. base \in Dictionaries
  OBVIOUS
<1> HIDE DEF base
<1>6. PICK acc : IsForcedRun(acc, n, Dictionaries, base, seq)
  BY <1>2, <1>4, <1>5, AddForcedFold
<1> DEFINE T == {k \in 0 .. n : acc[k] = Holding(w, Read(seq, k), {})}
<1>7. 0 \in T
  <2>1. 0 \in 0 .. n /\ Read(seq, 0) = {}
    BY <1>2, <1>3
  <2>2. acc[0] = Holding(w, Read(seq, 0), {})
    BY <1>6, <2>1 DEF base, IsForcedRun
  <2> QED
    BY <2>1, <2>2
<1>8. ASSUME NEW k \in 0 .. n - 1, k \in T PROVE k + 1 \in T
  <2> DEFINE x == seq[k + 1]
             R == Read(seq, k)
  <2>1. k + 1 \in 1 .. n /\ (k + 1) - 1 = k /\ k + 1 \in 0 .. n
    BY <1>2
  <2>2. acc[k + 1] = AddForced(Holding(w, R, {}), x)
    BY <1>6, <1>8, <2>1 DEF IsForcedRun
  <2>3. /\ IsValidWord(x[1]) /\ IsValidWord(x[2])
        /\ Cardinality(R) < MaxPersonalEntries
        /\ x \in S /\ x \notin R /\ R \subseteq S
        /\ Read(seq, k + 1) = R \cup {x}
    BY <1>1, <1>3, <2>1
  <2> HIDE DEF x, R
  <2>4. {p \in R : p[1] # x[1]} = R
    BY <1>1, <2>3
  <2>5. AddForced(Holding(w, R, {}), x) = Holding(w, {p \in R : p[1] # x[1]} \cup {x}, {})
    BY <2>3 DEF AddForced, Holding
  <2> QED
    BY <2>1, <2>2, <2>3, <2>4, <2>5
<1> HIDE DEF T
<1>9. 0 .. n \subseteq T
  BY <1>2, <1>7, <1>8, BoundedInduction
<1>10. acc[n] = Holding(w, Read(seq, n), {})
  BY <1>2, <1>9 DEF T
<1> QED
  BY <1>3, <1>6, <1>10 DEF S, base, IsForcedRun

\* The same of the blocked pairs.
LEMMA BlockedReadBack ==
  ASSUME NEW d \in Dictionaries, NEW seq, Lists(seq, d.blocked), NEW w, NEW f,
         Holding(w, f, {}) \in Dictionaries
  PROVE  BlockPairs(Holding(w, f, {}), seq) = Holding(w, f, d.blocked)
<1> DEFINE S == d.blocked
           n == Cardinality(S)
           base == Holding(w, f, {})
<1>1. /\ WithinBounds(S) /\ S \subseteq Pairs
      /\ \A p \in S : IsValidWord(p[1]) /\ IsValidWord(p[2])
  BY DEF Dictionaries
<1>2. n \in Nat /\ DOMAIN seq = 1 .. n
  BY <1>1, AllIsRead
<1>3. /\ Read(seq, 0) = {} /\ Read(seq, n) = S
      /\ \A k \in 1 .. n : /\ seq[k] \in S
                           /\ Read(seq, k) = Read(seq, k - 1) \cup {seq[k]}
                           /\ Cardinality(Read(seq, k - 1)) < MaxPersonalEntries
  BY <1>1, ReadMeans
<1> HIDE DEF S, n
<1>4. \A v \in Dictionaries, i \in 1 .. n : BlockPair(v, seq[i]) \in Dictionaries
  BY <1>1, <1>3, BlockPairStays, PairsArePairs
<1>5. base \in Dictionaries
  OBVIOUS
<1> HIDE DEF base
<1>6. PICK acc : IsBlockedRun(acc, n, Dictionaries, base, seq)
  BY <1>2, <1>4, <1>5, BlockPairFold
<1> DEFINE T == {k \in 0 .. n : acc[k] = Holding(w, f, Read(seq, k))}
<1>7. 0 \in T
  <2>1. 0 \in 0 .. n /\ Read(seq, 0) = {}
    BY <1>2, <1>3
  <2>2. acc[0] = Holding(w, f, Read(seq, 0))
    BY <1>6, <2>1 DEF base, IsBlockedRun
  <2> QED
    BY <2>1, <2>2
<1>8. ASSUME NEW k \in 0 .. n - 1, k \in T PROVE k + 1 \in T
  <2> DEFINE x == seq[k + 1]
             R == Read(seq, k)
  <2>1. k + 1 \in 1 .. n /\ (k + 1) - 1 = k /\ k + 1 \in 0 .. n
    BY <1>2
  <2>2. acc[k + 1] = BlockPair(Holding(w, f, R), x)
    BY <1>6, <1>8, <2>1 DEF IsBlockedRun
  <2>3. /\ IsValidWord(x[1]) /\ IsValidWord(x[2])
        /\ Cardinality(R) < MaxPersonalEntries
        /\ Read(seq, k + 1) = R \cup {x}
    BY <1>1, <1>3, <2>1
  <2> HIDE DEF x, R
  <2>4. BlockPair(Holding(w, f, R), x) = Holding(w, f, R \cup {x})
    BY <2>3 DEF BlockPair, Holding
  <2> QED
    BY <2>1, <2>2, <2>3, <2>4
<1> HIDE DEF T
<1>9. 0 .. n \subseteq T
  BY <1>2, <1>7, <1>8, BoundedInduction
<1>10. acc[n] = Holding(w, f, Read(seq, n))
  BY <1>2, <1>9 DEF T
<1> QED
  BY <1>3, <1>6, <1>10 DEF S, base, IsBlockedRun

\* What is written of a dictionary is read as that dictionary.
LEMMA ReadBack ==
  ASSUME NEW d \in Dictionaries
  PROVE  FromParts(ToParts(d)) = d
<1> DEFINE words == KeysInOrder(d.words)
           forced == PairsInOrder(d.forced)
           blocked == PairsInOrder(d.blocked)
           max == MaxPersonalEntries
<1>1. /\ d = Holding(d.words, d.forced, d.blocked)
      /\ d.words \in SUBSET Keys /\ d.forced \in SUBSET Pairs /\ d.blocked \in SUBSET Pairs
      /\ WithinBounds(d.words) /\ WithinBounds(d.forced) /\ WithinBounds(d.blocked)
  BY DEF Dictionaries, Holding
<1>2. /\ IsFiniteSet(d.words) /\ IsFiniteSet(d.forced) /\ IsFiniteSet(d.blocked)
  BY <1>1 DEF WithinBounds
<1>3. /\ Lists(words, d.words) /\ Lists(forced, d.forced) /\ Lists(blocked, d.blocked)
  BY <1>1, <1>2, KeysListed, PairsListed
<1>4. ToParts(d).words = words /\ ToParts(d).forced = forced /\ ToParts(d).blocked = blocked
  BY DEF ToParts, KeysInOrder, PairsInOrder
<1> HIDE DEF words, forced, blocked, max
<1>5. /\ FirstOf(words, max) = words /\ FirstOf(forced, max) = forced
      /\ FirstOf(blocked, max) = blocked
  BY <1>1, <1>3, AllIsRead DEF max
<1>6. FromParts(ToParts(d)) =
        BlockPairs(AddForceds(AddWords(NothingPersonal, words), forced), blocked)
  BY <1>4, <1>5 DEF FromParts, AddWords, AddForceds, BlockPairs, max
<1>7. AddWords(NothingPersonal, words) = Holding(d.words, {}, {})
  BY <1>3, WordsReadBack
<1>8. Holding(d.words, {}, {}) \in Dictionaries /\ Holding(d.words, d.forced, {}) \in Dictionaries
  <2>1. WithinBounds({})
    BY FS_EmptySet, EngineAssumption DEF WithinBounds
  <2> QED
    BY <2>1 DEF Dictionaries, Holding
<1>9. AddForceds(Holding(d.words, {}, {}), forced) = Holding(d.words, d.forced, {})
  BY <1>3, <1>8, ForcedReadBack
<1>10. BlockPairs(Holding(d.words, d.forced, {}), blocked) = Holding(d.words, d.forced, d.blocked)
  BY <1>3, <1>8, BlockedReadBack
<1> QED
  BY <1>1, <1>6, <1>7, <1>9, <1>10

-----------------------------------------------------------------------------
(* The invariant.                                                          *)

\* What is kept of a word is what the two paths make of it.
IsDecided ==
  \E text \in Texts, late \in BOOLEAN :
    last = [text |-> text, late |-> late,
            keys |-> AtBoundary(text, late), tsf |-> ThroughThePipe(text, "Semicolon")]

EngineInv ==
  /\ lexicon \in Lexicons
  /\ IsFiles(files)
  /\ personal \in Dictionaries
  /\ last = NoWord \/ IsDecided

\* The invariant holds initially.
LEMMA EngineInvStarts == Init => EngineInv
<1> SUFFICES ASSUME Init PROVE EngineInv
  OBVIOUS
<1>1. IsFiles(files)
  BY DEF Init, IsFiles
<1> QED
  BY <1>1, NothingIsADictionary DEF Init, EngineInv

\* Every step preserves it.
LEMMA EngineInvStep == EngineInv /\ [Next]_vars => EngineInv'
<1> SUFFICES ASSUME EngineInv, [Next]_vars PROVE EngineInv'
  OBVIOUS
<1>1. ASSUME NEW file \in DOMAIN Lines, NEW line \in Lines[file], EditAndRestart(file, line)
      PROVE  EngineInv'
  <2>1. files' = [files EXCEPT ![file] = Append(files[file], line)]
    BY <1>1 DEF EditAndRestart, EngineInv, IsFiles
  <2>2. IsFiles(files')
    <3>1. Append(files[file], line) \in Seq(Lines[file])
      BY AppendProperties DEF EngineInv, IsFiles
    <3> QED
      BY <2>1, <3>1 DEF EngineInv, IsFiles
  <2>3. personal' \in Dictionaries
    BY <1>1, <2>2, FromPartsIsADictionary DEF EditAndRestart
  <2> QED
    BY <1>1, <2>2, <2>3 DEF EditAndRestart, EngineInv
<1>2. ASSUME NEW text \in Texts, NEW late \in BOOLEAN, Word(text, late)
      PROVE  EngineInv'
  <2>1. lexicon' = lexicon /\ files' = files /\ personal' = personal
    BY <1>2 DEF Word
  <2>2. AtBoundary(text, late)' = AtBoundary(text, late)
    BY <2>1 DEF AtBoundary, IsBlocked
  <2>3. ThroughThePipe(text, "Semicolon")' = ThroughThePipe(text, "Semicolon")
    BY <2>1 DEF ThroughThePipe, Handle, EvaluateRequest, IsBlocked
  <2>4. IsDecided'
    BY <1>2, <2>2, <2>3 DEF Word, IsDecided
  <2> QED
    BY <2>1, <2>4 DEF EngineInv
<1>3. ASSUME UNCHANGED vars PROVE EngineInv'
  <2>1. lexicon' = lexicon /\ files' = files /\ personal' = personal /\ last' = last
    BY <1>3 DEF vars
  <2>2. \A text : ThroughThePipe(text, "Semicolon")' = ThroughThePipe(text, "Semicolon")
    BY <2>1 DEF ThroughThePipe, Handle, EvaluateRequest, IsBlocked
  <2>3. \A text, late : AtBoundary(text, late)' = AtBoundary(text, late)
    BY <2>1 DEF AtBoundary, IsBlocked
  <2>4. IsDecided => IsDecided'
    BY <2>1, <2>2, <2>3 DEF IsDecided
  <2> QED
    BY <2>1, <2>4 DEF EngineInv
<1> QED
  BY <1>1, <1>2, <1>3 DEF Next

\* What is loaded is a personal dictionary, and what is kept of a word is what the two
\* paths make of it: the inductive invariant.
THEOREM EngineInvariantHolds == Spec => []EngineInv
<1> QED
  BY EngineInvStarts, EngineInvStep, PTL DEF Spec

\* Whatever is written into the files, what is loaded is made of valid words, within the
\* bound on entries, and maps a word to one; both paths answer with a correction or
\* leave the word (personal.rs 62-111).
THEOREM EngineTypeCorrect == Spec => []TypeOK
<1>1. EngineInv => TypeOK
  <2> SUFFICES ASSUME EngineInv PROVE TypeOK
    OBVIOUS
  <2>1. personal \in Dictionaries
    BY DEF EngineInv
  <2>2. /\ \A f \in DOMAIN personal : Cardinality(personal[f]) <= MaxPersonalEntries
        /\ \A w \in personal.words : IsValidWord(w)
        /\ \A p \in personal.forced \cup personal.blocked : IsValidWord(p[1]) /\ IsValidWord(p[2])
        /\ \A p, q \in personal.forced : p[1] = q[1] => p = q
    BY <2>1 DEF Dictionaries, WithinBounds
  <2>3. Leave.kind = "Leave" /\ \A text : Replace(text).kind = "Replace"
    BY DEF Leave, Simple, Replace
  <2>4. \A text, late : AtBoundary(text, late) = Leave \/ \E t : AtBoundary(text, late) = Replace(t)
    BY DEF AtBoundary
  <2>5. \A text, late : AtBoundary(text, late).kind \in {"Leave", "Replace"}
    BY <2>3, <2>4
  <2>6. \A text, b : ThroughThePipe(text, b).kind \in {"Leave", "Replace"}
    BY <2>3 DEF ThroughThePipe
  <2>7. last.keys.kind \in {"Leave", "Replace"} /\ last.tsf.kind \in {"Leave", "Replace"}
    <3>1. CASE last = NoWord
      BY <2>3, <3>1 DEF NoWord
    <3>2. CASE IsDecided
      BY <2>5, <2>6, <3>2 DEF IsDecided
    <3> QED
      BY <3>1, <3>2 DEF EngineInv
  <2> QED
    BY <2>2, <2>7 DEF TypeOK, EngineInv, IsFiles
<1> QED
  BY <1>1, EngineInvariantHolds, PTL


\* What a decided word is.
LEMMA DecidedMeans ==
  ASSUME EngineInv, Decided
  PROVE  /\ IsText(last.text) /\ last.late \in BOOLEAN
         /\ last.keys = AtBoundary(last.text, last.late)
         /\ last.tsf = ThroughThePipe(last.text, "Semicolon")
<1>1. last # NoWord
  BY DEF Decided, NoWord
<1>2. PICK text \in Texts, late \in BOOLEAN :
        last = [text |-> text, late |-> late,
                keys |-> AtBoundary(text, late), tsf |-> ThroughThePipe(text, "Semicolon")]
  BY <1>1 DEF EngineInv, IsDecided
<1>3. IsText(text)
  BY EngineAssumption DEF IsText
<1>4. /\ last.text = text /\ last.late = late /\ last.keys = AtBoundary(text, late)
      /\ last.tsf = ThroughThePipe(text, "Semicolon")
  BY <1>2
<1> QED
  BY <1>3, <1>4

\* A correction that is typed: the best candidate of a natural word, in its case.
LEMMA TypedMeans ==
  ASSUME NEW text, IsText(text), NEW late \in BOOLEAN, EngineInv,
         AtBoundary(text, late).kind = "Replace"
  PROVE  LET w == Normalize(text)
             A == Assembled(lexicon, personal, w)
         IN  /\ w \in Keys /\ IsShaped(text) /\ IsAssembly(personal, w, A)
             /\ IsKnown(lexicon, personal, w) => \E c \in A : c.source \in {"rule", "user"}
             /\ \E top \in A :
                  /\ AtBoundary(text, late).replacement = RestoreCase(text, top.word)
                  /\ Normalize(AtBoundary(text, late).replacement) = top.word
                  /\ top.word \in Answers
                  /\ \A c \in A : Score(text, top) <= Score(text, c)
                  /\ top = Ranked(text, A)[1].candidate /\ StandsOut(Ranked(text, A))
<1> DEFINE class == Classify(text, MaxTokenChars)
           decision == EngineDecide(lexicon, personal, text, class, late)
           w == Normalize(text)
           A == Assembled(lexicon, personal, w)
<1>1. /\ Leave.kind = "Leave"
      /\ \A t : Replace(t).kind = "Replace" /\ Replace(t).replacement = t
  BY DEF Leave, Simple, Replace
<1>2. decision.kind = "AutoCorrect" /\ AtBoundary(text, late) = Replace(decision.text)
  BY <1>1 DEF AtBoundary
<1>3. /\ ~late /\ class = "NaturalWord"
      /\ IsKnown(lexicon, personal, w) => \E c \in A : c.source \in {"rule", "user"}
      /\ decision = Decide(text, Ranked(text, A))
  BY <1>2, DecisionMeans
<1>4. w \in Keys /\ w # <<>> /\ IsShaped(text)
  BY <1>3, NaturalMeans
<1>5. IsAssembly(personal, w, A)
  BY <1>4, AssembleMeans DEF EngineInv
<1> DEFINE seq == Ranked(text, A)
<1>6. /\ Len(seq) \in Nat /\ (seq = <<>> <=> Len(seq) = 0)
      /\ seq # <<>> => /\ seq[1].candidate \in A
                       /\ \A c \in A : Score(text, seq[1].candidate) <= Score(text, c)
      /\ \A i \in DOMAIN seq : seq[i].candidate \in A
                               /\ seq[i].score = Score(text, seq[i].candidate)
  BY <1>5, TopMeans
<1>7. seq \in Seq(Scored(text, A)) /\ Scored(text, A) \subseteq ScoreRecords
  BY <1>5, RankedMeans, ScoredMeans DEF IsRanking
<1> HIDE DEF A, w, decision, class
<1>8. seq # <<>>
  <2>1. Decide(text, <<>>) = Ignore("NoCandidates") /\ Ignore("NoCandidates").kind = "Ignore"
    BY DEF Decide, Ignore
  <2> QED
    BY <1>2, <1>3, <2>1
<1> HIDE DEF seq
<1>9. seq[1] \in Scored(text, A)
  BY <1>6, <1>7, <1>8
<1>10. seq[1].score \in Int
  BY <1>7, <1>9 DEF ScoreRecords
<1> DEFINE top == seq[1].candidate
<1>11. decision.text = RestoreCase(text, top.word) /\ StandsOut(seq)
  BY <1>2, <1>3, <1>10, CorrectionMeans DEF seq
<1>12. top = Ranked(text, A)[1].candidate /\ StandsOut(Ranked(text, A))
  BY <1>11 DEF seq
<1>13. top \in A /\ \A c \in A : Score(text, top) <= Score(text, c)
  BY <1>6, <1>8
<1> HIDE DEF top
<1>14. top.word \in Answers /\ top.word \in Keys \ {<<>>}
  BY <1>5, <1>13 DEF IsAssembly, IsCandidate, CandidateRecords, Answers
<1>15. Normalize(RestoreCase(text, top.word)) = top.word
  BY <1>4, <1>14, RestoreMeans
<1>16. /\ AtBoundary(text, late).replacement = RestoreCase(text, top.word)
       /\ Normalize(AtBoundary(text, late).replacement) = top.word
  BY <1>1, <1>2, <1>11, <1>15
<1> QED
  BY <1>3, <1>4, <1>5, <1>12, <1>13, <1>14, <1>16 DEF A, w

\* A word of the dictionary or of the user is changed only into what a built-in rule or
\* a pair of the user says (engine.rs 33-37, confidence.rs 122-135): among the
\* candidates there is one of a rule or of a pair, and its bonus is more than any
\* reward of a word of the dictionary (rank.rs 70-100).
THEOREM KnownWordsCorrect == Spec => []KnownWordsStay
<1>1. EngineInv => KnownWordsStay
  <2> SUFFICES ASSUME EngineInv, Decided, Asked \in DOMAIN lexicon \cup personal.words,
                      Asked \notin WantedFor(Asked), last.keys.kind = "Replace"
               PROVE  Normalize(last.keys.replacement) \in WantedFor(Asked) \cup RuleFor(Asked)
    BY DEF KnownWordsStay
  <2> DEFINE text == last.text
             w == Asked
             A == Assembled(lexicon, personal, w)
  <2>1. IsText(text) /\ last.late \in BOOLEAN /\ last.keys = AtBoundary(text, last.late)
    BY DecidedMeans
  <2>2. AtBoundary(text, last.late).kind = "Replace" /\ w = Normalize(text)
    BY <2>1 DEF Asked
  <2>3. /\ w \in Keys /\ IsShaped(text) /\ IsAssembly(personal, w, A)
        /\ IsKnown(lexicon, personal, w) => \E c \in A : c.source \in {"rule", "user"}
        /\ \E top \in A : /\ Normalize(last.keys.replacement) = top.word
                          /\ \A c \in A : Score(text, top) <= Score(text, c)
    BY <2>1, <2>2, TypedMeans
  <2>4. PICK top \in A : /\ Normalize(last.keys.replacement) = top.word
                         /\ \A c \in A : Score(text, top) <= Score(text, c)
    BY <2>3
  <2>5. \E c \in A : c.source \in {"rule", "user"}
    <3>1. CASE Forced(personal, w) = {}
      <4>1. IsKnown(lexicon, personal, w)
        BY <3>1 DEF IsKnown
      <4> QED
        BY <2>3, <4>1
    <3>2. CASE Forced(personal, w) # {}
      <4>1. PICK p \in Forced(personal, w) : TRUE
        BY <3>2
      <4>2. p[2] # w
        BY <4>1 DEF WantedFor
      <4> DEFINE c == Candidate(p[2], 1, MaxFrequency, "user")
      <4>3. c.word = p[2] /\ c.source = "user"
        BY DEF Candidate
      <4>4. c \in All(lexicon, personal, w)
        <5>1. c \in Proposals(lexicon, personal, w)
          BY <4>1 DEF Proposals
        <5> HIDE DEF c
        <5> QED
          BY <4>2, <4>3, <5>1 DEF All
      <4> HIDE DEF c
      <4>5. PICK m \in A : m.word = c.word /\ Priority[c.source] <= Priority[m.source]
        BY <2>3, <4>4, AssembleMeans DEF EngineInv
      <4>6. m.source \in Sources
        BY <2>3 DEF IsAssembly, IsCandidate, CandidateRecords, Answers
      <4> QED
        BY <4>3, <4>5, <4>6, PriorityMeans DEF Sources
    <3> QED
      BY <3>1, <3>2
  <2>6. top.source \in {"rule", "user"}
    BY <2>3, <2>4, <2>5, OverridesWin
  <2>7. IsCandidate(personal, w, top)
    BY <2>3 DEF IsAssembly
  <2>8. top.word \in WantedFor(w) \cup RuleFor(w)
    BY <2>6, <2>7 DEF IsCandidate, WantedFor
  <2> QED
    BY <2>4, <2>8
<1> QED
  BY <1>1, EngineInvariantHolds, PTL

\* A pair of the user wins over every rule and every word of the dictionary, unless the
\* user has blocked it too (engine.rs 60-67, rank.rs 80-84): no other candidate has the
\* bonus of a pair, and what the others lack of it is more than the margin.
THEOREM ForcedPairCorrect == Spec => []ForcedPairWins
<1>1. EngineInv => ForcedPairWins
  <2> SUFFICES ASSUME EngineInv, Decided, Natural, ~last.late,
                      NEW c \in WantedFor(Asked) \ {Asked}
               PROVE  last.keys = IF <<Asked, c>> \in personal.blocked THEN Leave
                                  ELSE Replace(RestoreCase(last.text, c))
    BY DEF ForcedPairWins
  <2> DEFINE text == last.text
             w == Asked
             A == Assembled(lexicon, personal, w)
             class == Classify(text, MaxTokenChars)
             decision == EngineDecide(lexicon, personal, text, class, FALSE)
  <2>1. /\ IsText(text) /\ last.late = FALSE /\ w = Normalize(text)
        /\ last.keys = AtBoundary(text, FALSE)
    BY DecidedMeans DEF Asked
  <2>2. class = "NaturalWord"
    BY DEF Natural
  <2>3. w \in Keys /\ IsShaped(text)
    BY <2>1, <2>2, NaturalMeans
  <2>4. personal \in Dictionaries /\ lexicon \in Lexicons
    BY DEF EngineInv
  <2>5. PICK p \in Forced(personal, w) : p[2] = c
    BY DEF WantedFor
  <2>6. \A q \in Forced(personal, w) : q[2] = c
    BY <2>4, <2>5 DEF Forced, Dictionaries
  <2>7. IsAssembly(personal, w, A)
    BY <2>3, <2>4, AssembleMeans
  <2>8. PICK m \in A : m.word = c /\ m.source = "user"
    <3> DEFINE u == Candidate(c, 1, MaxFrequency, "user")
    <3>1. u.word = c /\ u.source = "user"
      BY DEF Candidate
    <3>2. u \in Proposals(lexicon, personal, w)
      BY <2>5 DEF Proposals
    <3> HIDE DEF u
    <3>3. u \in All(lexicon, personal, w)
      BY <3>1, <3>2 DEF All
    <3>4. PICK m \in A : m.word = u.word /\ Priority[u.source] <= Priority[m.source]
      BY <2>3, <2>4, <3>3, AssembleMeans
    <3>5. m.source \in Sources
      BY <2>7 DEF IsAssembly, IsCandidate, CandidateRecords, Answers
    <3> QED
      BY <3>1, <3>4, <3>5, PriorityMeans DEF Sources
  <2>9. \A d \in A : d # m => d.source # "user"
    BY <2>6, <2>7, <2>8 DEF IsAssembly, IsCandidate
  <2>10. ~IsKnown(lexicon, personal, w)
    BY <2>5 DEF IsKnown
  <2>11. decision = Decide(text, Ranked(text, A))
    <3>1. FALSE \in BOOLEAN
      OBVIOUS
    <3> HIDE DEF class, A, text, w
    <3>2. ~FALSE /\ class = "NaturalWord"
            /\ (IsKnown(lexicon, personal, Normalize(text)) =>
                  \E d \in Assembled(lexicon, personal, Normalize(text)) :
                    d.source \in {"rule", "user"}) =>
          decision = Decide(text, Ranked(text, Assembled(lexicon, personal, Normalize(text))))
      BY <3>1, DecisionMeans
    <3> HIDE DEF decision
    <3>3. decision = Decide(text, Ranked(text, Assembled(lexicon, personal, w)))
      BY <2>1, <2>2, <2>10, <3>2
    <3> QED
      BY <3>3 DEF A
  <2>12. Decide(text, Ranked(text, A)) = AutoCorrect(RestoreCase(text, c), "user")
    BY <2>3, <2>7, <2>8, <2>9, PairWins
  <2>13. \A t, s : AutoCorrect(t, s).kind = "AutoCorrect" /\ AutoCorrect(t, s).text = t
    BY DEF AutoCorrect
  <2>14. c \in Keys \ {<<>>}
    BY <2>7, <2>8 DEF IsAssembly, IsCandidate, CandidateRecords, Answers
  <2>15. Normalize(RestoreCase(text, c)) = c
    BY <2>3, <2>14, RestoreMeans
  <2>16. AtBoundary(text, FALSE) =
           IF decision.kind = "AutoCorrect" /\ ~IsBlocked(Normalize(text), decision.text)
           THEN Replace(decision.text) ELSE Leave
    BY DEF AtBoundary
  <2> HIDE DEF decision
  <2>17. decision.kind = "AutoCorrect" /\ decision.text = RestoreCase(text, c)
    BY <2>11, <2>12, <2>13
  <2>18. IsBlocked(Normalize(text), decision.text) <=> <<w, c>> \in personal.blocked
    BY <2>1, <2>15, <2>17 DEF IsBlocked
  <2> QED
    BY <2>1, <2>16, <2>17, <2>18
<1> QED
  BY <1>1, EngineInvariantHolds, PTL


\* A text that is typed and has ASCII characters only arrives as it was.
LEMMA TextArrives ==
  ASSUME NEW t, IsText(t), IsPlain(t)
  PROVE  Arrived(t) = t
<1>1. t.upper \subseteq DOMAIN t.symbols
  BY DEF IsText, LetterPositions
<1>2. t.upper \cap DOMAIN t.symbols = t.upper
  BY <1>1
<1>3. Arrived(t) = Text(t.symbols, t.upper \cap DOMAIN t.symbols)
  BY PlainArrives
<1> QED
  BY <1>2, <1>3 DEF IsText

\* A word of the dictionary is plain in every case.
LEMMA KeysArePlain ==
  ASSUME NEW t, t.symbols \in Keys
  PROVE  IsPlain(t) /\ t.symbols \in Seq(Symbols)
<1> DEFINE s == t.symbols
<1>1. s \in Seq(DictionarySymbols)
  BY DEF Keys
<1> HIDE DEF s
<1>2. Len(s) \in Nat /\ s = [i \in 1 .. Len(s) |-> s[i]]
      /\ \A i \in 1 .. Len(s) : s[i] \in DictionarySymbols
  BY <1>1
<1>3. \A i \in 1 .. Len(s) : s[i] \in Symbols /\ s[i] # "non-ascii"
  BY <1>2, SymbolsMean
<1>4. s \in Seq(Symbols)
  BY <1>2, <1>3
<1> QED
  BY <1>3, <1>4 DEF IsPlain, s

\* A text with a character outside of ASCII is no natural word.
LEMMA OthersAreUnnatural ==
  ASSUME NEW t, NEW i \in DOMAIN t.symbols, t.symbols[i] = "non-ascii", NEW max
  PROVE  Classify(t, max) # "NaturalWord"
<1> DEFINE s == t.symbols
           odd == {j \in DOMAIN s : /\ s[j] \notin Letters
                                    /\ s[j] = "'" => j \in {1, Len(s)}}
<1>1. "non-ascii" \notin Letters
  BY WordsAssumption DEF Marks
<1>2. i \in odd
  BY <1>1
<1> QED
  BY <1>2 DEF Classify

\* The class of a word within two bounds is the same under both.
LEMMA ClassifyWithin ==
  ASSUME NEW t, NEW a, NEW b, ~(Len(t.symbols) > a), ~(Len(t.symbols) > b)
  PROVE  Classify(t, a) = Classify(t, b)
BY DEF Classify

\* What the adapter is answered about a text, by what arrives of it.
LEMMA PipeMeans ==
  ASSUME NEW t, t.symbols \in Seq(Symbols), NEW b \in {"Semicolon", "Space"}
  PROVE  LET answer == EvaluateRequest(EvaluateToken(Arrived(t), b)) IN
         /\ \/ ThroughThePipe(t, b) = Leave
            \/ answer # Leave
         /\ IsPlain(t) /\ Len(t.symbols) <= MaxFieldLen =>
              /\ answer = Leave => ThroughThePipe(t, b) = Leave
              /\ \A r : /\ answer = Replace(r) /\ IsText(r) /\ IsPlain(r)
                        /\ Len(r.symbols) <= MaxFieldLen
                        => ThroughThePipe(t, b) = answer
<1> DEFINE token == EvaluateToken(Arrived(t), b)
           request == Delivered(EvaluateToken(t, b))
           answer == EvaluateRequest(token)
           pipe == ThroughThePipe(t, b)
<1>1. /\ request.kind = "Error" \/ request = token
      /\ IsPlain(t) /\ Len(t.symbols) <= MaxFieldLen => request = token
  BY RequestMeans
<1>2. /\ token.kind = "Evaluate" /\ Leave.kind = "Leave" /\ Leave = Simple["Leave"]
      /\ \A r : Replace(r).kind = "Replace"
  BY DEF EvaluateToken, Leave, Simple, Replace
<1>3. Handle(token) = answer
  BY <1>2 DEF Handle
<1>4. pipe = LET said == IF request.kind = "Error" THEN request ELSE Returned(Handle(request))
             IN  IF said.kind = "Replace" THEN said ELSE Leave
  BY DEF ThroughThePipe
<1>5. Returned(Leave) = Leave
  BY <1>2, ReturnedMeans
<1> HIDE DEF pipe, answer, request, token
<1>6. request.kind = "Error" => pipe = Leave
  BY <1>4
<1>7. request = token /\ answer = Leave => pipe = Leave
  BY <1>2, <1>3, <1>4, <1>5
<1>8. ASSUME NEW r, answer = Replace(r), IsText(r), IsPlain(r), Len(r.symbols) <= MaxFieldLen,
             request = token
      PROVE  pipe = answer
  <2>1. Returned(answer) = answer
    BY <1>8, ReturnedMeans, TextArrives
  <2>2. answer.kind = "Replace" /\ request.kind # "Error"
    BY <1>2, <1>8
  <2> QED
    BY <1>3, <1>4, <1>8, <2>1, <2>2
<1>9. pipe = Leave \/ answer # Leave
  BY <1>1, <1>6, <1>7
<1> QED
  BY <1>1, <1>7, <1>8, <1>9 DEF pipe, answer, token

\* The two paths decide alike, the second one over the wire, for words within both
\* bounds on length and when the deadline of the first has not passed (engine.rs 1-9):
\* what is corrected has ASCII characters only and fits into a field, in both directions,
\* and what else arrives is no natural word.
THEOREM PathsAgreeAlways == Spec => []PathsAgree
<1>1. EngineInv => PathsAgree
  <2> SUFFICES ASSUME EngineInv, Decided, ~last.late, Len(Asked) <= MaxTokenChars,
                      Len(Asked) <= DefaultMaxTokenChars
               PROVE  last.keys = last.tsf
    BY DEF PathsAgree
  <2> DEFINE t == last.text
             keys == AtBoundary(t, FALSE)
             pipe == ThroughThePipe(t, "Semicolon")
             answer == EvaluateRequest(EvaluateToken(Arrived(t), "Semicolon"))
             class == Classify(t, MaxTokenChars)
  <2>1. /\ IsText(t) /\ t.symbols \in Seq(Symbols) /\ Len(t.symbols) \in Nat
        /\ Len(t.symbols) <= MaxTokenChars /\ Len(t.symbols) <= DefaultMaxTokenChars
        /\ last.keys = keys /\ last.tsf = pipe
    <3>1. /\ IsText(t) /\ last.late = FALSE
          /\ last.keys = AtBoundary(t, last.late) /\ last.tsf = pipe
      BY DecidedMeans
    <3>2. Asked = t.symbols
      BY DEF Asked, Normalize
    <3>3. t.symbols \in Seq(Symbols)
      BY <3>1 DEF IsText, Symbols
    <3>4. Len(t.symbols) \in Nat
      BY <3>3
    <3>5. last.keys = keys
      BY <3>1
    <3> QED
      BY <3>1, <3>2, <3>3, <3>4, <3>5
  <2>2. /\ MaxTokenChars \in Nat /\ DefaultMaxTokenChars \in Nat /\ MaxFieldLen \in Nat
        /\ DefaultMaxTokenChars <= MaxFieldLen
    BY EngineAssumption, WireAssumption
  <2>3. Classify(t, DefaultMaxTokenChars) = class /\ Len(t.symbols) <= MaxFieldLen
    <3>1. ~(Len(t.symbols) > MaxTokenChars) /\ ~(Len(t.symbols) > DefaultMaxTokenChars)
      BY <2>1, <2>2
    <3> QED
      BY <2>1, <2>2, <3>1, ClassifyWithin
  <2>4. \A u, c, late : EngineDecide(lexicon, personal, u, c, late).kind = "AutoCorrect"
                          /\ late \in BOOLEAN => c = "NaturalWord"
    BY DecisionMeans
  <2>5. \A u : EvaluateToken(u, "Semicolon").token = u
    BY DEF EvaluateToken
  <2>6. ASSUME NEW u, Classify(u, DefaultMaxTokenChars) # "NaturalWord"
        PROVE  EvaluateRequest(EvaluateToken(u, "Semicolon")) = Leave
    <3> DEFINE token == EvaluateToken(u, "Semicolon")
    <3>1. token.token = u
      BY <2>5
    <3> HIDE DEF token
    <3>2. EngineDecide(lexicon, personal, token.token,
                       Classify(token.token, DefaultMaxTokenChars), FALSE).kind # "AutoCorrect"
      BY <2>4, <2>6, <3>1
    <3> QED
      BY <3>2 DEF EvaluateRequest, token
  <2>7. class # "NaturalWord" => keys = Leave
    BY <2>4 DEF AtBoundary
  <2>8. CASE ~IsPlain(t)
    <3>1. class # "NaturalWord"
      <4>1. PICK i \in 1 .. Len(t.symbols) : t.symbols[i] = "non-ascii"
        BY <2>1, <2>8 DEF IsPlain
      <4>2. i \in DOMAIN t.symbols
        BY <2>1
      <4> QED
        BY <4>1, <4>2, OthersAreUnnatural
    <3>2. Classify(Arrived(t), DefaultMaxTokenChars) # "NaturalWord"
      BY <2>1, <2>8, OtherArrives, OthersAreUnnatural
    <3>3. answer = Leave
      BY <2>6, <3>2
    <3>4. pipe = Leave
      BY <2>1, <3>3, PipeMeans
    <3> QED
      BY <2>1, <2>7, <3>1, <3>4
  <2>9. CASE IsPlain(t)
    <3>1. Arrived(t) = t
      BY <2>1, <2>9, TextArrives
    <3>2. answer = keys
      <4>1. EvaluateToken(t, "Semicolon").token = t
        BY <2>5
      <4> QED
        BY <2>3, <3>1, <4>1 DEF EvaluateRequest, AtBoundary
    <3>3. CASE keys.kind # "Replace"
      <4>1. keys = Leave
        BY <3>3 DEF AtBoundary, Replace
      <4>2. pipe = Leave
        BY <2>1, <3>2, <4>1, PipeMeans
      <4> QED
        BY <2>1, <4>1, <4>2
    <3>4. CASE keys.kind = "Replace"
      <4>1. PICK word \in Answers : keys.replacement = RestoreCase(t, word) /\ IsShaped(t)
        BY <2>1, <3>4, TypedMeans
      <4> DEFINE r == RestoreCase(t, word)
      <4>2. word \in Keys \ {<<>>} /\ Len(word) <= MaxFieldLen
        BY DEF Answers
      <4>3. IsText(r) /\ Normalize(r) = word
        BY <4>1, <4>2, RestoreMeans
      <4>4. r.symbols = word
        BY <4>3 DEF Normalize
      <4>5. keys = Replace(r)
        <5>1. \A x : Replace(x).replacement = x
          BY DEF Replace
        <5>2. keys = Leave \/ \E x : keys = Replace(x)
          BY DEF AtBoundary
        <5>3. Leave.kind = "Leave"
          BY DEF Leave, Simple
        <5> HIDE DEF keys, r
        <5>4. PICK x : keys = Replace(x)
          BY <3>4, <5>2, <5>3
        <5>5. x = r
          BY <4>1, <5>1, <5>4 DEF r
        <5> QED
          BY <5>4, <5>5
      <4> HIDE DEF r, keys, answer, pipe, t
      <4>6. IsPlain(r)
        BY <4>2, <4>4, KeysArePlain
      <4>7. pipe = answer
        BY <2>1, <2>3, <2>9, <3>2, <4>2, <4>3, <4>4, <4>5, <4>6, PipeMeans DEF pipe, answer
      <4> QED
        BY <2>1, <3>2, <4>7
    <3> QED
      BY <3>3, <3>4
  <2> QED
    BY <2>8, <2>9
<1> QED
  BY <1>1, EngineInvariantHolds, PTL

\* A correction with a word of the dictionary is not corrected again, by either path,
\* unless that word has a rule or a pair of the user itself (confidence.rs 122-135,
\* engine.rs 33-37).
THEOREM CorrectionsStay == Spec => []CorrectionsAreFinal
<1>1. EngineInv => CorrectionsAreFinal
  <2> SUFFICES ASSUME EngineInv, NEW c, NEW w, w = Normalize(c),
                      w \in DOMAIN lexicon, WantedFor(w) \cup RuleFor(w) = {}
               PROVE  AtBoundary(c, FALSE) = Leave /\ ThroughThePipe(c, "Space") = Leave
    BY DEF CorrectionsAreFinal
  <2>1. w \in Keys /\ w # <<>> /\ lexicon \in Lexicons /\ personal \in Dictionaries
    BY EngineAssumption DEF EngineInv, Keys
  <2> DEFINE A == Assembled(lexicon, personal, w)
  <2>2. IsKnown(lexicon, personal, w)
    BY DEF IsKnown, WantedFor
  <2>3. IsAssembly(personal, w, A)
    BY <2>1, AssembleMeans
  <2>4. \A d \in A : d.source \notin {"rule", "user"}
    <3> TAKE d \in A
    <3>1. IsCandidate(personal, w, d)
      BY <2>3 DEF IsAssembly
    <3> QED
      BY <3>1 DEF IsCandidate, WantedFor
  <2>5. ASSUME NEW u, Normalize(u) = w, NEW class
        PROVE  EngineDecide(lexicon, personal, u, class, FALSE).kind # "AutoCorrect"
    <3>1. FALSE \in BOOLEAN
      OBVIOUS
    <3> HIDE DEF A
    <3>2. EngineDecide(lexicon, personal, u, class, FALSE).kind = "AutoCorrect" =>
            (IsKnown(lexicon, personal, Normalize(u)) =>
               \E d \in Assembled(lexicon, personal, Normalize(u)) : d.source \in {"rule", "user"})
      BY <3>1, DecisionMeans
    <3> QED
      BY <2>2, <2>4, <2>5, <3>2 DEF A
  <2>6. AtBoundary(c, FALSE) = Leave
    BY <2>5 DEF AtBoundary
  <2>7. ThroughThePipe(c, "Space") = Leave
    <3> DEFINE token == EvaluateToken(Arrived(c), "Space")
    <3>1. c.symbols = w
      BY DEF Normalize
    <3>2. IsPlain(c) /\ c.symbols \in Seq(Symbols)
      BY <2>1, <3>1, KeysArePlain
    <3>3. Arrived(c) = Text(c.symbols, c.upper \cap DOMAIN c.symbols)
      BY <3>2, PlainArrives
    <3>4. Normalize(Arrived(c)) = w
      BY <3>1, <3>3 DEF Normalize, Text
    <3>5. token.token = Arrived(c)
      BY DEF EvaluateToken
    <3> HIDE DEF token
    <3>6. EvaluateRequest(token) = Leave
      BY <2>5, <3>4, <3>5 DEF EvaluateRequest
    <3> QED
      BY <3>2, <3>6, PipeMeans DEF token
  <2> QED
    BY <2>6, <2>7
<1> QED
  BY <1>1, EngineInvariantHolds, PTL


\* A dictionary that is written out and read back is the same, at the bound on entries
\* too (personal.rs 94-173): the lines come in the order of the keys, each one adds an
\* entry, and before each one there is room for it.
THEOREM RoundTripCorrect == Spec => []PersonalRoundTrip
<1>1. EngineInv => PersonalRoundTrip
  BY ReadBack DEF EngineInv, PersonalRoundTrip
<1> QED
  BY <1>1, EngineInvariantHolds, PTL

-----------------------------------------------------------------------------
(* The candidates without the cap.                                         *)

Swaps(w) == {Swap(w, i) : i \in SwapsAt(w)}

\* A swap changes the first of its two places, and is the only one that does so first.
LEMMA SwapMeans ==
  ASSUME NEW S, NEW w \in Seq(S), NEW i \in SwapsAt(w)
  PROVE  /\ i \in 1 .. Len(w) /\ i + 1 \in 1 .. Len(w)
         /\ DOMAIN Swap(w, i) = 1 .. Len(w)
         /\ Swap(w, i)[i] # w[i]
         /\ \A k \in 1 .. Len(w) : k < i => Swap(w, i)[k] = w[k]
<1>1. /\ i \in 1 .. Len(w) /\ i + 1 \in 1 .. Len(w) /\ w[i] # w[i + 1] /\ i # i + 1
      /\ DOMAIN w = 1 .. Len(w)
  BY DEF SwapsAt
<1>2. /\ DOMAIN Swap(w, i) = DOMAIN w
      /\ Swap(w, i)[i] = w[i + 1]
      /\ \A k \in DOMAIN w : k # i /\ k # i + 1 => Swap(w, i)[k] = w[k]
  BY <1>1 DEF Swap
<1>3. \A k \in 1 .. Len(w) : k < i => k # i /\ k # i + 1
  BY <1>1
<1> QED
  BY <1>1, <1>2, <1>3

\* Two swaps at different places give different words, and none gives the word itself.
LEMMA SwapsDiffer ==
  ASSUME NEW S, NEW w \in Seq(S)
  PROVE  /\ \A i \in SwapsAt(w) : Swap(w, i) # w
         /\ \A i, j \in SwapsAt(w) : Swap(w, i) = Swap(w, j) => i = j
<1>1. ASSUME NEW i \in SwapsAt(w) PROVE Swap(w, i) # w
  BY SwapMeans
<1>2. ASSUME NEW i \in SwapsAt(w), NEW j \in SwapsAt(w), i < j PROVE Swap(w, i) # Swap(w, j)
  <2>1. Swap(w, i)[i] # w[i] /\ i \in 1 .. Len(w)
    BY SwapMeans
  <2>2. Swap(w, j)[i] = w[i]
    BY <1>2, <2>1, SwapMeans
  <2> QED
    BY <2>1, <2>2
<1>3. \A i \in SwapsAt(w) : i \in Int
  BY SwapMeans
<1>4. ASSUME NEW i \in SwapsAt(w), NEW j \in SwapsAt(w), Swap(w, i) = Swap(w, j) PROVE i = j
  <2>1. ~(i < j) /\ ~(j < i)
    BY <1>2, <1>4
  <2>2. i \in Int /\ j \in Int
    BY <1>3
  <2> QED
    BY <2>1, <2>2
<1> QED
  BY <1>1, <1>4

\* The beginning of a list that is not longer than the bound is the whole list.
LEMMA WholeList ==
  ASSUME NEW S, IsFiniteSet(S), NEW seq, Lists(seq, S), NEW n \in Nat, Cardinality(S) <= n
  PROVE  ToSet(FirstOf(seq, n)) = S
<1> DEFINE N == Cardinality(S)
           r == FirstOf(seq, n)
<1>1. N \in Nat
  BY FS_CardinalityType
<1>2. seq \in [1 .. N -> S] /\ \A x \in S : \E k \in 1 .. N : seq[k] = x
  BY DEF Lists
<1> HIDE DEF N
<1>3. seq \in Seq(S) /\ Len(seq) = N
  BY <1>1, <1>2
<1>4. /\ r \in Seq(S) /\ Len(r) = N
      /\ \A i \in 1 .. N : r[i] = seq[i]
  <2>1. n <= N => n = N
    BY <1>1 DEF N
  <2> QED
    BY <1>3, <2>1, FirstOfSeq
<1> HIDE DEF r
<1>5. ToSet(r) = {r[i] : i \in 1 .. N}
  BY <1>4 DEF ToSet
<1>6. \A i \in 1 .. N : r[i] \in S
  BY <1>2, <1>4
<1>7. \A x \in S : \E i \in 1 .. N : r[i] = x
  BY <1>2, <1>4
<1>8. ToSet(r) = S
  BY <1>5, <1>6, <1>7
<1> QED
  BY <1>8 DEF r

\* The words of a dictionary that are near, as candidates finds them: what the automaton
\* accepts and the swaps.
LEMMA NearMeans ==
  ASSUME NEW lex, NEW w
  PROVE  DOMAIN lex \cap (Within(w, MaxEditDistance(w)) \cup Neighbours(w))
           = Matches(lex, w) \cup (DOMAIN lex \cap Swaps(w))
<1>1. OneEdit(w) \subseteq Within(w, MaxEditDistance(w))
  BY DEF Within
<1>2. Neighbours(w) = OneEdit(w) \cup Swaps(w)
  BY DEF Neighbours, Swaps
<1> QED
  BY <1>1, <1>2 DEF Matches

\* Below the cap the stream yields every match, at its number of edits.
LEMMA StreamedAll ==
  ASSUME NEW lex \in Lexicons, NEW w \in Seq(Symbols),
         Cardinality(Matches(lex, w)) <= RawMatchCap
  PROVE  Streamed(lex, w) = {Raw(lex, v, Edits(w, v)) : v \in Matches(lex, w)}
<1> DEFINE M == Matches(lex, w)
           found == FirstOf(KeysInOrder(M), RawMatchCap)
           max == MaxEditDistance(w)
<1>1. M \in SUBSET Keys /\ IsFiniteSet(M) /\ M \subseteq Within(w, max)
  <2>1. M \in SUBSET DOMAIN lex /\ M \subseteq Within(w, max)
    BY DEF Matches
  <2> HIDE DEF M
  <2> QED
    BY <2>1, LexiconWords, FS_Subset
<1>2. Cardinality(M) <= RawMatchCap /\ RawMatchCap \in Nat
  BY LexiconAssumption
<1>3. max \in {1, 2}
  BY DEF MaxEditDistance
<1>4. Streamed(lex, w) = {Raw(lex, v, BoundedLevenshtein(w, v, max)) : v \in ToSet(found)}
  BY DEF Streamed, KeysInOrder
<1> HIDE DEF M, max
<1>5. Lists(KeysInOrder(M), M)
  BY <1>1, KeysListed
<1>6. ToSet(found) = M
  BY <1>1, <1>2, <1>5, WholeList
<1> HIDE DEF found
<1>7. \A v \in M : BoundedLevenshtein(w, v, max) = Edits(w, v)
  <2> TAKE v \in M
  <2>1. v \in Seq(DictionarySymbols) /\ v \in Within(w, max)
    BY <1>1 DEF Keys
  <2>2. DictionarySymbols \subseteq Symbols
    BY SymbolsMean
  <2> QED
    BY <1>3, <2>1, <2>2, DistanceIsEdits
<1>8. Streamed(lex, w) = {Raw(lex, v, Edits(w, v)) : v \in M}
  BY <1>4, <1>6, <1>7
<1> QED
  BY <1>8 DEF M

\* The distance of a word that is near, without a table.
Apart(w, v) == IF v = w THEN 0 ELSE IF v \in Neighbours(w) THEN 1 ELSE 2

NearIn(lex, w) == DOMAIN lex \cap (Within(w, MaxEditDistance(w)) \cup Neighbours(w))

\* The swaps that the stream has not found have room: together with what it has found
\* they are no more than the words that are near.
LEMMA RoomForAll ==
  ASSUME NEW lex \in Lexicons, NEW w \in Seq(Symbols), NEW raw,
         IsFiniteSet(raw), Cardinality(raw) <= Cardinality(Matches(lex, w)),
         Cardinality(NearIn(lex, w)) <= RawMatchCap,
         NEW new \in SUBSET SwapsAt(w),
         \A i \in new : Swap(w, i) \in DOMAIN lex /\ Swap(w, i) \notin Matches(lex, w),
         NEW i \in new
  PROVE  Cardinality({j \in new : j < i}) + Cardinality(raw) < RawMatchCap
<1> DEFINE M == Matches(lex, w)
           N == NearIn(lex, w)
           P == {j \in new : j < i}
           f == [j \in new |-> Swap(w, j)]
<1>1. /\ N = M \cup (DOMAIN lex \cap Swaps(w))
      /\ N \in SUBSET DOMAIN lex
  BY NearMeans DEF NearIn
<1>2. IsFiniteSet(N) /\ Cardinality(N) <= RawMatchCap
  BY <1>1, LexiconWords, FS_Subset
<1>3. \A j \in new : Swap(w, j) \in N \ M
  BY <1>1 DEF Swaps
<1>4. \A j \in new : j \in Int
  BY SwapMeans
<1>5. f \in Injection(new, N \ M)
  BY <1>3, SwapsDiffer DEF Injection, IsInjective
<1>6. M \in SUBSET N /\ N \ M \in SUBSET N /\ M \cup (N \ M) = N /\ M \cap (N \ M) = {}
  BY <1>1
<1> HIDE DEF M, N, f
<1>7. /\ IsFiniteSet(M) /\ IsFiniteSet(N \ M)
      /\ Cardinality(M) \in Nat /\ Cardinality(N \ M) \in Nat /\ Cardinality(N) \in Nat
  BY <1>2, <1>6, FS_Subset, FS_CardinalityType
<1>8. Cardinality(N) = Cardinality(M) + Cardinality(N \ M)
  <2> DEFINE R == N \ M
  <2>1. M \cup R = N /\ M \cap R = {} /\ IsFiniteSet(R) /\ Cardinality(R) \in Nat
    BY <1>6, <1>7
  <2> HIDE DEF R
  <2>2. Cardinality(M \cup R) = Cardinality(M) + Cardinality(R) - Cardinality(M \cap R)
    BY <1>7, <2>1, FS_Union
  <2>3. Cardinality({}) = 0
    BY FS_EmptySet
  <2>4. Cardinality(N) = Cardinality(M) + Cardinality(R) - Cardinality({})
    BY <2>1, <2>2, Zenon
  <2>5. Cardinality(N) = Cardinality(M) + Cardinality(R)
    BY <1>7, <2>1, <2>3, <2>4
  <2> QED
    BY <2>5 DEF R
<1>9. /\ IsFiniteSet(new) /\ Cardinality(new) <= Cardinality(N \ M)
      /\ Cardinality(new) \in Nat
  BY <1>5, <1>7, FS_Injection, FS_CardinalityType
<1>10. P \in SUBSET new /\ P # new
  BY <1>4
<1> HIDE DEF P
<1>11. Cardinality(P) <= Cardinality(new) /\ Cardinality(P) # Cardinality(new)
       /\ Cardinality(P) \in Nat
  BY <1>9, <1>10, FS_Subset, FS_CardinalityType
<1>12. Cardinality(raw) \in Nat /\ RawMatchCap \in Nat /\ Cardinality(raw) <= Cardinality(M)
  BY FS_CardinalityType, LexiconAssumption DEF M
<1>13. Cardinality(P) + Cardinality(raw) < RawMatchCap
  BY <1>2, <1>7, <1>8, <1>9, <1>11, <1>12
<1> QED
  BY <1>13 DEF P

\* Below the cap the search yields every word that is near, at its distance.
LEMMA AllAreFound ==
  ASSUME NEW lex \in Lexicons, NEW w \in Seq(Symbols), Cardinality(NearIn(lex, w)) <= RawMatchCap
  PROVE  WithTranspositions(lex, w, Streamed(lex, w))
           = {Raw(lex, v, Apart(w, v)) : v \in NearIn(lex, w)}
<1> DEFINE M == Matches(lex, w)
           N == NearIn(lex, w)
           raw == Streamed(lex, w)
           seen == {r.word : r \in raw}
           hits == {i \in SwapsAt(w) : Swap(w, i) \in DOMAIN lex}
           new == {i \in hits : Swap(w, i) \notin seen}
           room == {i \in new :
                      Cardinality({j \in new : j < i}) + Cardinality(raw) < RawMatchCap}
           nearer(r) == IF \E i \in hits : Swap(w, i) = r.word
                        THEN [r EXCEPT !.distance = Min({@, 1})] ELSE r
           g == [v \in M |-> Raw(lex, v, Edits(w, v))]
<1>1. WithTranspositions(lex, w, raw)
        = {nearer(r) : r \in raw} \cup {Raw(lex, Swap(w, i), 1) : i \in room}
  BY DEF WithTranspositions
<1>2. /\ N = M \cup (DOMAIN lex \cap Swaps(w))
      /\ N \in SUBSET DOMAIN lex
  BY NearMeans DEF NearIn
<1>3. IsFiniteSet(N) /\ Cardinality(N) <= RawMatchCap
  BY <1>2, LexiconWords, FS_Subset
<1>4. M \in SUBSET N
  BY <1>2
<1>5. IsFiniteSet(M) /\ Cardinality(M) <= RawMatchCap
  <2>1. IsFiniteSet(M) /\ Cardinality(M) <= Cardinality(N)
    BY <1>3, <1>4, FS_Subset
  <2>2. Cardinality(M) \in Nat /\ Cardinality(N) \in Nat /\ RawMatchCap \in Nat
    BY <1>3, <2>1, FS_CardinalityType, LexiconAssumption
  <2> QED
    BY <1>3, <2>1, <2>2
<1>6. raw = {g[v] : v \in M}
  BY <1>5, StreamedAll
<1> HIDE DEF N, raw
<1>7. seen = M
  <2>1. \A v \in M : g[v].word = v
    BY DEF Raw
  <2> HIDE DEF M, g
  <2> QED
    BY <1>6, <2>1
<1>8. IsFiniteSet(raw) /\ Cardinality(raw) <= Cardinality(M)
  <2>1. g \in Surjection(M, raw)
    BY <1>6 DEF Surjection
  <2> QED
    BY <1>5, <2>1, FS_Surjection
<1>9. hits = {i \in SwapsAt(w) : Swap(w, i) \in DOMAIN lex \cap Swaps(w)}
  BY DEF Swaps
<1> HIDE DEF seen
<1>10. room = new
  <2>1. new \in SUBSET SwapsAt(w)
    OBVIOUS
  <2>2. \A i \in new : Swap(w, i) \in DOMAIN lex /\ Swap(w, i) \notin M
    BY <1>7
  <2> HIDE DEF new, hits, M
  <2>3. \A i \in new : Cardinality({j \in new : j < i}) + Cardinality(raw) < RawMatchCap
    BY <1>3, <1>8, <2>1, <2>2, RoomForAll DEF M, N
  <2> QED
    BY <2>3
<1>11. ASSUME NEW v \in M PROVE nearer(g[v]) = Raw(lex, v, Apart(w, v))
  <2>1. /\ g[v].word = v /\ g[v].distance = Edits(w, v)
        /\ g[v] = Raw(lex, v, Edits(w, v))
    BY DEF Raw
  <2>2. v \in DOMAIN lex
    BY <1>2, <1>4
  <2>3. CASE \E i \in hits : Swap(w, i) = v
    <3>1. v # w /\ v \in Neighbours(w)
      BY <2>3, SwapsDiffer DEF Neighbours
    <3>2. Apart(w, v) = 1 /\ Edits(w, v) \in {1, 2}
      BY <3>1 DEF Apart, Edits
    <3>3. Min({Edits(w, v), 1}) = 1
      BY <3>2, MinOfTwo
    <3>4. nearer(g[v]) = [g[v] EXCEPT !.distance = Min({g[v].distance, 1})]
      BY <2>1, <2>3
    <3>5. nearer(g[v]) = [Raw(lex, v, Edits(w, v)) EXCEPT !.distance = 1]
      BY <2>1, <3>3, <3>4
    <3> QED
      BY <3>2, <3>5 DEF Raw
  <2>4. CASE ~ \E i \in hits : Swap(w, i) = v
    <3>1. v \notin Swaps(w)
      BY <2>2, <2>4 DEF Swaps
    <3>2. Apart(w, v) = Edits(w, v)
      BY <3>1 DEF Apart, Edits, Neighbours, Swaps
    <3>3. nearer(g[v]) = g[v]
      BY <2>1, <2>4
    <3> QED
      BY <2>1, <3>2, <3>3
  <2> QED
    BY <2>3, <2>4
<1>12. {nearer(r) : r \in raw} = {Raw(lex, v, Apart(w, v)) : v \in M}
  <2> HIDE DEF nearer, g, M
  <2> QED
    BY <1>6, <1>11
<1>13. ASSUME NEW i \in new
       PROVE  Swap(w, i) \in N \ M /\ Raw(lex, Swap(w, i), 1) = Raw(lex, Swap(w, i), Apart(w, Swap(w, i)))
  <2>1. Swap(w, i) # w /\ Swap(w, i) \in Neighbours(w)
    BY SwapsDiffer DEF Neighbours
  <2>2. Apart(w, Swap(w, i)) = 1
    BY <2>1 DEF Apart
  <2>3. Swap(w, i) \in DOMAIN lex \cap Swaps(w) /\ Swap(w, i) \notin M
    BY <1>7 DEF Swaps
  <2> QED
    BY <1>2, <2>2, <2>3
<1>14. \A v \in N \ M : \E i \in new : Swap(w, i) = v
  <2> TAKE v \in N \ M
  <2>1. v \in DOMAIN lex /\ v \in Swaps(w)
    BY <1>2
  <2> QED
    BY <1>7, <2>1 DEF Swaps
<1> HIDE DEF new, hits, M, nearer
<1>15. {Raw(lex, Swap(w, i), 1) : i \in room} = {Raw(lex, v, Apart(w, v)) : v \in N \ M}
  BY <1>10, <1>13, <1>14
<1>16. {Raw(lex, v, Apart(w, v)) : v \in M} \cup {Raw(lex, v, Apart(w, v)) : v \in N \ M}
         = {Raw(lex, v, Apart(w, v)) : v \in N}
  BY <1>4
<1> HIDE DEF room
<1>17. WithTranspositions(lex, w, raw) = {Raw(lex, v, Apart(w, v)) : v \in N}
  BY <1>1, <1>12, <1>15, <1>16
<1> QED
  BY <1>17 DEF raw, N

\* The words near the token, counted in the dictionary that is loaded.
LEMMA BelowTheCap ==
  ASSUME lexicon \in Lexicons, ~CapReached(Asked)
  PROVE  Cardinality(NearIn(lexicon, Asked)) <= RawMatchCap
<1> DEFINE N == NearIn(lexicon, Asked)
<1>1. N = Near(Asked)
  BY DEF Near, NearIn
<1>2. N \in SUBSET DOMAIN lexicon /\ IsFiniteSet(DOMAIN lexicon)
  BY LexiconWords DEF NearIn
<1> HIDE DEF N
<1>3. Cardinality(N) \in Nat /\ RawMatchCap \in Nat
  BY <1>2, FS_Subset, FS_CardinalityType, LexiconAssumption
<1>4. ~(Cardinality(N) > RawMatchCap)
  BY <1>1 DEF CapReached
<1> QED
  BY <1>3, <1>4 DEF N

\* As long as the cap on raw matches is not reached, the candidates are the best of all
\* the words near the token, under distances defined without a table (compact_fst.rs
\* 150-224): the stream yields every match at its number of edits, every swap has room,
\* and the rest is the order.
THEOREM CandidatesCorrect == Spec => []CandidatesAreTheBest
<1>1. EngineInv => CandidatesAreTheBest
  <2> SUFFICES ASSUME EngineInv, Decided, ~CapReached(Asked)
               PROVE  Candidates(lexicon, Asked)
                        = FirstOf(RawsInOrder({Raw(lexicon, v, Apart(Asked, v)) : v \in Near(Asked)}),
                                  MaxLexiconCandidates)
    BY DEF CandidatesAreTheBest, RawsInOrder, Apart
  <2> DEFINE w == Asked
  <2>1. lexicon \in Lexicons
    BY DEF EngineInv
  <2>2. w \in Seq(Symbols)
    <3>1. IsText(last.text)
      BY DecidedMeans
    <3> QED
      BY <3>1 DEF IsText, Asked, Normalize, Symbols
  <2>3. Near(w) = NearIn(lexicon, w)
    BY DEF Near, NearIn
  <2>4. Cardinality(NearIn(lexicon, w)) <= RawMatchCap
    BY <2>1, BelowTheCap
  <2> HIDE DEF w
  <2>5. WithTranspositions(lexicon, w, Streamed(lexicon, w))
          = {Raw(lexicon, v, Apart(w, v)) : v \in NearIn(lexicon, w)}
    BY <2>1, <2>2, <2>4, AllAreFound
  <2>6. Candidates(lexicon, w)
          = FirstOf(RawsInOrder(WithTranspositions(lexicon, w, Streamed(lexicon, w))),
                    MaxLexiconCandidates)
    BY DEF Candidates, RawsInOrder
  <2> QED
    BY <2>3, <2>5, <2>6 DEF w
<1> QED
  BY <1>1, EngineInvariantHolds, PTL

-----------------------------------------------------------------------------
(* Corrections by the dictionary.                                          *)

\* The proposals with one word.
Twins(lex, dict, w, x) == {d \in All(lex, dict, w) : d.word = x}

\* Every candidate is merged from the proposals of its word, and every proposal is merged
\* into one.
LEMMA AssembledFrom ==
  ASSUME NEW lex \in Lexicons, NEW dict \in Dictionaries, NEW w \in Keys
  PROVE  /\ \A m \in Assembled(lex, dict, w) : MergesTo(Twins(lex, dict, w, m.word), m)
         /\ \A c \in All(lex, dict, w) : \E m \in Assembled(lex, dict, w) : m.word = c.word
<1> DEFINE S == All(lex, dict, w)
           f == [c \in S |-> Merged(Twins(lex, dict, w, c.word))]
           A == Assembled(lex, dict, w)
<1>1. A = {f[c] : c \in S}
  BY DEF Assemble, All, Assembled, Twins
<1>2. \A c \in S : IsProposal(dict, w, c)
  BY AllMeans
<1>3. \A c \in S : f[c] = Merged(Twins(lex, dict, w, c.word))
  OBVIOUS
<1> HIDE DEF f, A
<1>4. ASSUME NEW c \in S PROVE MergesTo(Twins(lex, dict, w, c.word), f[c]) /\ f[c].word = c.word
  <2> DEFINE T == Twins(lex, dict, w, c.word)
  <2>1. T \in SUBSET CandidateRecords /\ c \in T /\ \A d \in T : d.word = c.word
    BY <1>2 DEF IsProposal, Twins
  <2> HIDE DEF T
  <2>2. MergesTo(T, Merged(T))
    BY <2>1, MergedMeans
  <2>3. Merged(T) = f[c]
    BY <1>3 DEF T
  <2>4. MergesTo(T, f[c])
    BY <2>2, <2>3
  <2>5. f[c].word = c.word
    BY <2>1, <2>4 DEF MergesTo
  <2> QED
    BY <2>4, <2>5 DEF T
<1>5. ASSUME NEW m \in A PROVE MergesTo(Twins(lex, dict, w, m.word), m)
  <2>1. PICK c \in S : m = f[c]
    BY <1>1
  <2> QED
    BY <1>4, <2>1
<1>6. \A c \in S : \E m \in A : m.word = c.word
  BY <1>1, <1>4
<1> QED
  BY <1>5, <1>6 DEF A

\* The ratio of the frequencies, where the product saturates.
Triple(f, g) == f # MaxFrequency => 3 * g <= f

\* A frequency that is at least the saturated product.
LEMMA SaturatingMulMeans ==
  ASSUME NEW f \in Frequencies, NEW g \in Frequencies, f >= SaturatingMul(g)
  PROVE  Triple(f, g)
<1>1. f \in Nat /\ g \in Nat /\ f <= MaxFrequency /\ MaxFrequency \in Nat
  BY FrequenciesBounded
<1>2. SaturatingMul(g) = MaxFrequency \/ SaturatingMul(g) = g * 3
  BY DEF SaturatingMul, FreqDominanceRatio
<1> QED
  BY <1>1, <1>2 DEF Triple

\* A reward that is higher by the reward for a triple frequency.
LEMMA RewardsDiffer ==
  ASSUME NEW f \in Frequencies, NEW g \in Frequencies, Reward[f] - Reward[g] > 1320
  PROVE  Triple(f, g)
<1>1. \A x, y \in Frequencies : Reward[x] - Reward[y] > TripledReward => 3 * y <= x
  BY DecisionAssumption
<1>2. TripledReward = 1320
  BY DEF TripledReward
<1> QED
  BY <1>1, <1>2 DEF Triple

\* A candidate of the dictionary that stands out is one edit away, and has three times the
\* frequency of every other one that is as near.
LEMMA StandingOutMeans ==
  ASSUME NEW dict, NEW w, NEW A, IsAssembly(dict, w, A), NEW text, IsShaped(text),
         A # {}, StandsOut(Ranked(text, A)),
         NEW top, top = Ranked(text, A)[1].candidate, top.source = "lexicon"
  PROVE  /\ top.distance = 1
         /\ \A m \in A : m # top /\ m.distance <= 1 => Triple(top.frequency, m.frequency)
<1> DEFINE seq == Ranked(text, A)
<1>1. IsRanking(seq, text, A)
  BY RankedMeans
<1>2. /\ Len(seq) \in Nat /\ seq # <<>> /\ (seq = <<>> <=> Len(seq) = 0)
      /\ \A i \in DOMAIN seq : seq[i].candidate \in A
                               /\ seq[i].score = Score(text, seq[i].candidate)
  BY TopMeans
<1>3. StandsOut(seq) /\ top = seq[1].candidate
  OBVIOUS
<1> HIDE DEF seq
<1>4. /\ DOMAIN seq = 1 .. Len(seq) /\ 1 \in DOMAIN seq
      /\ \A c \in A : \E n \in 1 .. Len(seq) : seq[n].candidate = c
      /\ \A m, n \in 1 .. Len(seq) : m < n => seq[m].score <= seq[n].score
  <2>1. seq \in Seq(Scored(text, A))
    BY <1>1 DEF IsRanking
  <2> QED
    BY <1>1, <1>2, <2>1 DEF IsRanking
<1>5. ASSUME NEW c \in A
      PROVE  LET most == 100000 * c.distance - Reward[c.frequency] - Bonus(c.source)
             IN  /\ Score(text, c) \in Int /\ most - 8000 <= Score(text, c) /\ Score(text, c) <= most
                 /\ c.distance \in Nat /\ c.distance # 0
                 /\ c.frequency \in Frequencies
                 /\ Reward[c.frequency] \in Int /\ Reward[c.frequency] <= 26617
                 /\ Bonus(c.source) \in Nat
  <2>1. IsCandidate(dict, w, c)
    BY DEF IsAssembly
  <2>2. c \in CandidateRecords /\ c.word \in Keys \ {<<>>} /\ c.frequency \in Frequencies
        /\ c.distance \in Nat /\ c.distance # 0
    BY <2>1 DEF IsCandidate, CandidateRecords, Answers
  <2>3. Restorable(text, c.word)
    BY <2>2, RestoreMeans
  <2>4. Reward[c.frequency] \in Int /\ Reward[c.frequency] <= 26617
    BY <2>2, RewardMeans
  <2>5. Bonus(c.source) \in Nat
    BY DEF Bonus, UserBonus, RuleBonus
  <2> QED
    BY <2>2, <2>3, <2>4, <2>5, ScoreMeans
<1>6. top \in A /\ seq[1].score = Score(text, top)
  BY <1>2, <1>3, <1>4
<1> DEFINE d == top.distance
           r == Reward[top.frequency]
           s == Score(text, top)
<1>7. /\ s \in Int /\ d \in Nat /\ d # 0 /\ r \in Int /\ r <= 26617
      /\ 100000 * d - r - 8000 <= s
  <2>1. Bonus(top.source) = 0
    BY DEF Bonus
  <2>2. /\ Score(text, top) \in Int
        /\ (100000 * top.distance - Reward[top.frequency] - Bonus(top.source)) - 8000 <= Score(text, top)
        /\ top.distance \in Nat /\ top.distance # 0
        /\ Reward[top.frequency] \in Int /\ Reward[top.frequency] <= 26617
    BY <1>5, <1>6
  <2> HIDE DEF s, d, r
  <2>3. (100000 * d - r - 0) - 8000 <= s /\ s \in Int /\ d \in Nat /\ d # 0 /\ r \in Int /\ r <= 26617
    BY <2>1, <2>2 DEF s, d, r
  <2> QED
    BY <2>3
<1>8. s <= 110000
  BY <1>3, <1>6 DEF StandsOut, MaxAutoScore
<1>9. top.frequency \in Frequencies
  BY <1>5, <1>6
<1> HIDE DEF d, r, s
<1>10. d = 1
  BY <1>7, <1>8
<1>11. ASSUME NEW m \in A, m # top, m.distance <= 1 PROVE Triple(top.frequency, m.frequency)
  <2>1. PICK i \in 1 .. Len(seq) : seq[i].candidate = m
    BY <1>4
  <2>2. i # 1 /\ Len(seq) > 1 /\ 2 \in 1 .. Len(seq)
    BY <1>2, <1>3, <1>11, <2>1
  <2>3. m.frequency \in Frequencies /\ seq[i].score = Score(text, m)
    <3>1. m.frequency \in Frequencies
      BY <1>5, <1>11
    <3>2. seq[i].score = Score(text, seq[i].candidate)
      BY <1>2, <1>4, <2>1
    <3> QED
      BY <2>1, <3>1, <3>2, Zenon
  <2>4. CASE Dominates(seq)
    <3>1. top.frequency >= SaturatingMul(m.frequency)
      BY <1>3, <1>4, <1>10, <1>11, <2>1, <2>2, <2>4 DEF Dominates, d
    <3> QED
      BY <1>9, <2>3, <3>1, SaturatingMulMeans
  <2>5. CASE seq[2].score - seq[1].score >= MinMargin
    <3> DEFINE e == Score(text, m)
               q == Reward[m.frequency]
               b == Bonus(m.source)
               o == m.distance
    <3>1. /\ e \in Int /\ e <= 100000 * o - q - b
          /\ o \in Nat /\ o <= 1 /\ q \in Int /\ b \in Nat
      BY <1>5, <1>11
    <3>2. seq[2].score <= e /\ seq[2].score \in Int /\ seq[1].score = s
      <4>1. seq[2].score \in Int
        <5>1. seq[2].candidate \in A /\ seq[2].score = Score(text, seq[2].candidate)
          BY <1>2, <1>4, <2>2
        <5>2. \A c \in A : Score(text, c) \in Int
          BY <1>5
        <5> QED
          BY <5>1, <5>2, Zenon
      <4>2. seq[2].score <= seq[i].score
        <5>1. CASE i = 2
          BY <4>1, <5>1
        <5>2. CASE i # 2
          BY <1>4, <2>1, <2>2, <5>2
        <5> QED
          BY <5>1, <5>2
      <4> QED
        BY <1>6, <2>3, <4>1, <4>2 DEF s
    <3>3. seq[2].score - s >= 25000
      BY <2>5, <3>2 DEF MinMargin
    <3> DEFINE z == seq[2].score
    <3> HIDE DEF e, q, b, o, z
    <3>4. z <= e /\ z \in Int /\ z - s >= 25000
      BY <3>2, <3>3 DEF z
    <3>5. e <= 100000 - q
      BY <3>1
    <3>6. r - q > 1320
      BY <1>7, <1>10, <3>1, <3>4, <3>5
    <3>7. Reward[top.frequency] - Reward[m.frequency] > 1320
      BY <3>6 DEF r, q
    <3> QED
      BY <1>9, <2>3, <3>7, RewardsDiffer
  <2> QED
    BY <1>3, <2>2, <2>4, <2>5 DEF StandsOut
<1> QED
  BY <1>10, <1>11 DEF d

\* A candidate that is neither of two words and at least as good as a third.
Rivalled(lex, w, v, x, y) ==
  \E h \in ToSet(Candidates(lex, w)) :
    /\ h.word # x /\ h.word # y
    /\ h.word = v \/ Better(h, Raw(lex, v, Apart(w, v)))

\* Below the cap the candidates are words that are near, with their distance and frequency;
\* a word that is near is one of them or comes after all of them, and then there is one
\* that is none of any two words.
LEMMA CandidatesKept ==
  ASSUME NEW lex \in Lexicons, NEW w \in Seq(Symbols), Cardinality(NearIn(lex, w)) <= RawMatchCap
  PROVE  /\ \A h \in ToSet(Candidates(lex, w)) :
              /\ h.word \in NearIn(lex, w) /\ h.frequency = lex[h.word]
              /\ h.distance = Apart(w, h.word)
         /\ \A v \in NearIn(lex, w) : \A x, y : v # x /\ v # y => Rivalled(lex, w, v, x, y)
<1> DEFINE N == NearIn(lex, w)
           f == [v \in N |-> Raw(lex, v, Apart(w, v))]
           S == {f[v] : v \in N}
           seq == RawsInOrder(S)
           kept == FirstOf(seq, MaxLexiconCandidates)
           n == Cardinality(S)
<1>1. Candidates(lex, w) = kept
  <2>1. WithTranspositions(lex, w, Streamed(lex, w)) = S
    BY AllAreFound
  <2>2. Candidates(lex, w)
          = FirstOf(RawsInOrder(WithTranspositions(lex, w, Streamed(lex, w))),
                    MaxLexiconCandidates)
    BY DEF Candidates, RawsInOrder
  <2> HIDE DEF S
  <2> QED
    BY <2>1, <2>2
<1>2. N \in SUBSET DOMAIN lex
  BY DEF NearIn
<1>3. \A v \in N : /\ f[v].word = v /\ f[v].frequency = lex[v] /\ f[v].distance = Apart(w, v)
                   /\ f[v] \in Raws /\ f[v] = Raw(lex, v, Apart(w, v))
  <2> TAKE v \in N
  <2>1. v \in Keys /\ lex[v] \in Nat
    BY <1>2, LexiconWords
  <2>2. Apart(w, v) \in Nat
    BY DEF Apart
  <2> QED
    BY <2>1, <2>2 DEF Raw, Raws
<1> HIDE DEF N, f
<1>4. S \in SUBSET Raws /\ IsFiniteSet(S)
  <2>1. IsFiniteSet(N)
    BY <1>2, LexiconWords, FS_Subset
  <2> QED
    BY <1>3, <2>1, ImageIsFinite
<1>5. n \in Nat /\ MaxLexiconCandidates \in Nat /\ MaxLexiconCandidates >= 3
  BY <1>4, FS_CardinalityType, LexiconAssumption
<1>6. Lists(seq, S) /\ Sorted(seq, RawOrder)
  BY <1>4, RawsListed
<1> HIDE DEF seq
<1>7. /\ seq \in [1 .. n -> S] /\ Len(seq) = n /\ seq \in Seq(S)
      /\ \A s \in S : \E k \in 1 .. n : seq[k] = s
      /\ \A i, j \in 1 .. n : seq[i] = seq[j] => i = j
      /\ \A i, j \in 1 .. n : i < j => Better(seq[i], seq[j])
  <2>1. \A i, j \in DOMAIN seq : i < j => <<seq[i], seq[j]>> \in RawOrder
    BY <1>6 DEF Sorted
  <2>2. \A i, j \in DOMAIN seq : <<seq[i], seq[j]>> \in RawOrder => Better(seq[i], seq[j])
    BY DEF RawOrder
  <2>3. /\ seq \in [1 .. n -> S]
        /\ \A s \in S : \E k \in 1 .. n : seq[k] = s
        /\ \A i, j \in 1 .. n : seq[i] = seq[j] => i = j
    BY <1>6 DEF Lists
  <2> HIDE DEF n, S
  <2>4. DOMAIN seq = 1 .. n /\ Len(seq) = n /\ seq \in Seq(S)
    BY <1>5, <2>3
  <2> QED
    BY <2>1, <2>2, <2>3, <2>4
<1>8. \A s \in S : s.word \in N /\ s = f[s.word]
  BY <1>3
<1> HIDE DEF n, S
<1>9. /\ kept \in Seq(S)
      /\ \A i \in 1 .. n : i <= MaxLexiconCandidates => seq[i] \in ToSet(kept)
  <2>1. /\ kept \in Seq(S)
        /\ Len(kept) = IF MaxLexiconCandidates <= n THEN MaxLexiconCandidates ELSE n
        /\ \A i \in 1 .. Len(kept) : kept[i] = seq[i]
    BY <1>5, <1>7, FirstOfSeq
  <2> HIDE DEF kept
  <2>2. \A i \in 1 .. Len(kept) : kept[i] \in ToSet(kept)
    BY <2>1 DEF ToSet
  <2>3. \A i \in 1 .. n : i <= MaxLexiconCandidates => i \in 1 .. Len(kept)
    BY <1>5, <2>1
  <2> QED
    BY <2>1, <2>2, <2>3
<1> HIDE DEF kept
<1>10. ASSUME NEW h \in ToSet(kept)
       PROVE  h.word \in N /\ h.frequency = lex[h.word] /\ h.distance = Apart(w, h.word)
  <2>1. h \in S
    BY <1>9 DEF ToSet
  <2> QED
    BY <1>3, <1>8, <2>1
<1>11. ASSUME NEW v \in N, NEW x, NEW y, v # x, v # y
       PROVE  \E h \in ToSet(kept) : /\ h.word # x /\ h.word # y
                                     /\ h.word = v \/ Better(h, Raw(lex, v, Apart(w, v)))
  <2>1. f[v] \in S
    BY DEF S
  <2>2. PICK k \in 1 .. n : seq[k] = f[v]
    BY <1>7, <2>1
  <2>3. CASE k <= MaxLexiconCandidates
    <3>1. f[v] \in ToSet(kept) /\ f[v].word = v
      BY <1>3, <1>9, <2>2, <2>3
    <3> QED
      BY <1>11, <3>1
  <2>4. CASE ~(k <= MaxLexiconCandidates)
    <3>1. /\ 1 \in 1 .. n /\ 2 \in 1 .. n /\ 3 \in 1 .. n
          /\ 1 < k /\ 2 < k /\ 3 < k
          /\ 1 <= MaxLexiconCandidates /\ 2 <= MaxLexiconCandidates /\ 3 <= MaxLexiconCandidates
      BY <1>5, <2>4
    <3>2. \A i \in {1, 2, 3} : seq[i] \in ToSet(kept) /\ Better(seq[i], f[v]) /\ seq[i] \in S
      BY <1>7, <1>9, <2>2, <3>1
    <3>3. \A i, j \in {1, 2, 3} : seq[i].word = seq[j].word => i = j
      <4> TAKE i, j \in {1, 2, 3}
      <4> HAVE seq[i].word = seq[j].word
      <4>1. seq[i] = f[seq[i].word] /\ seq[j] = f[seq[j].word]
        BY <1>8, <3>2
      <4>2. seq[i] = seq[j]
        BY <4>1
      <4> QED
        BY <1>7, <3>1, <4>2
    <3>4. \E i \in {1, 2, 3} : seq[i].word # x /\ seq[i].word # y
      BY <3>3
    <3> QED
      BY <1>3, <3>2, <3>4
  <2> QED
    BY <2>3, <2>4
<1>12. ASSUME NEW v \in N, NEW x, NEW y, v # x, v # y PROVE Rivalled(lex, w, v, x, y)
  BY <1>1, <1>11, <1>12 DEF Rivalled
<1> QED
  BY <1>1, <1>10, <1>12 DEF N

\* A sequence of some symbols is one of more symbols.
LEMMA SeqOfMore ==
  ASSUME NEW S, NEW T, S \subseteq T, NEW s \in Seq(S)
  PROVE  s \in Seq(T)
<1>1. s \in [1 .. Len(s) -> S] /\ Len(s) \in Nat
  OBVIOUS
<1>2. s \in [1 .. Len(s) -> T]
  BY <1>1
<1> QED
  BY <1>1, <1>2

\* What a candidate of the dictionary alone says of its word.
LEMMA LexiconCandidate ==
  ASSUME NEW lex \in Lexicons, NEW dict \in Dictionaries, NEW w \in Keys,
         Cardinality(NearIn(lex, w)) <= RawMatchCap,
         NEW m \in Assembled(lex, dict, w), m.source = "lexicon"
  PROVE  m.word \in DOMAIN lex /\ m.frequency = lex[m.word] /\ m.distance = Apart(w, m.word)
<1> DEFINE T == Twins(lex, dict, w, m.word)
           H == ToSet(Candidates(lex, w))
<1>1. MergesTo(T, m)
  BY AssembledFrom
<1>2. w \in Seq(Symbols)
  BY SymbolsMean, SeqOfMore DEF Keys
<1>3. \A h \in H : /\ h.word \in DOMAIN lex /\ h.frequency = lex[h.word]
                   /\ h.distance = Apart(w, h.word)
  BY <1>2, CandidatesKept DEF NearIn
<1>4. ASSUME NEW c \in T
      PROVE  c.word = m.word /\ c.frequency = lex[c.word] /\ c.distance = Apart(w, c.word)
             /\ c.word \in DOMAIN lex
  <2>1. c \in All(lex, dict, w) /\ c.word = m.word
    BY DEF Twins
  <2>2. c.source = "lexicon"
    <3>1. Priority[c.source] <= Priority["lexicon"]
      BY <1>1, <1>4 DEF MergesTo
    <3>2. c.source \in Sources
      BY <2>1, AllMeans DEF IsProposal, CandidateRecords
    <3> QED
      BY <3>1, <3>2, PriorityMeans DEF Sources
  <2>3. /\ \A c1 \in RuleCandidates(w) : c1.source = "rule"
        /\ \A p : Candidate(p[2], 1, MaxFrequency, "user").source = "user"
    BY DEF RuleCandidates, Candidate
  <2>4. PICK h \in H : c = Candidate(h.word, h.distance, h.frequency, "lexicon")
    BY <2>1, <2>2, <2>3 DEF All, Proposals
  <2>5. c.word = h.word /\ c.distance = h.distance /\ c.frequency = h.frequency
    BY <2>4 DEF Candidate
  <2> QED
    BY <1>3, <2>1, <2>5
<1>5. /\ \E c \in T : m.distance = c.distance
      /\ \E c \in T : m.frequency = c.frequency
  BY <1>1 DEF MergesTo
<1> HIDE DEF T
<1> QED
  BY <1>4, <1>5

\* A candidate of the search is not lost, and what stands for it is as near and as frequent.
LEMMA RivalStays ==
  ASSUME NEW lex \in Lexicons, NEW dict \in Dictionaries, NEW w \in Keys,
         NEW h \in ToSet(Candidates(lex, w)), h.word # w
  PROVE  \E m \in Assembled(lex, dict, w) :
           m.word = h.word /\ m.distance <= h.distance /\ h.frequency <= m.frequency
<1> DEFINE c == Candidate(h.word, h.distance, h.frequency, "lexicon")
<1>1. /\ c.word = h.word /\ c.distance = h.distance /\ c.frequency = h.frequency
      /\ c \in Proposals(lex, dict, w)
  BY DEF Candidate, Proposals
<1> HIDE DEF c
<1>2. c \in All(lex, dict, w)
  BY <1>1 DEF All
<1>3. PICK m \in Assembled(lex, dict, w) : m.word = c.word
  BY <1>2, AssembledFrom
<1>4. MergesTo(Twins(lex, dict, w, m.word), m) /\ c \in Twins(lex, dict, w, m.word)
  BY <1>2, <1>3, AssembledFrom DEF Twins
<1>5. m.distance <= c.distance /\ c.frequency <= m.frequency
  BY <1>4 DEF MergesTo
<1> QED
  BY <1>1, <1>3, <1>5

\* What the dictionary alone corrects is one edit away, and no other word that is as near
\* has more than a third of its frequency (confidence.rs 169-191), also where the list of
\* candidates was cut: a rival behind the cut is no more frequent than one before it.
THEOREM AutomaticCorrect == Spec => []AutomaticIsClear
<1>1. EngineInv => AutomaticIsClear
  <2> SUFFICES ASSUME EngineInv, ByDictionary, ~CapReached(Asked)
               PROVE  ClearWinnerOf(Asked, last.keys)
    BY DEF AutomaticIsClear
  <2> DEFINE text == last.text
             w == Asked
             A == Assembled(lexicon, personal, w)
  <2>1. Decided /\ last.keys.kind = "Replace"
    BY DEF ByDictionary
  <2>2. IsText(text) /\ last.late \in BOOLEAN /\ last.keys = AtBoundary(text, last.late)
    BY <2>1, DecidedMeans
  <2>3. w = Normalize(text)
    BY DEF Asked
  <2>4. /\ w \in Keys /\ IsShaped(text) /\ IsAssembly(personal, w, A)
        /\ \E top \in A : /\ Normalize(last.keys.replacement) = top.word
                          /\ top = Ranked(text, A)[1].candidate /\ StandsOut(Ranked(text, A))
    BY <2>1, <2>2, <2>3, TypedMeans
  <2>5. PICK top \in A : /\ Normalize(last.keys.replacement) = top.word
                         /\ top = Ranked(text, A)[1].candidate /\ StandsOut(Ranked(text, A))
    BY <2>4
  <2>6. lexicon \in Lexicons /\ personal \in Dictionaries
    BY DEF EngineInv
  <2>7. Cardinality(NearIn(lexicon, w)) <= RawMatchCap
    BY <2>6, BelowTheCap
  <2> HIDE DEF w
  <2>8. top.source = "lexicon" /\ top.word # w
    <3>1. IsCandidate(personal, w, top)
      BY <2>4, <2>5 DEF IsAssembly
    <3>2. top.word \notin WantedFor(w) \cup RuleFor(w)
      BY <2>5 DEF ByDictionary, w
    <3>3. top.source # "rule" /\ top.source # "user"
      BY <3>1, <3>2 DEF IsCandidate, WantedFor
    <3>4. top.source \in Sources /\ top.word # w
      BY <3>1 DEF IsCandidate, CandidateRecords
    <3> QED
      BY <3>3, <3>4 DEF Sources
  <2>9. top.word \in DOMAIN lexicon /\ top.frequency = lexicon[top.word]
        /\ top.distance = Apart(w, top.word)
    BY <2>4, <2>5, <2>6, <2>7, <2>8, LexiconCandidate
  <2>10. /\ top.distance = 1
         /\ \A m \in A : m # top /\ m.distance <= 1 => Triple(top.frequency, m.frequency)
    <3> HIDE DEF A
    <3> QED
      BY <2>4, <2>5, <2>8, StandingOutMeans
  <2>11. top.word \in Neighbours(w)
    BY <2>8, <2>9, <2>10 DEF Apart
  <2>12. w \in Seq(Symbols)
    BY <2>4, SymbolsMean, SeqOfMore DEF Keys
  <2>13. ASSUME NEW r \in (DOMAIN lexicon \cap Neighbours(w)) \ {top.word, w},
                lexicon[top.word] # MaxFrequency
         PROVE  3 * lexicon[r] <= lexicon[top.word]
    <3>1. r \in NearIn(lexicon, w) /\ Apart(w, r) = 1 /\ r # top.word /\ r # w
      BY DEF NearIn, Apart
    <3>2. PICK h \in ToSet(Candidates(lexicon, w)) :
            /\ h.word # top.word /\ h.word # w
            /\ h.word = r \/ Better(h, Raw(lexicon, r, Apart(w, r)))
      <4>1. Rivalled(lexicon, w, r, top.word, w)
        BY <2>6, <2>7, <2>12, <3>1, CandidatesKept
      <4> QED
        BY <4>1 DEF Rivalled
    <3>3. /\ h.word \in DOMAIN lexicon /\ h.frequency = lexicon[h.word]
          /\ h.distance = Apart(w, h.word)
      BY <2>6, <2>7, <2>12, CandidatesKept DEF NearIn
    <3>4. h.distance \in {1, 2} /\ (h.word = r => h.distance = 1)
      BY <3>1, <3>2, <3>3 DEF Apart
    <3>5. lexicon[r] \in Nat /\ h.frequency \in Nat /\ lexicon[top.word] \in Nat
      BY <2>6, <2>9, <3>3, LexiconWords
    <3>6. h.distance = 1 /\ lexicon[r] <= h.frequency
      <4>1. CASE h.word = r
        BY <3>3, <3>4, <3>5, <4>1
      <4>2. CASE Better(h, Raw(lexicon, r, Apart(w, r)))
        <5> DEFINE raw == Raw(lexicon, r, Apart(w, r))
        <5>1. raw.distance = 1 /\ raw.frequency = lexicon[r]
          BY <3>1 DEF Raw
        <5>2. Better(h, raw)
          BY <4>2
        <5> HIDE DEF raw
        <5>3. IF h.distance # 1 THEN h.distance < 1
              ELSE IF h.frequency # lexicon[r] THEN h.frequency > lexicon[r]
              ELSE Precedes(h.word, raw.word)
          BY <5>1, <5>2 DEF Better
        <5> QED
          BY <3>4, <3>5, <5>3
      <4> QED
        BY <3>2, <4>1, <4>2
    <3>7. PICK m \in A : m.word = h.word /\ m.distance <= h.distance /\ h.frequency <= m.frequency
      BY <2>4, <2>6, <3>2, RivalStays
    <3>8. m # top /\ m.distance <= 1
      BY <3>2, <3>6, <3>7
    <3>9. m.frequency \in Nat
      BY <2>4, <3>7, FrequenciesBounded DEF IsAssembly, IsCandidate, CandidateRecords
    <3>10. 3 * m.frequency <= lexicon[top.word]
      BY <2>9, <2>10, <2>13, <3>8 DEF Triple
    <3>11. lexicon[r] <= m.frequency
      BY <3>5, <3>6, <3>7, <3>9
    <3> QED
      BY <3>5, <3>9, <3>10, <3>11
  <2> QED
    BY <2>5, <2>11, <2>13 DEF ClearWinnerOf, w
<1> QED
  BY <1>1, EngineInvariantHolds, PTL

=============================================================================
