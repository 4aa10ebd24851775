------------------------------ MODULE FoldLemmas ------------------------------
(***************************************************************************)
(* Lemmas on the loops of the models: over the elements of a sequence      *)
(* (FoldLeft) and sums over a finite set (MapThenSumSet).                  *)
(*                                                                         *)
(* Both folds unfold to a function chosen to satisfy a recursion equation  *)
(* on the subsets of the domain.  That such a function exists, and what it *)
(* computes, is shown by induction in the form of the least counterexample *)
(* (WFMin): the set of the numbers that satisfy the claim has no least     *)
(* number outside it.                                                      *)
(***************************************************************************)
EXTENDS Integers, Sequences, SequencesExt, FiniteSetsExt, FiniteSetTheorems,
        SequenceTheorems, WellFoundedInduction, TLAPS

(* A non-empty set of natural numbers has a least element.                 *)
LEMMA LeastNat ==
  ASSUME NEW T \in SUBSET Nat, T # {}
  PROVE  \E n \in T : \A m \in T : n <= m
<1>1. PICK n \in T : \A m \in T : <<m, n>> \notin OpToRel(<, Nat)
  BY WFMin, NatLessThanWellFounded, Zenon
<1>2. \A m \in T : ~(m < n)
  BY <1>1 DEF OpToRel
<1> QED BY <1>2

(* Induction: a set that has 0 and is closed under successor is Nat.       *)
LEMMA NatSetInduction ==
  ASSUME NEW T \in SUBSET Nat, 0 \in T, \A n \in T : n + 1 \in T
  PROVE  T = Nat
<1> SUFFICES ASSUME Nat \ T # {} PROVE FALSE  OBVIOUS
<1>1. PICK n \in Nat \ T : \A m \in Nat \ T : n <= m  BY LeastNat
<1> QED BY <1>1

(* Max of a non-empty set of bounded numbers is its largest element.       *)
LEMMA MaxOfBounded ==
  ASSUME NEW n \in Nat, NEW S \in SUBSET (0..n), S # {}
  PROVE  Max(S) \in S /\ \A x \in S : x <= Max(S)
<1> DEFINE T == {k \in Nat : n - k \in S}
<1>1. T # {}
  <2>1. PICK x \in S : TRUE  OBVIOUS
  <2>2. n - (n - x) = x /\ n - x \in Nat  BY <2>1
  <2> QED BY <2>1, <2>2
<1>2. PICK k \in T : \A m \in T : k <= m  BY <1>1, LeastNat
<1>3. n - k \in S /\ \A x \in S : n - k >= x
  <2>1. ASSUME NEW x \in S PROVE n - k >= x
    <3>1. n - x \in T
      <4>1. n - (n - x) = x /\ n - x \in Nat  BY <2>1
      <4> QED BY <4>1
    <3> QED BY <1>2, <3>1
  <2> QED BY <1>2, <2>1
<1>4. Max(S) \in S /\ \A x \in S : Max(S) >= x
  BY <1>3 DEF Max
<1> QED BY <1>4

(* A sequence cut after its first c elements.                              *)
LEMMA CutSeq ==
  ASSUME NEW S, NEW s \in Seq(S), NEW c \in 0..Len(s)
  PROVE  /\ SubSeq(s, 1, c) \in Seq(S) /\ SubSeq(s, c + 1, Len(s)) \in Seq(S)
         /\ Len(SubSeq(s, 1, c)) = c /\ Len(SubSeq(s, c + 1, Len(s))) = Len(s) - c
         /\ \A i \in 1..(Len(s) - c) : SubSeq(s, c + 1, Len(s))[i] = s[c + i]
         /\ SubSeq(s, 1, c) \o SubSeq(s, c + 1, Len(s)) = s
<1>1. Len(s) \in Nat /\ c \in Int /\ 1 \in Int /\ c + 1 \in Int /\ Len(s) \in Int
  OBVIOUS
<1>2. \A i \in 1..Len(s) : s[i] \in S  BY ElementOfSeq
<1>3. \A i \in 1..c : s[i] \in S  BY <1>1, <1>2
<1>4. \A i \in (c + 1)..Len(s) : s[i] \in S  BY <1>1, <1>2
<1>5. SubSeq(s, 1, c) \in Seq(S) /\ Len(SubSeq(s, 1, c)) = c
  BY <1>1, <1>3, SubSeqProperties
<1>6. /\ SubSeq(s, c + 1, Len(s)) \in Seq(S)
      /\ Len(SubSeq(s, c + 1, Len(s))) = IF c + 1 <= Len(s)
                                         THEN Len(s) - (c + 1) + 1 ELSE 0
      /\ \A i \in 1..(Len(s) - (c + 1) + 1) :
           SubSeq(s, c + 1, Len(s))[i] = s[(c + 1) + i - 1]
  BY <1>1, <1>4, SubSeqProperties
<1>7. SubSeq(s, 1, c) \o SubSeq(s, c + 1, Len(s)) = s
  <2>1. 1 \in 1..(Len(s) + 1) /\ c \in (1 - 1)..Len(s) /\ Len(s) \in c..Len(s)
    BY <1>1
  <2> QED BY <2>1, ConcatAdjacentSubSeq, SubSeqFull
<1>8. Len(SubSeq(s, c + 1, Len(s))) = Len(s) - c  BY <1>1, <1>6
<1>9. \A i \in 1..(Len(s) - c) : SubSeq(s, c + 1, Len(s))[i] = s[c + i]
  <2> SUFFICES ASSUME NEW i \in 1..(Len(s) - c)
               PROVE  SubSeq(s, c + 1, Len(s))[i] = s[c + i]
    OBVIOUS
  <2>1. i \in 1..(Len(s) - (c + 1) + 1) /\ (c + 1) + i - 1 = c + i  BY <1>1
  <2> QED BY <1>6, <2>1
<1> QED BY <1>5, <1>6, <1>7, <1>8, <1>9

-----------------------------------------------------------------------------
(* Folds over a sequence.                                                  *)

(* it is the function FoldLeft chooses, for the step F[<<x, k>>] that      *)
(* takes the result x of the elements before the k-th.                     *)
Folds(it, base, F, n) ==
  it = [t \in SUBSET (1..n) |->
          IF t = {} THEN base ELSE F[<<it[t \ {Max(t)}], Max(t)>>]]

(* p[k] is the result of the first k elements.                             *)
PrefixResults(p, Typ, base, F, n) ==
  /\ p \in [0..n -> Typ] /\ p[0] = base
  /\ \A k \in 1..n : p[k] = F[<<p[k - 1], k>>]

(* The largest element of a set that contains the upper bound.             *)
LEMMA MaxIsBound ==
  ASSUME NEW n \in Nat, NEW t \in SUBSET (1..n), n \in t
  PROVE  Max(t) = n
<1>1. t \in SUBSET (0..n)  OBVIOUS
<1>2. Max(t) \in t /\ n <= Max(t)  BY <1>1, MaxOfBounded
<1>3. Max(t) \in 1..n  BY <1>2
<1> QED BY <1>2, <1>3

(* The recursion of FoldLeft has a solution.                               *)
LEMMA FoldsExists ==
  ASSUME NEW n \in Nat, NEW Typ, NEW base \in Typ,
         NEW F \in [Typ \X (1..n) -> Typ]
  PROVE  \E it : Folds(it, base, F, n) /\ it \in [SUBSET (1..n) -> Typ]
<1> DEFINE Good(m) == \E it : /\ Folds(it, base, F, m)
                             /\ it \in [SUBSET (1..m) -> Typ]
           T == {m \in Nat : m <= n => Good(m)}
<1> HIDE DEF Good
<1>1. 0 \in T
  <2> DEFINE it == [t \in SUBSET (1..0) |-> base]
  <2>1. \A t \in SUBSET (1..0) : t = {}  OBVIOUS
  <2>2. Folds(it, base, F, 0)  BY <2>1 DEF Folds
  <2>3. it \in [SUBSET (1..0) -> Typ]  OBVIOUS
  <2>4. Good(0)  BY <2>2, <2>3 DEF Good
  <2> QED BY <2>4
<1>2. ASSUME NEW m \in T PROVE m + 1 \in T
  <2> SUFFICES ASSUME m + 1 <= n PROVE Good(m + 1)  OBVIOUS
  <2>1. m \in Nat /\ m <= n /\ Good(m)  OBVIOUS
  <2>2. PICK g : Folds(g, base, F, m) /\ g \in [SUBSET (1..m) -> Typ]
    BY <2>1 DEF Good
  <2>3. \A t \in SUBSET (1..(m + 1)) : t \ {m + 1} \in SUBSET (1..m)
    BY <2>1
  <2> DEFINE it == [t \in SUBSET (1..(m + 1)) |->
                      IF m + 1 \in t THEN F[<<g[t \ {m + 1}], m + 1>>] ELSE g[t]]
  <2>4. it \in [SUBSET (1..(m + 1)) -> Typ]
    <3>1. m + 1 \in 1..n  BY <2>1
    <3>2. \A t \in SUBSET (1..(m + 1)) : m + 1 \notin t => t \in SUBSET (1..m)
      BY <2>1
    <3>3. ASSUME NEW t \in SUBSET (1..(m + 1))
          PROVE  (IF m + 1 \in t THEN F[<<g[t \ {m + 1}], m + 1>>] ELSE g[t]) \in Typ
      <4>1. CASE m + 1 \in t
        <5>1. g[t \ {m + 1}] \in Typ  BY <2>2, <2>3
        <5>2. F[<<g[t \ {m + 1}], m + 1>>] \in Typ  BY <3>1, <5>1
        <5> QED BY <4>1, <5>2
      <4>2. CASE m + 1 \notin t  BY <2>2, <3>2, <4>2
      <4> QED BY <4>1, <4>2
    <3> QED BY <3>3
  <2>5. ASSUME NEW t \in SUBSET (1..(m + 1))
        PROVE  it[t] = IF t = {} THEN base ELSE F[<<it[t \ {Max(t)}], Max(t)>>]
    <3>1. CASE m + 1 \in t
      <4>1. Max(t) = m + 1  BY <2>1, <3>1, MaxIsBound
      <4>2. t \ {m + 1} \in SUBSET (1..(m + 1)) /\ m + 1 \notin t \ {m + 1}
        OBVIOUS
      <4>3. it[t \ {m + 1}] = g[t \ {m + 1}]  BY <4>2
      <4> QED BY <3>1, <4>1, <4>3
    <3>2. CASE m + 1 \notin t
      <4>1. t \in SUBSET (1..m)  BY <2>1, <3>2
      <4>2. it[t] = g[t]  BY <3>2
      <4>3. g[t] = IF t = {} THEN base ELSE F[<<g[t \ {Max(t)}], Max(t)>>]
        BY <2>2, <4>1 DEF Folds
      <4>4. t \ {Max(t)} \in SUBSET (1..(m + 1)) /\ m + 1 \notin t \ {Max(t)}
        BY <3>2
      <4>5. it[t \ {Max(t)}] = g[t \ {Max(t)}]  BY <4>4
      <4> QED BY <4>2, <4>3, <4>5
    <3> QED BY <3>1, <3>2
  <2>6. Folds(it, base, F, m + 1)
    <3>1. it = [t \in SUBSET (1..(m + 1)) |-> it[t]]  OBVIOUS
    <3> HIDE DEF it
    <3> QED BY <2>5, <3>1 DEF Folds
  <2> HIDE DEF it
  <2> QED BY <2>4, <2>6 DEF Good
<1>3. T = Nat
  <2> HIDE DEF T
  <2>1. T \in SUBSET Nat  BY DEF T
  <2> QED BY <1>1, <1>2, <2>1, NatSetInduction
<1>4. Good(n)  BY <1>3
<1> QED BY <1>4 DEF Good

(* The recursion, on the initial segments of the sequence.                 *)
LEMMA SegmentStep ==
  ASSUME NEW n \in Nat, NEW k \in 1..n
  PROVE  /\ 1..k \in SUBSET (1..n) /\ 1..k # {}
         /\ Max(1..k) = k /\ (1..k) \ {k} = 1..(k - 1)
<1> DEFINE t == 1..k
<1>1. /\ t \in SUBSET (1..n) /\ t \in SUBSET (1..k) /\ k \in t /\ k \in Nat
      /\ t \ {k} = 1..(k - 1)
  OBVIOUS
<1> HIDE DEF t
<1>2. Max(t) = k  BY <1>1, MaxIsBound
<1> QED BY <1>1, <1>2 DEF t

(* it takes the steps of a fold along the initial segments.                *)
StepsAlong(it, Typ, base, F, n) ==
  /\ it[{}] = base
  /\ \A k \in 1..n :
       it[1..(k - 1)] \in Typ => it[1..k] = F[<<it[1..(k - 1)], k>>]

(* What takes the steps of a fold along the initial segments computes the  *)
(* fold.                                                                   *)
LEMMA FoldsValue ==
  ASSUME NEW n \in Nat, NEW Typ, NEW base, NEW F, NEW it, NEW p,
         StepsAlong(it, Typ, base, F, n), PrefixResults(p, Typ, base, F, n)
  PROVE  it[1..n] = p[n]
<1> DEFINE T == {k \in Nat : k <= n => it[1..k] = p[k]}
<1>1. 0 \in T
  <2>1. 1..0 = {}  OBVIOUS
  <2> QED BY <2>1 DEF PrefixResults, StepsAlong
<1>2. ASSUME NEW k \in T PROVE k + 1 \in T
  <2> SUFFICES ASSUME k + 1 <= n PROVE it[1..(k + 1)] = p[k + 1]  OBVIOUS
  <2>1. /\ k \in Nat /\ it[1..k] = p[k] /\ k + 1 \in 1..n /\ (k + 1) - 1 = k
        /\ k \in 0..n
    OBVIOUS
  <2>2. p[k + 1] = F[<<p[k], k + 1>>] /\ p[k] \in Typ
    BY <2>1 DEF PrefixResults
  <2> QED BY <2>1, <2>2 DEF StepsAlong
<1>3. T = Nat
  <2>1. T \in SUBSET Nat  OBVIOUS
  <2> HIDE DEF T
  <2> QED BY <1>1, <1>2, <2>1, NatSetInduction
<1> QED BY <1>3

(* A fold has its results for all initial segments.                        *)
LEMMA PrefixesExist ==
  ASSUME NEW n \in Nat, NEW Typ, NEW base \in Typ,
         NEW F \in [Typ \X (1..n) -> Typ]
  PROVE  \E p : PrefixResults(p, Typ, base, F, n)
<1>1. PICK it : Folds(it, base, F, n) /\ it \in [SUBSET (1..n) -> Typ]
  BY FoldsExists
<1> DEFINE p == [k \in 0..n |-> it[1..k]]
<1>2. p \in [0..n -> Typ]
  <2>1. \A k \in 0..n : 1..k \in SUBSET (1..n)  OBVIOUS
  <2> QED BY <1>1, <2>1
<1>3. p[0] = base
  <2>1. 1..0 = {} /\ 1..0 \in SUBSET (1..n)  OBVIOUS
  <2> QED BY <1>1, <2>1 DEF Folds
<1>4. ASSUME NEW k \in 1..n PROVE p[k] = F[<<p[k - 1], k>>]
  <2> DEFINE t == 1..k
             u == 1..(k - 1)
  <2>1. t \in SUBSET (1..n) /\ t # {} /\ Max(t) = k /\ t \ {k} = u
    BY SegmentStep, Zenon
  <2>2. k \in 0..n /\ k - 1 \in 0..n  OBVIOUS
  <2>3. p[k] = it[t] /\ p[k - 1] = it[u]  BY <2>2
  <2> HIDE DEF t, u, p
  <2>4. it[t] = F[<<it[u], k>>]  BY <1>1, <2>1 DEF Folds
  <2> QED BY <2>3, <2>4
<1> HIDE DEF p
<1> QED BY <1>2, <1>3, <1>4 DEF PrefixResults

-----------------------------------------------------------------------------
(* Sums over a sequence.                                                   *)

(* The step that adds v[k].                                                *)
Adding(v, n) == [xk \in Int \X (1..n) |-> xk[1] + v[xk[2]]]

(* p[k] is the sum of the first k values.                                  *)
PrefixSums(p, v, n) ==
  /\ p \in [0..n -> Int] /\ p[0] = 0
  /\ \A k \in 1..n : p[k] = p[k - 1] + v[k]

(* Prefix sums are the prefix results of the adding step.                  *)
LEMMA AddingSteps ==
  ASSUME NEW n \in Nat, NEW v \in [1..n -> Int]
  PROVE  /\ Adding(v, n) \in [Int \X (1..n) -> Int]
         /\ \A x \in Int, k \in 1..n : Adding(v, n)[<<x, k>>] = x + v[k]
         /\ \A p : PrefixSums(p, v, n) <=> PrefixResults(p, Int, 0, Adding(v, n), n)
<1>1. Adding(v, n) \in [Int \X (1..n) -> Int]
  BY DEF Adding
<1>2. \A x \in Int, k \in 1..n : Adding(v, n)[<<x, k>>] = x + v[k]
  BY DEF Adding
<1>3. ASSUME NEW p PROVE PrefixSums(p, v, n) <=> PrefixResults(p, Int, 0, Adding(v, n), n)
  <2>1. ASSUME p \in [0..n -> Int], NEW k \in 1..n
        PROVE  Adding(v, n)[<<p[k - 1], k>>] = p[k - 1] + v[k]
    <3>1. p[k - 1] \in Int  BY <2>1
    <3> QED BY <1>2, <3>1
  <2> QED BY <2>1 DEF PrefixSums, PrefixResults
<1> QED BY <1>1, <1>2, <1>3

(* Every sequence of numbers has its prefix sums.                          *)
LEMMA PrefixSumsExist ==
  ASSUME NEW n \in Nat, NEW v \in [1..n -> Int]
  PROVE  \E p : PrefixSums(p, v, n)
<1> DEFINE F == Adding(v, n)
<1>1. F \in [Int \X (1..n) -> Int]  BY AddingSteps
<1>2. \A p : PrefixSums(p, v, n) <=> PrefixResults(p, Int, 0, F, n)
  BY AddingSteps
<1> HIDE DEF F
<1>3. 0 \in Int  OBVIOUS
<1>4. \E p : PrefixResults(p, Int, 0, F, n)  BY <1>1, <1>3, PrefixesExist, Zenon
<1> QED BY <1>2, <1>4

(* The sum of a sequence of numbers.                                       *)
SumSeq(v) == FoldLeft(+, 0, v)

(* it solves the recursion of a FoldLeft that adds v[1], v[2], ... v[n].   *)
FoldsSum(it, v, n) ==
  it = [t \in SUBSET (1..n) |->
          IF t = {} THEN 0 ELSE it[t \ {Max(t)}] + v[Max(t)]]

(* There is a solution, and every solution ends in the last prefix sum.    *)
LEMMA FoldsSumValue ==
  ASSUME NEW n \in Nat, NEW v \in [1..n -> Int]
  PROVE  /\ \E it : FoldsSum(it, v, n)
         /\ \A it, p : FoldsSum(it, v, n) /\ PrefixSums(p, v, n) => it[1..n] = p[n]
<1> DEFINE F == Adding(v, n)
<1>1. /\ F \in [Int \X (1..n) -> Int]
      /\ \A x \in Int, k \in 1..n : F[<<x, k>>] = x + v[k]
      /\ \A p : PrefixSums(p, v, n) => PrefixResults(p, Int, 0, F, n)
  BY AddingSteps
<1> HIDE DEF F
<1>2. \E it : FoldsSum(it, v, n)
  <2>1. PICK it : Folds(it, 0, F, n) /\ it \in [SUBSET (1..n) -> Int]
    <3>1. 0 \in Int  OBVIOUS
    <3> QED BY <1>1, <3>1, FoldsExists, Zenon
  <2>2. ASSUME NEW t \in SUBSET (1..n)
        PROVE  it[t] = IF t = {} THEN 0 ELSE it[t \ {Max(t)}] + v[Max(t)]
    <3>1. CASE t = {}
      BY <2>1, <3>1 DEF Folds
    <3>2. CASE t # {}
      <4>1. Max(t) \in 1..n
        <5>1. t \in SUBSET (0..n)  OBVIOUS
        <5> QED BY <3>2, <5>1, MaxOfBounded
      <4>2. it[t \ {Max(t)}] \in Int  BY <2>1
      <4>3. it[t] = F[<<it[t \ {Max(t)}], Max(t)>>]  BY <2>1, <3>2 DEF Folds
      <4> QED BY <1>1, <3>2, <4>1, <4>2, <4>3
    <3> QED BY <3>1, <3>2
  <2>3. it = [t \in SUBSET (1..n) |-> it[t]]  BY <2>1
  <2> QED BY <2>2, <2>3 DEF FoldsSum
<1>3. ASSUME NEW it, NEW p, FoldsSum(it, v, n), PrefixSums(p, v, n)
      PROVE  it[1..n] = p[n]
  <2>1. it[{}] = 0  BY <1>3 DEF FoldsSum
  <2>2. ASSUME NEW k \in 1..n PROVE it[1..k] = it[1..(k - 1)] + v[k]
    <3> DEFINE t == 1..k
               u == 1..(k - 1)
    <3>1. t \in SUBSET (1..n) /\ t # {} /\ Max(t) = k /\ t \ {k} = u
      BY SegmentStep, Zenon
    <3> HIDE DEF t, u
    <3>2. it[t] = it[u] + v[k]  BY <1>3, <3>1 DEF FoldsSum
    <3> QED BY <3>2 DEF t, u
  <2>3. StepsAlong(it, Int, 0, F, n)
    BY <1>1, <2>1, <2>2 DEF StepsAlong
  <2>4. PrefixResults(p, Int, 0, F, n)  BY <1>1, <1>3
  <2>5. \A Typ, base, G : StepsAlong(it, Typ, base, G, n)
                           /\ PrefixResults(p, Typ, base, G, n) => it[1..n] = p[n]
    BY FoldsValue, ZenonT(60)
  <2> QED BY <2>3, <2>4, <2>5
<1> QED BY <1>2, <1>3

(* SumSeq is the last of the prefix sums.                                  *)
LEMMA SumSeqValue ==
  ASSUME NEW v \in Seq(Int), NEW p, PrefixSums(p, v, Len(v))
  PROVE  SumSeq(v) = p[Len(v)]
<1>1. DOMAIN v = 1..Len(v) /\ Len(v) \in Nat /\ v \in [1..Len(v) -> Int]
  OBVIOUS
<1> DEFINE it == CHOOSE f : FoldsSum(f, v, Len(v))
<1>2. SumSeq(v) = it[1..Len(v)]
  BY <1>1 DEF SumSeq, FoldLeft, MapThenFoldSet, FoldsSum
<1>3. FoldsSum(it, v, Len(v))  BY <1>1, FoldsSumValue
<1> HIDE DEF it
<1> QED BY <1>1, <1>2, <1>3, FoldsSumValue

(* A fold that adds v[1], v[2], ... in order is the sum of v.              *)
LEMMA FoldsSumIsSum ==
  ASSUME NEW v \in Seq(Int), NEW it, FoldsSum(it, v, Len(v))
  PROVE  it[1..Len(v)] = SumSeq(v)
<1>1. Len(v) \in Nat /\ v \in [1..Len(v) -> Int]  OBVIOUS
<1>2. PICK p : PrefixSums(p, v, Len(v))  BY <1>1, PrefixSumsExist
<1> QED BY <1>1, <1>2, FoldsSumValue, SumSeqValue

(* The sum of nothing.                                                     *)
LEMMA SumSeqEmpty == SumSeq(<<>>) = 0
<1> DEFINE v == <<>>
           p == [k \in 0..0 |-> 0]
<1>1. v \in Seq(Int) /\ Len(v) = 0  OBVIOUS
<1>2. PrefixSums(p, v, 0)  BY DEF PrefixSums
<1>3. p[0] = 0  OBVIOUS
<1> HIDE DEF v, p
<1>4. SumSeq(v) = 0  BY <1>1, <1>2, <1>3, SumSeqValue
<1> QED BY <1>4 DEF v

(* The sum of a concatenation.                                             *)
LEMMA SumSeqConcat ==
  ASSUME NEW u \in Seq(Int), NEW v \in Seq(Int)
  PROVE  /\ SumSeq(u \o v) = SumSeq(u) + SumSeq(v)
         /\ SumSeq(u) \in Int /\ SumSeq(v) \in Int
<1> DEFINE n == Len(u)
           m == Len(v)
           w == u \o v
<1>1. /\ n \in Nat /\ u \in [1..n -> Int] /\ m \in Nat /\ v \in [1..m -> Int]
      /\ w \in Seq(Int) /\ Len(w) = n + m
  OBVIOUS
<1>2. PICK p : PrefixSums(p, u, n)  BY <1>1, PrefixSumsExist
<1>3. PICK q : PrefixSums(q, v, m)  BY <1>1, PrefixSumsExist
<1>4. /\ \A k \in 1..n : w[k] = u[k]
      /\ \A k \in (n + 1)..(n + m) : w[k] = v[k - n]
  OBVIOUS
<1> HIDE DEF n, m, w
<1>a. p \in [0..n -> Int] /\ q \in [0..m -> Int] /\ q[0] = 0
  BY <1>2, <1>3 DEF PrefixSums
<1> DEFINE r == [k \in 0..(n + m) |-> IF k <= n THEN p[k] ELSE p[n] + q[k - n]]
<1>5. PrefixSums(r, w, n + m)
  <2>1. r \in [0..(n + m) -> Int]
    <3>1. ASSUME NEW k \in 0..(n + m)
          PROVE  (IF k <= n THEN p[k] ELSE p[n] + q[k - n]) \in Int
      <4>1. CASE k <= n
        <5>1. k \in 0..n  BY <4>1
        <5> QED BY <1>a, <4>1, <5>1
      <4>2. CASE ~(k <= n)
        <5>1. k - n \in 0..m /\ n \in 0..n  BY <1>1, <4>2
        <5> QED BY <1>a, <4>2, <5>1
      <4> QED BY <4>1, <4>2
    <3> QED BY <3>1
  <2>2. r[0] = 0  BY <1>1, <1>2 DEF PrefixSums
  <2>3. ASSUME NEW k \in 1..(n + m) PROVE r[k] = r[k - 1] + w[k]
    <3>1. CASE k <= n
      <4>1. k \in 1..n /\ k - 1 <= n /\ k - 1 \in 0..(n + m)  BY <1>1, <3>1
      <4>2. p[k] = p[k - 1] + u[k]  BY <1>2, <4>1 DEF PrefixSums
      <4> QED BY <1>1, <1>4, <3>1, <4>1, <4>2
    <3>2. CASE k = n + 1
      <4>1. 1 \in 1..m /\ k - n = 1 /\ k - 1 = n /\ ~(k <= n) /\ n \in 0..(n + m)
        BY <1>1, <3>2
      <4>2. q[1] = q[0] + v[1] /\ q[0] = 0 /\ v[1] \in Int
        BY <1>1, <1>3, <4>1 DEF PrefixSums
      <4>3. w[k] = v[1]  BY <1>1, <1>4, <3>2, <4>1
      <4>4. r[k] = p[n] + q[1] /\ r[k - 1] = p[n]
        BY <1>1, <4>1
      <4> QED BY <4>2, <4>3, <4>4
    <3>3. CASE k > n + 1
      <4>1. /\ k - n \in 1..m /\ ~(k <= n) /\ ~(k - 1 <= n)
            /\ k - 1 \in 0..(n + m) /\ (k - n) - 1 = (k - 1) - n
        BY <1>1, <3>3
      <4>2. q[k - n] = q[(k - 1) - n] + v[k - n]  BY <1>3, <4>1 DEF PrefixSums
      <4>3. w[k] = v[k - n]  BY <1>1, <1>4, <3>3
      <4>a. n \in 0..n /\ (k - 1) - n \in 0..m  BY <1>1, <4>1
      <4>4. p[n] \in Int /\ q[(k - 1) - n] \in Int /\ v[k - n] \in Int
        BY <1>1, <1>a, <4>1, <4>a
      <4>5. r[k] = p[n] + q[k - n] /\ r[k - 1] = p[n] + q[(k - 1) - n]
        BY <4>1
      <4> QED BY <4>2, <4>3, <4>4, <4>5
    <3> QED BY <1>1, <3>1, <3>2, <3>3
  <2> HIDE DEF r
  <2> QED BY <2>1, <2>2, <2>3 DEF PrefixSums
<1>6. SumSeq(w) = r[n + m]  BY <1>1, <1>5, SumSeqValue
<1>7. SumSeq(u) = p[n] /\ SumSeq(v) = q[m]
  BY <1>2, <1>3, SumSeqValue DEF n, m
<1>8. r[n + m] = p[n] + q[m] /\ p[n] \in Int /\ q[m] \in Int
  <2>1. n \in 0..n /\ m \in 0..m /\ n + m \in 0..(n + m)  BY <1>1
  <2>2. p[n] \in Int /\ q[m] \in Int  BY <1>a, <2>1
  <2>3. CASE m = 0
    BY <1>1, <1>a, <2>1, <2>2, <2>3
  <2>4. CASE m # 0
    <3>1. ~(n + m <= n) /\ (n + m) - n = m  BY <1>1, <2>4
    <3> QED BY <2>1, <2>2, <3>1
  <2> QED BY <2>2, <2>3, <2>4
<1> QED BY <1>6, <1>7, <1>8 DEF w

(* The sum of one number.                                                  *)
LEMMA SumSeqOne ==
  ASSUME NEW x \in Int
  PROVE  SumSeq(<<x>>) = x
<1> DEFINE v == <<x>>
           p == [k \in 0..1 |-> IF k = 0 THEN 0 ELSE x]
<1>1. v \in Seq(Int) /\ Len(v) = 1 /\ v[1] = x  OBVIOUS
<1>2. PrefixSums(p, v, 1)  BY <1>1 DEF PrefixSums
<1>3. p[1] = x  OBVIOUS
<1> HIDE DEF v, p
<1>4. SumSeq(v) = x  BY <1>1, <1>2, <1>3, SumSeqValue
<1> QED BY <1>4 DEF v

(* A sum of natural numbers is one, and no less than any of them.          *)
LEMMA SumSeqNat ==
  ASSUME NEW v \in Seq(Nat)
  PROVE  SumSeq(v) \in Nat
<1>1. v \in Seq(Int) /\ Len(v) \in Nat /\ v \in [1..Len(v) -> Int]
  OBVIOUS
<1>2. PICK p : PrefixSums(p, v, Len(v))  BY <1>1, PrefixSumsExist
<1> DEFINE T == {k \in Nat : k <= Len(v) => p[k] \in Nat}
<1>3. 0 \in T  BY <1>2 DEF PrefixSums
<1>4. ASSUME NEW k \in T PROVE k + 1 \in T
  <2> SUFFICES ASSUME k + 1 <= Len(v) PROVE p[k + 1] \in Nat  OBVIOUS
  <2>1. k \in Nat /\ p[k] \in Nat /\ k + 1 \in 1..Len(v) /\ (k + 1) - 1 = k
    BY <1>1
  <2>2. p[k + 1] = p[k] + v[k + 1] /\ v[k + 1] \in Nat
    BY <1>2, <2>1 DEF PrefixSums
  <2> QED BY <2>1, <2>2
<1>5. T = Nat
  <2>1. T \in SUBSET Nat  OBVIOUS
  <2> HIDE DEF T
  <2> QED BY <1>3, <1>4, <2>1, NatSetInduction
<1>6. p[Len(v)] \in Nat  BY <1>1, <1>5
<1> QED BY <1>1, <1>2, <1>6, SumSeqValue

-----------------------------------------------------------------------------
(* The sum of f over the elements of a sequence.                           *)

Weight(f, s) == FoldLeft(LAMBDA sum, e : sum + f[e], 0, s)

Weights(f, s) == [i \in 1..Len(s) |-> f[s[i]]]

(* Weight is the sum of the weights.                                       *)
LEMMA WeightIsSum ==
  ASSUME NEW S, NEW f \in [S -> Int], NEW s \in Seq(S)
  PROVE  /\ Weights(f, s) \in Seq(Int) /\ Len(Weights(f, s)) = Len(s)
         /\ Weight(f, s) = SumSeq(Weights(f, s))
<1> DEFINE n == Len(s)
           v == Weights(f, s)
           Solves(it) == it = [t \in SUBSET (1..n) |->
                                 IF t = {} THEN 0
                                 ELSE it[t \ {Max(t)}] + f[s[Max(t)]]]
           it == CHOOSE g : Solves(g)
<1>1. DOMAIN s = 1..n /\ n \in Nat  OBVIOUS
<1>2. v \in Seq(Int) /\ Len(v) = n /\ v \in [1..n -> Int]
      /\ \A k \in 1..n : v[k] = f[s[k]]
  BY DEF Weights
<1>3. Weight(f, s) = it[1..n]
  BY <1>1 DEF Weight, FoldLeft, MapThenFoldSet
<1> HIDE DEF v, n
<1>4. \A t \in SUBSET (1..n) : t # {} => v[Max(t)] = f[s[Max(t)]]
  <2> SUFFICES ASSUME NEW t \in SUBSET (1..n), t # {}
               PROVE  v[Max(t)] = f[s[Max(t)]]
    OBVIOUS
  <2>1. t \in SUBSET (0..n)  BY <1>1
  <2>2. Max(t) \in t  BY <1>1, <2>1, MaxOfBounded
  <2> QED BY <1>2, <2>2
<1>5. \A g : FoldsSum(g, v, n) <=> Solves(g)
  <2> SUFFICES ASSUME NEW g PROVE FoldsSum(g, v, n) <=> Solves(g)  OBVIOUS
  <2>1. [t \in SUBSET (1..n) |-> IF t = {} THEN 0
                                 ELSE g[t \ {Max(t)}] + v[Max(t)]]
        = [t \in SUBSET (1..n) |-> IF t = {} THEN 0
                                   ELSE g[t \ {Max(t)}] + f[s[Max(t)]]]
    BY <1>4
  <2> QED BY <2>1 DEF FoldsSum
<1>6. \E g : FoldsSum(g, v, n)  BY <1>1, <1>2, FoldsSumValue
<1>7. Solves(it)  BY <1>5, <1>6
<1>8. FoldsSum(it, v, n)  BY <1>5, <1>7
<1> HIDE DEF it
<1>9. it[1..n] = SumSeq(v)  BY <1>2, <1>8, FoldsSumIsSum
<1> QED BY <1>2, <1>3, <1>9 DEF v, n

(* Weights add up.                                                         *)
LEMMA WeightConcat ==
  ASSUME NEW S, NEW f \in [S -> Int], NEW s \in Seq(S), NEW t \in Seq(S)
  PROVE  /\ Weight(f, s \o t) = Weight(f, s) + Weight(f, t)
         /\ Weight(f, s) \in Int /\ Weight(f, t) \in Int
<1>1. s \o t \in Seq(S)  OBVIOUS
<1>2. Weights(f, s \o t) = Weights(f, s) \o Weights(f, t)
  BY DEF Weights
<1> DEFINE u == Weights(f, s)
           v == Weights(f, t)
<1>3. /\ u \in Seq(Int) /\ v \in Seq(Int) /\ Weight(f, s) = SumSeq(u) /\ Weight(f, t) = SumSeq(v)
      /\ Weight(f, s \o t) = SumSeq(Weights(f, s \o t))
  BY <1>1, WeightIsSum
<1>4. Weight(f, s \o t) = SumSeq(u \o v)
  BY <1>2, <1>3
<1> HIDE DEF u, v
<1> QED BY <1>3, <1>4, SumSeqConcat

(* The weight of one element.                                              *)
LEMMA WeightOne ==
  ASSUME NEW S, NEW f \in [S -> Int], NEW e \in S
  PROVE  Weight(f, <<e>>) = f[e]
<1>1. <<e>> \in Seq(S) /\ Weights(f, <<e>>) = <<f[e]>>  BY DEF Weights
<1> QED BY <1>1, WeightIsSum, SumSeqOne

(* Nothing weighs nothing.                                                 *)
LEMMA WeightEmpty ==
  ASSUME NEW S, NEW f \in [S -> Int]
  PROVE  Weight(f, <<>>) = 0
<1>1. <<>> \in Seq(S) /\ Weights(f, <<>>) = <<>>  BY DEF Weights
<1> QED BY <1>1, WeightIsSum, SumSeqEmpty

(* Weights that are natural numbers add up to one.                         *)
LEMMA WeightNat ==
  ASSUME NEW S, NEW f \in [S -> Nat], NEW s \in Seq(S)
  PROVE  Weight(f, s) \in Nat
<1>1. f \in [S -> Int]  OBVIOUS
<1>2. Weights(f, s) \in Seq(Nat)  BY DEF Weights
<1> QED BY <1>1, <1>2, WeightIsSum, SumSeqNat

-----------------------------------------------------------------------------
(* The loop that keeps the elements above r.                               *)

Above(r, s) ==
  FoldLeft(LAMBDA remaining, e : IF e <= r THEN remaining
                                 ELSE Append(remaining, e), <<>>, s)

(* Of consecutive numbers b + 1, b + 2, ... it keeps what follows the      *)
(* first c, when r is the c-th or, for c = 0, below the first.             *)
LEMMA AboveOfRun ==
  ASSUME NEW s \in Seq(Int), NEW b \in Int, \A i \in 1..Len(s) : s[i] = b + i,
         NEW r \in Int, NEW c \in 0..Len(s), r = b + c \/ (c = 0 /\ r <= b)
  PROVE  Above(r, s) = SubSeq(s, c + 1, Len(s))
<1> DEFINE n == Len(s)
           Typ == Seq(Int)
           F == [xk \in Typ \X (1..n) |-> IF s[xk[2]] <= r THEN xk[1]
                                          ELSE Append(xk[1], s[xk[2]])]
           Solves(it) == it = [t \in SUBSET (1..n) |->
                                 IF t = {} THEN <<>>
                                 ELSE IF s[Max(t)] <= r THEN it[t \ {Max(t)}]
                                      ELSE Append(it[t \ {Max(t)}], s[Max(t)])]
           it == CHOOSE g : Solves(g)
           p == [k \in 0..n |-> SubSeq(s, c + 1, k)]
<1>1. DOMAIN s = 1..n /\ n \in Nat /\ s \in [1..n -> Int]  OBVIOUS
<1>2. Above(r, s) = it[1..n]
  BY <1>1 DEF Above, FoldLeft, MapThenFoldSet
<1> HIDE DEF n
<1>3. /\ F \in [Typ \X (1..n) -> Typ] /\ <<>> \in Typ
      /\ \A x \in Typ, k \in 1..n : F[<<x, k>>] = IF s[k] <= r THEN x
                                                ELSE Append(x, s[k])
  BY <1>1
<1> HIDE DEF F, Typ
<1>4. \E g : Solves(g)
  <2>1. PICK g : Folds(g, <<>>, F, n) /\ g \in [SUBSET (1..n) -> Typ]
    BY <1>1, <1>3, FoldsExists
  <2>2. ASSUME NEW t \in SUBSET (1..n)
        PROVE  g[t] = IF t = {} THEN <<>>
                      ELSE IF s[Max(t)] <= r THEN g[t \ {Max(t)}]
                           ELSE Append(g[t \ {Max(t)}], s[Max(t)])
    <3>1. CASE t = {}
      BY <2>1, <3>1 DEF Folds
    <3>2. CASE t # {}
      <4>1. Max(t) \in 1..n
        <5>1. t \in SUBSET (0..n)  BY <1>1
        <5> QED BY <1>1, <3>2, <5>1, MaxOfBounded
      <4>2. g[t \ {Max(t)}] \in Typ  BY <2>1
      <4>3. g[t] = F[<<g[t \ {Max(t)}], Max(t)>>]  BY <2>1, <3>2 DEF Folds
      <4> QED BY <1>3, <3>2, <4>1, <4>2, <4>3
    <3> QED BY <3>1, <3>2
  <2>3. g = [t \in SUBSET (1..n) |-> g[t]]  BY <2>1
  <2> QED BY <2>2, <2>3
<1>5. Solves(it)  BY <1>4
<1> HIDE DEF it
<1>6. StepsAlong(it, Typ, <<>>, F, n)
  <2>1. it[{}] = <<>>  BY <1>5
  <2>2. ASSUME NEW k \in 1..n, it[1..(k - 1)] \in Typ
        PROVE  it[1..k] = F[<<it[1..(k - 1)], k>>]
    <3> DEFINE t == 1..k
               u == 1..(k - 1)
    <3>1. t \in SUBSET (1..n) /\ t # {} /\ Max(t) = k /\ t \ {k} = u
      BY <1>1, SegmentStep, Zenon
    <3>2. it[u] \in Typ  BY <2>2
    <3> HIDE DEF t, u
    <3>3. it[t] = IF s[k] <= r THEN it[u] ELSE Append(it[u], s[k])
      BY <1>5, <3>1
    <3>4. it[t] = F[<<it[u], k>>]  BY <1>3, <3>2, <3>3
    <3> QED BY <3>4 DEF t, u
  <2> QED BY <2>1, <2>2 DEF StepsAlong
<1>7. PrefixResults(p, Typ, <<>>, F, n)
  <2>1. ASSUME NEW k \in 0..n PROVE SubSeq(s, c + 1, k) \in Seq(Int)
    <3>1. c + 1 \in Int /\ k \in Int /\ \A i \in (c + 1)..k : s[i] \in Int
      BY <1>1 DEF n
    <3> QED BY <3>1, SubSeqProperties
  <2>2. p \in [0..n -> Typ]  BY <2>1 DEF Typ
  <2>3. p[0] = <<>>
    <3>1. 0 \in Int /\ c + 1 \in Int /\ 0 < c + 1 /\ 0 \in 0..n  BY <1>1
    <3> QED BY <3>1, SubSeqEmpty
  <2>4. ASSUME NEW k \in 1..n PROVE p[k] = F[<<p[k - 1], k>>]
    <3>1. k \in 0..n /\ k - 1 \in 0..n /\ s[k] = b + k  BY <1>1 DEF n
    <3>2. p[k - 1] \in Typ /\ p[k] = SubSeq(s, c + 1, k)
          /\ p[k - 1] = SubSeq(s, c + 1, k - 1)
      BY <2>2, <3>1
    <3>3. CASE k <= c
      <4>1. s[k] <= r  BY <1>1, <3>1, <3>3 DEF n
      <4>2. p[k] = <<>> /\ p[k - 1] = <<>>
        <5>1. c + 1 \in Int /\ k \in Int /\ k < c + 1 /\ k - 1 \in Int /\ k - 1 < c + 1
          BY <1>1, <3>3
        <5> QED BY <3>2, <5>1, SubSeqEmpty
      <4> QED BY <1>3, <3>2, <4>1, <4>2
    <3>4. CASE k > c
      <4>1. ~(s[k] <= r)  BY <1>1, <3>1, <3>4 DEF n
      <4>2. SubSeq(s, c + 1, k) = Append(SubSeq(s, c + 1, k - 1), s[k])
        <5>1. c + 1 \in 1..Len(s) /\ k \in (c + 1)..Len(s)
          BY <1>1, <3>4 DEF n
        <5>2. SubSeq(s, c + 1, k) = SubSeq(s, c + 1, k - 1) \o <<s[k]>>
          BY <5>1, SubSeqRecursiveSecond
        <5>3. SubSeq(s, c + 1, k - 1) \in Seq(Int) /\ s[k] \in Int
          BY <1>1, <2>1, <3>1
        <5> QED BY <5>2, <5>3, AppendIsConcat
      <4> QED BY <1>3, <3>2, <4>1, <4>2
    <3> QED BY <1>1, <3>3, <3>4 DEF n
  <2> HIDE DEF p
  <2> QED BY <2>2, <2>3, <2>4 DEF PrefixResults
<1>8. it[1..n] = p[n]
  <2> HIDE DEF p
  <2> QED BY <1>1, <1>6, <1>7, FoldsValue
<1>9. n \in 0..n  BY <1>1
<1> QED BY <1>2, <1>8, <1>9 DEF n

-----------------------------------------------------------------------------
(* Sums over a finite set.                                                 *)

(* Induction: a set of subsets of S that has a set whenever it has all     *)
(* that lack one element of it holds all subsets.                          *)
LEMMA SubsetInduction ==
  ASSUME NEW S, IsFiniteSet(S), NEW U,
         \A t \in SUBSET S : (\A x \in t : t \ {x} \in U) => t \in U
  PROVE  \A t \in SUBSET S : t \in U
<1> DEFINE T == {k \in Nat : \A t \in SUBSET S : Cardinality(t) = k => t \in U}
<1>1. \A t \in SUBSET S : IsFiniteSet(t) /\ Cardinality(t) \in Nat
  BY FS_Subset, FS_CardinalityType
<1>2. 0 \in T
  <2> SUFFICES ASSUME NEW t \in SUBSET S, Cardinality(t) = 0 PROVE t \in U
    OBVIOUS
  <2>1. t = {}  BY <1>1, FS_EmptySet
  <2> QED BY <2>1
<1>3. ASSUME NEW k \in T PROVE k + 1 \in T
  <2> SUFFICES ASSUME NEW t \in SUBSET S, Cardinality(t) = k + 1 PROVE t \in U
    OBVIOUS
  <2>1. ASSUME NEW x \in t PROVE t \ {x} \in U
    <3>1. Cardinality(t \ {x}) = (k + 1) - 1  BY <1>1, FS_RemoveElement
    <3>2. Cardinality(t \ {x}) = k /\ t \ {x} \in SUBSET S  BY <3>1
    <3> QED BY <3>2
  <2> QED BY <2>1
<1>4. T = Nat
  <2>1. T \in SUBSET Nat  OBVIOUS
  <2> HIDE DEF T
  <2> QED BY <1>2, <1>3, <2>1, NatSetInduction
<1> QED BY <1>1, <1>4

(* a[t] is the sum of f over t, whichever element is taken last.           *)
Additive(a, f, S) ==
  /\ a \in [SUBSET S -> Int] /\ a[{}] = 0
  /\ \A t \in SUBSET S : \A x \in t : a[t] = a[t \ {x}] + f[x]

(* Every function to the numbers has its sums.                             *)
LEMMA AdditiveExists ==
  ASSUME NEW S, IsFiniteSet(S), NEW f \in [S -> Int]
  PROVE  \E a : Additive(a, f, S)
<1> DEFINE Good(s) == \E a : Additive(a, f, s)
           U == {s \in SUBSET S : Good(s)}
<1> HIDE DEF Good
<1>1. ASSUME NEW s \in SUBSET S, \A x \in s : s \ {x} \in U PROVE s \in U
  <2>1. CASE s = {}
    <3> DEFINE a == [t \in SUBSET {} |-> 0]
    <3>1. Additive(a, f, {})  BY DEF Additive
    <3> HIDE DEF a
    <3>2. Good({})  BY <3>1 DEF Good
    <3> QED BY <2>1, <3>2
  <2>2. CASE s # {}
    <3>1. PICK y \in s : TRUE  BY <2>2
    <3>2. PICK a : Additive(a, f, s \ {y})  BY <1>1, <3>1 DEF Good
    <3> DEFINE b == [t \in SUBSET s |-> IF y \in t THEN a[t \ {y}] + f[y] ELSE a[t]]
    <3>3. f[y] \in Int /\ y \in S  BY <3>1
    <3>4. a \in [SUBSET (s \ {y}) -> Int] /\ a[{}] = 0  BY <3>2 DEF Additive
    <3>5. \A t \in SUBSET s : /\ t \ {y} \in SUBSET (s \ {y})
                              /\ y \notin t => t \in SUBSET (s \ {y})
      OBVIOUS
    <3>6. b \in [SUBSET s -> Int]  BY <3>3, <3>4, <3>5
    <3>7. b[{}] = 0  BY <3>4
    <3>8. ASSUME NEW t \in SUBSET s, NEW x \in t PROVE b[t] = b[t \ {x}] + f[x]
      <4>1. CASE y \notin t
        <5>1. t \in SUBSET (s \ {y}) /\ y \notin t \ {x} /\ t \ {x} \in SUBSET s
          BY <4>1
        <5>2. a[t] = a[t \ {x}] + f[x]  BY <3>2, <5>1 DEF Additive
        <5> QED BY <4>1, <5>1, <5>2
      <4>2. CASE y = x
        <5>1. y \notin t \ {x} /\ t \ {x} \in SUBSET s  BY <4>2
        <5> QED BY <4>2, <5>1
      <4>3. CASE y \in t /\ y # x
        <5> DEFINE u == t \ {y}
        <5>1. u \in SUBSET (s \ {y}) /\ x \in u  BY <4>3
        <5>2. a[u] = a[u \ {x}] + f[x]  BY <3>2, <5>1 DEF Additive
        <5>3. u \ {x} = (t \ {x}) \ {y} /\ y \in t \ {x} /\ t \ {x} \in SUBSET s
              /\ u \ {x} \in SUBSET (s \ {y})
          BY <4>3
        <5>4. b[t] = a[u] + f[y] /\ b[t \ {x}] = a[u \ {x}] + f[y]
          BY <4>3, <5>3
        <5>5. a[u \ {x}] \in Int /\ f[x] \in Int  BY <3>4, <5>3
        <5> HIDE DEF u, b
        <5> QED BY <3>3, <5>2, <5>4, <5>5
      <4> QED BY <4>1, <4>2, <4>3
    <3> HIDE DEF b
    <3>9. Additive(b, f, s)  BY <3>6, <3>7, <3>8 DEF Additive
    <3> QED BY <3>9 DEF Good
  <2> QED BY <2>1, <2>2
<1>2. \A t \in SUBSET S : t \in U
  <2> HIDE DEF U
  <2> QED BY <1>1, SubsetInduction
<1>3. Good(S)  BY <1>2
<1> QED BY <1>3 DEF Good

SumOver(f, S) == MapThenSumSet(LAMBDA n : f[n], S)

(* it solves the recursion of MapThenSumSet.                               *)
SumsSet(it, f, S) ==
  it = [s \in SUBSET S |->
          IF s = {} THEN 0
          ELSE f[CHOOSE x \in s : TRUE] + it[s \ {CHOOSE x \in s : TRUE}]]

(* SumOver is the sum.                                                     *)
LEMMA SumOverValue ==
  ASSUME NEW S, IsFiniteSet(S), NEW f \in [S -> Int], NEW a, Additive(a, f, S)
  PROVE  SumOver(f, S) = a[S]
<1> DEFINE it == CHOOSE g : SumsSet(g, f, S)
<1>1. SumOver(f, S) = it[S]
  BY DEF SumOver, MapThenSumSet, MapThenFoldSet, SumsSet
<1>2. a \in [SUBSET S -> Int] /\ a[{}] = 0
      /\ \A t \in SUBSET S : \A x \in t : a[t] = a[t \ {x}] + f[x]
  BY DEF Additive
<1>3. \A t \in SUBSET S : t # {} => (CHOOSE x \in t : TRUE) \in t
  OBVIOUS
<1>4. SumsSet(a, f, S)
  <2>1. a = [s \in SUBSET S |-> a[s]]  BY <1>2
  <2>2. ASSUME NEW s \in SUBSET S
        PROVE  a[s] = IF s = {} THEN 0
                      ELSE f[CHOOSE x \in s : TRUE] + a[s \ {CHOOSE x \in s : TRUE}]
    <3>1. CASE s = {}  BY <1>2, <3>1
    <3>2. CASE s # {}
      <4> DEFINE x == CHOOSE x \in s : TRUE
      <4>1. x \in s  BY <3>2
      <4> HIDE DEF x
      <4>2. a[s] = a[s \ {x}] + f[x] /\ a[s \ {x}] \in Int /\ f[x] \in Int
        BY <1>2, <4>1
      <4>3. a[s] = f[x] + a[s \ {x}]  BY <4>2
      <4> QED BY <3>2, <4>3 DEF x
    <3> QED BY <3>1, <3>2
  <2> QED BY <2>1, <2>2 DEF SumsSet
<1>5. SumsSet(it, f, S)  BY <1>4
<1> HIDE DEF it
<1> DEFINE U == {t \in SUBSET S : it[t] = a[t]}
<1>6. ASSUME NEW t \in SUBSET S, \A x \in t : t \ {x} \in U PROVE t \in U
  <2>1. CASE t = {}  BY <1>2, <1>5, <2>1 DEF SumsSet
  <2>2. CASE t # {}
    <3> DEFINE x == CHOOSE x \in t : TRUE
    <3>1. x \in t  BY <2>2
    <3>2. it[t] = f[x] + it[t \ {x}]  BY <1>5, <2>2 DEF SumsSet
    <3>3. a[t] = f[x] + a[t \ {x}]  BY <1>4, <2>2 DEF SumsSet
    <3> HIDE DEF x
    <3>4. it[t \ {x}] = a[t \ {x}]  BY <1>6, <3>1
    <3> QED BY <3>2, <3>3, <3>4
  <2> QED BY <2>1, <2>2
<1>7. \A t \in SUBSET S : t \in U
  <2> HIDE DEF U
  <2> QED BY <1>6, SubsetInduction
<1> QED BY <1>1, <1>7

(* A sum of numbers is a number, and of nothing but zeros is zero.         *)
LEMMA SumOverType ==
  ASSUME NEW S, IsFiniteSet(S), NEW f \in [S -> Int]
  PROVE  /\ SumOver(f, S) \in Int
         /\ (\A x \in S : f[x] = 0) => SumOver(f, S) = 0
<1>1. PICK a : Additive(a, f, S)  BY AdditiveExists
<1>2. SumOver(f, S) = a[S]  BY <1>1, SumOverValue
<1>3. a[S] \in Int  BY <1>1 DEF Additive
<1>4. ASSUME \A x \in S : f[x] = 0 PROVE a[S] = 0
  <2> DEFINE U == {t \in SUBSET S : a[t] = 0}
  <2>1. ASSUME NEW t \in SUBSET S, \A x \in t : t \ {x} \in U PROVE t \in U
    <3>1. CASE t = {}  BY <1>1, <3>1 DEF Additive
    <3>2. CASE t # {}
      <4>1. PICK x \in t : TRUE  BY <3>2
      <4>2. a[t] = a[t \ {x}] + f[x] /\ a[t \ {x}] = 0 /\ f[x] = 0
        BY <1>1, <1>4, <2>1, <4>1 DEF Additive
      <4> QED BY <4>2
    <3> QED BY <3>1, <3>2
  <2>2. \A t \in SUBSET S : t \in U
    <3> HIDE DEF U
    <3> QED BY <2>1, SubsetInduction
  <2> QED BY <2>2
<1> QED BY <1>2, <1>3, <1>4

(* g is f up to its value at y.                                            *)
SameBut(g, f, S, y) == \A x \in S \ {y} : g[x] = f[x]

(* A change of one value changes the sum by as much.                       *)
LEMMA SumOverUpdate ==
  ASSUME NEW S, IsFiniteSet(S), NEW f \in [S -> Int], NEW g \in [S -> Int],
         NEW y \in S, SameBut(g, f, S, y)
  PROVE  SumOver(g, S) = SumOver(f, S) + (g[y] - f[y])
<1>1. PICK a : Additive(a, f, S)  BY AdditiveExists
<1>2. PICK b : Additive(b, g, S)  BY AdditiveExists
<1>3. SumOver(f, S) = a[S] /\ SumOver(g, S) = b[S]
  BY <1>1, <1>2, SumOverValue
<1> DEFINE U == {t \in SUBSET S : y \notin t => a[t] = b[t]}
<1>4. ASSUME NEW t \in SUBSET S, \A x \in t : t \ {x} \in U PROVE t \in U
  <2> SUFFICES ASSUME y \notin t PROVE a[t] = b[t]  OBVIOUS
  <2>1. CASE t = {}  BY <1>1, <1>2, <2>1 DEF Additive
  <2>2. CASE t # {}
    <3>1. PICK x \in t : TRUE  BY <2>2
    <3>2. a[t \ {x}] = b[t \ {x}]  BY <1>4, <3>1
    <3>3. g[x] = f[x]  BY <3>1 DEF SameBut
    <3>4. a[t] = a[t \ {x}] + f[x] /\ b[t] = b[t \ {x}] + g[x]
      BY <1>1, <1>2, <3>1 DEF Additive
    <3> QED BY <3>2, <3>3, <3>4
  <2> QED BY <2>1, <2>2
<1>5. \A t \in SUBSET S : t \in U
  <2> HIDE DEF U
  <2> QED BY <1>4, SubsetInduction
<1>6. a[S \ {y}] = b[S \ {y}]  BY <1>5
<1>7. /\ a[S] = a[S \ {y}] + f[y] /\ b[S] = b[S \ {y}] + g[y]
      /\ a[S \ {y}] \in Int /\ f[y] \in Int /\ g[y] \in Int
  BY <1>1, <1>2 DEF Additive
<1> QED BY <1>3, <1>6, <1>7

(* A sum of natural numbers is no less than any one or two of them.        *)
LEMMA SumOverNat ==
  ASSUME NEW S, IsFiniteSet(S), NEW f \in [S -> Nat]
  PROVE  /\ SumOver(f, S) \in Nat
         /\ \A x \in S : f[x] <= SumOver(f, S)
         /\ \A x \in S : \A y \in S \ {x} : f[x] + f[y] <= SumOver(f, S)
<1>0. f \in [S -> Int]  OBVIOUS
<1>1. PICK a : Additive(a, f, S)  BY <1>0, AdditiveExists
<1>2. SumOver(f, S) = a[S]  BY <1>0, <1>1, SumOverValue
<1> DEFINE U == {t \in SUBSET S : a[t] \in Nat}
<1>3. ASSUME NEW t \in SUBSET S, \A x \in t : t \ {x} \in U PROVE t \in U
  <2>1. CASE t = {}  BY <1>1, <2>1 DEF Additive
  <2>2. CASE t # {}
    <3>1. PICK x \in t : TRUE  BY <2>2
    <3>2. a[t] = a[t \ {x}] + f[x]  BY <1>1, <3>1 DEF Additive
    <3>3. a[t \ {x}] \in Nat /\ f[x] \in Nat  BY <1>3, <3>1
    <3> QED BY <3>2, <3>3
  <2> QED BY <2>1, <2>2
<1>4. \A t \in SUBSET S : t \in U
  <2> HIDE DEF U
  <2> QED BY <1>3, SubsetInduction
<1>5. \A t \in SUBSET S : a[t] \in Nat  BY <1>4
<1>6. ASSUME NEW x \in S
      PROVE  f[x] <= a[S] /\ \A y \in S \ {x} : f[x] + f[y] <= a[S]
  <2>1. a[S] = a[S \ {x}] + f[x] /\ a[S \ {x}] \in Nat /\ f[x] \in Nat
    BY <1>1, <1>5 DEF Additive
  <2>2. ASSUME NEW y \in S \ {x} PROVE f[x] + f[y] <= a[S]
    <3> DEFINE t == S \ {x}
    <3>1. t \in SUBSET S /\ y \in t /\ t \ {y} \in SUBSET S  OBVIOUS
    <3> HIDE DEF t
    <3>2. a[t] = a[t \ {y}] + f[y] /\ a[t \ {y}] \in Nat /\ f[y] \in Nat
      BY <1>1, <1>5, <3>1 DEF Additive
    <3>3. a[S] = a[t] + f[x]  BY <2>1 DEF t
    <3> QED BY <2>1, <3>2, <3>3
  <2> QED BY <2>1, <2>2
<1> QED BY <1>2, <1>5, <1>6

(* Twice a sum is no more than the sum of what is twice as much.           *)
LEMMA SumOverDouble ==
  ASSUME NEW S, IsFiniteSet(S), NEW f \in [S -> Int], NEW g \in [S -> Int],
         \A x \in S : 2 * f[x] <= g[x]
  PROVE  2 * SumOver(f, S) <= SumOver(g, S)
<1>1. PICK a : Additive(a, f, S)  BY AdditiveExists
<1>2. PICK b : Additive(b, g, S)  BY AdditiveExists
<1>3. SumOver(f, S) = a[S] /\ SumOver(g, S) = b[S]
  BY <1>1, <1>2, SumOverValue
<1> DEFINE U == {t \in SUBSET S : 2 * a[t] <= b[t]}
<1>4. ASSUME NEW t \in SUBSET S, \A x \in t : t \ {x} \in U PROVE t \in U
  <2>1. CASE t = {}  BY <1>1, <1>2, <2>1 DEF Additive
  <2>2. CASE t # {}
    <3>1. PICK x \in t : TRUE  BY <2>2
    <3>2. 2 * a[t \ {x}] <= b[t \ {x}]  BY <1>4, <3>1
    <3>3. 2 * f[x] <= g[x] /\ f[x] \in Int /\ g[x] \in Int  BY <3>1
    <3>4. a[t] = a[t \ {x}] + f[x] /\ b[t] = b[t \ {x}] + g[x]
          /\ a[t \ {x}] \in Int /\ b[t \ {x}] \in Int
      BY <1>1, <1>2, <3>1 DEF Additive
    <3>5. 2 * a[t] <= b[t]  BY <3>2, <3>3, <3>4
    <3> QED BY <3>5
  <2> QED BY <2>1, <2>2
<1>5. \A t \in SUBSET S : t \in U
  <2> HIDE DEF U
  <2> QED BY <1>4, SubsetInduction
<1> QED BY <1>3, <1>5
=============================================================================
