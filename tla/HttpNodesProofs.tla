--------------------------- MODULE HttpNodesProofs ---------------------------
(***************************************************************************)
(* What request and SSE nodes share is safe for any number of nodes, any   *)
(* budget, limits and interval: starts are spaced, calls are accounted for *)
(* and response bodies fit the budget.                                     *)
(*                                                                         *)
(* PaceInv, CallInv and MemoryInv are inductive one by one, given the      *)
(* types.  The sums over the nodes change by what one node changes         *)
(* (SumOverUpdate); notifyWaiters serves several nodes in one step, which  *)
(* SettleKeeps takes apart waiter by waiter.                               *)
(***************************************************************************)
EXTENDS HttpNodes, FoldLemmas

Waiter == [node: Node, want: Nat \ {0}]

Place == {"prepare", "wait", "pace", "mark", "start", "sent", "acquire", "queued",
          "read", "count", "abandon", "assess", "stream", "passed", "failed", "ended"}

TypeInv ==
  /\ reads \in [Node -> BOOLEAN]
  /\ pc \in [Node -> Place]
  /\ since \in Nat
  /\ started \in Nat /\ call \in [Node -> BOOLEAN]
  /\ calls \in [Node -> Nat] /\ reported \in [Node -> Nat]
  /\ cur \in Int /\ waiters \in Seq(Waiter)
  /\ grant \in [Node -> Nat] /\ held \in [Node -> Nat]
  /\ length \in [Node -> Nat \cup {Unknown}] /\ left \in [Node -> Nat]
  /\ read \in [Node -> Nat] /\ capacity \in [Node -> Nat]

(* The types of what a body and its reservation consist of.                *)
BodyTypes ==
  /\ reads \in [Node -> BOOLEAN] /\ pc \in [Node -> Place]
  /\ cur \in Int /\ waiters \in Seq(Waiter)
  /\ grant \in [Node -> Nat] /\ held \in [Node -> Nat]
  /\ length \in [Node -> Nat \cup {Unknown}] /\ left \in [Node -> Nat]
  /\ read \in [Node -> Nat] /\ capacity \in [Node -> Nat]

(* Whoever is past the gate holds it, and its delay is over when it marks. *)
PaceInv ==
  \A n \in Node : /\ pc[n] \in {"pace", "mark"} => gate = n
                  /\ pc[n] = "mark" => since >= Interval

(* A call is in flight only between Start and the end of the exchange.     *)
CallInv ==
  /\ CallsAccounted
  /\ \A n \in Node : call[n] =>
       pc[n] \in {"sent", "acquire", "queued", "read", "count", "abandon", "stream"}

(* Where a node may hold a part of the budget.                             *)
Busy == {"acquire", "queued", "read", "count", "assess", "abandon"}

(* Every waiter is a queued node that has no tokens yet and asked for what *)
(* it still wants; no node waits twice.                                    *)
QueueInv ==
  /\ \A i \in 1..Len(waiters) : \A n \in Node : waiters[i].node = n =>
       pc[n] = "queued" /\ grant[n] = 0 /\ waiters[i].want = Want(n)
  /\ \A i, j \in 1..Len(waiters) : waiters[i].node = waiters[j].node => i = j

(* What was read fits the buffer, and the buffer as far as it is used is   *)
(* paid for, unless the node holds the whole budget.                       *)
NodeBody(n) ==
  /\ pc[n] \notin Busy => held[n] = 0 /\ read[n] = 0 /\ capacity[n] = 0
  /\ grant[n] > 0 => pc[n] = "queued" /\ grant[n] = Want(n)
  /\ read[n] <= capacity[n] /\ read[n] <= keptResponseBytes(n)
  /\ \/ held[n] >= BudgetSize
     \/ 2 * Min({capacity[n], keptResponseBytes(n)}) <= held[n]

BodyInv == \A n \in Node : NodeBody(n)

Out == [n \in Node |-> held[n] + grant[n]]

BudgetInv == cur = SumOver(Out, Node) /\ cur <= BudgetSize

MemoryInv == QueueInv /\ BodyInv /\ BudgetInv

HttpInv == TypeInv /\ PaceInv /\ CallInv /\ MemoryInv

-----------------------------------------------------------------------------
(* Lemmas on the operators.                                                *)

(* Min of two numbers.                                                     *)
LEMMA MinTwo ==
  ASSUME NEW a \in Int, NEW b \in Int
  PROVE  Min({a, b}) = IF a < b THEN a ELSE b
<1>1. \E x \in {a, b} : \A y \in {a, b} : x <= y  OBVIOUS
<1>2. Min({a, b}) \in {a, b} /\ \A y \in {a, b} : Min({a, b}) <= y
  BY <1>1 DEF Min
<1> QED BY <1>2

(* The limit on what a node keeps, and what its buffer needs.              *)
LEMMA Sizes ==
  ASSUME BodyTypes, NEW n \in Node
  PROVE  /\ keptResponseBytes(n) \in Nat \ {0}
         /\ Goal(n) \in Nat /\ Goal(n) <= keptResponseBytes(n)
         /\ capacity[n] > 0 => Goal(n) = keptResponseBytes(n)
         /\ Want(n) \in Int
         /\ held[n] + Want(n) = IF 2 * Goal(n) < BudgetSize THEN 2 * Goal(n)
                                ELSE BudgetSize
<1>1. /\ capacity[n] \in Nat /\ held[n] \in Nat /\ length[n] \in Nat \cup {-1}
      /\ MaxResponseBytes \in Nat \ {0} /\ ReportedBytes \in Nat \ {0}
      /\ FirstRead \in Nat \ {0} /\ BudgetSize \in Nat \ {0}
  BY SizeAssumption, BudgetAssumption DEF BodyTypes, Unknown
<1>2. keptResponseBytes(n) \in Nat \ {0}
  <2>1. Min({ReportedBytes, MaxResponseBytes}) \in Nat \ {0}  BY <1>1, MinTwo
  <2> QED BY <1>1, <2>1 DEF keptResponseBytes
<1> DEFINE first == IF length[n] = Unknown THEN FirstRead ELSE length[n]
<1>3. first \in Nat  BY <1>1 DEF Unknown
<1>4. Min({keptResponseBytes(n), first})
        = IF keptResponseBytes(n) < first THEN keptResponseBytes(n) ELSE first
  BY <1>2, <1>3, MinTwo
<1>5. Goal(n) = IF capacity[n] > 0 THEN keptResponseBytes(n)
                ELSE Min({keptResponseBytes(n), first})
  BY DEF Goal
<1> HIDE DEF first
<1>6. Goal(n) \in Nat /\ Goal(n) <= keptResponseBytes(n)
  BY <1>2, <1>3, <1>4, <1>5
<1>7. Min({2 * Goal(n), BudgetSize}) = IF 2 * Goal(n) < BudgetSize THEN 2 * Goal(n)
                                       ELSE BudgetSize
  BY <1>1, <1>6, MinTwo
<1>8. Want(n) = Min({2 * Goal(n), BudgetSize}) - held[n]
  BY DEF Want, bodyWeight
<1> QED BY <1>1, <1>2, <1>5, <1>6, <1>7, <1>8

(* Out is a function to the numbers.                                       *)
LEMMA OutType ==
  ASSUME BodyTypes
  PROVE  /\ Out \in [Node -> Nat] /\ Out \in [Node -> Int]
         /\ \A n \in Node : Out[n] = held[n] + grant[n]
BY DEF BodyTypes, Out

(* Serving one more waiter takes its tokens.                               *)
LEMMA TokensStep ==
  ASSUME NEW queue \in Seq(Waiter)
  PROVE  /\ Tokens(queue, 0) = 0
         /\ \A k \in 0..Len(queue) : Tokens(queue, k) \in Nat
         /\ \A k \in 1..Len(queue) :
              Tokens(queue, k) = Tokens(queue, k - 1) + queue[k].want
<1> DEFINE v(k) == [i \in 1..k |-> queue[i].want]
<1>1. /\ Len(queue) \in Nat
      /\ \A i \in 1..Len(queue) : queue[i] \in Waiter /\ queue[i].want \in Nat
  <2>1. \A i \in 1..Len(queue) : queue[i] \in Waiter  BY ElementOfSeq
  <2> QED BY <2>1, LenProperties DEF Waiter
<1>2. \A k : Tokens(queue, k) = SumSeq(v(k))  BY DEF Tokens, SumSeq
<1>3. v(0) = <<>>  OBVIOUS
<1>4. ASSUME NEW k \in 0..Len(queue) PROVE v(k) \in Seq(Nat) /\ Len(v(k)) = k
  BY <1>1
<1>5. ASSUME NEW k \in 1..Len(queue)
      PROVE  v(k) = v(k - 1) \o <<queue[k].want>>
  BY <1>1
<1> HIDE DEF v
<1>6. Tokens(queue, 0) = 0  BY <1>2, <1>3, SumSeqEmpty
<1>7. ASSUME NEW k \in 0..Len(queue) PROVE Tokens(queue, k) \in Nat
  BY <1>2, <1>4, SumSeqNat
<1>8. ASSUME NEW k \in 1..Len(queue)
      PROVE  Tokens(queue, k) = Tokens(queue, k - 1) + queue[k].want
  <2>1. k - 1 \in 0..Len(queue)  BY <1>1
  <2>2. v(k - 1) \in Seq(Nat)  BY <1>4, <2>1
  <2>3. Nat \subseteq Int  OBVIOUS
  <2>4. v(k - 1) \in Seq(Int)  BY <2>2, <2>3, SeqMonotonic
  <2>5. queue[k].want \in Int /\ <<queue[k].want>> \in Seq(Int)  BY <1>1
  <2>6. SumSeq(v(k)) = SumSeq(v(k - 1)) + SumSeq(<<queue[k].want>>)
    BY <1>5, <2>4, <2>5, SumSeqConcat
  <2> QED BY <1>2, <2>5, <2>6, SumSeqOne
<1> QED BY <1>6, <1>7, <1>8

(* RemoveAt takes one element out and keeps the order of the others.       *)
LEMMA RemoveOne ==
  ASSUME NEW S, NEW seq \in Seq(S), NEW k \in 1..Len(seq)
  PROVE  /\ RemoveAt(seq, k) \in Seq(S) /\ Len(RemoveAt(seq, k)) = Len(seq) - 1
         /\ \A i \in 1..Len(RemoveAt(seq, k)) :
              RemoveAt(seq, k)[i] = seq[IF i < k THEN i ELSE i + 1]
<1>1. Len(seq) \in Nat  BY LenProperties
<1> DEFINE front == SubSeq(seq, 1, k - 1)
           back == SubSeq(seq, k + 1, Len(seq))
<1>2. RemoveAt(seq, k) = front \o back  BY DEF RemoveAt
<1>3. front \in Seq(S) /\ Len(front) = k - 1 /\ \A i \in 1..(k - 1) : front[i] = seq[i]
  BY <1>1
<1>4. /\ back \in Seq(S) /\ Len(back) = Len(seq) - k
      /\ \A i \in 1..(Len(seq) - k) : back[i] = seq[k + i]
  BY <1>1, CutSeq
<1> HIDE DEF front, back
<1>5. /\ front \o back \in Seq(S) /\ Len(front \o back) = Len(seq) - 1
      /\ \A i \in 1..(Len(seq) - 1) :
           (front \o back)[i] = IF i <= k - 1 THEN front[i] ELSE back[i - (k - 1)]
  <2>1. Len(front) + Len(back) = Len(seq) - 1  BY <1>1, <1>3, <1>4
  <2>2. /\ front \o back \in Seq(S) /\ Len(front \o back) = Len(front) + Len(back)
        /\ \A i \in 1..(Len(front) + Len(back)) :
             (front \o back)[i] = IF i <= Len(front) THEN front[i] ELSE back[i - Len(front)]
    BY <1>3, <1>4, ConcatProperties
  <2> QED BY <1>3, <2>1, <2>2
<1>6. ASSUME NEW i \in 1..(Len(seq) - 1)
      PROVE  (front \o back)[i] = seq[IF i < k THEN i ELSE i + 1]
  <2>1. CASE i < k  BY <1>1, <1>3, <1>5, <2>1
  <2>2. CASE ~(i < k)
    <3>1. i - (k - 1) \in 1..(Len(seq) - k) /\ k + (i - (k - 1)) = i + 1 /\ ~(i <= k - 1)
      BY <1>1, <2>2
    <3> QED BY <1>4, <1>5, <2>2, <3>1
  <2> QED BY <2>1, <2>2
<1> QED BY <1>2, <1>5, <1>6

(* No two entries of a queue are of the same node.                         *)
WaitsOnce(queue) ==
  \A i, j \in 1..Len(queue) : queue[i].node = queue[j].node => i = j

(* What a node is handed, when no node waits twice.                        *)
LEMMA HandedValue ==
  ASSUME NEW queue \in Seq(Waiter), WaitsOnce(queue), NEW k \in 0..Len(queue), NEW n
  PROVE  /\ \A i \in 1..k : queue[i].node = n => Handed(queue, k, n) = queue[i].want
         /\ (\A i \in 1..k : queue[i].node # n) => Handed(queue, k, n) = 0
<1>1. Len(queue) \in Nat  BY LenProperties
<1>2. ASSUME NEW i \in 1..k, queue[i].node = n
      PROVE  Handed(queue, k, n) = queue[i].want
  <2> DEFINE c == CHOOSE j \in 1..k : queue[j].node = n
  <2>1. c \in 1..k /\ queue[c].node = n  BY <1>2
  <2>2. Handed(queue, k, n) = queue[c].want  BY <1>2 DEF Handed
  <2> HIDE DEF c
  <2>3. c \in 1..Len(queue) /\ i \in 1..Len(queue)  BY <1>1, <2>1
  <2>4. c = i  BY <1>2, <2>1, <2>3 DEF WaitsOnce
  <2> QED BY <2>2, <2>4
<1>3. ASSUME \A i \in 1..k : queue[i].node # n PROVE Handed(queue, k, n) = 0
  BY <1>3 DEF Handed
<1> QED BY <1>2, <1>3

(* notifyWaiters: what goes out is accounted for and fits the budget, only *)
(* waiters get tokens, each what it asked for, and those left have none.   *)
LEMMA SettleKeeps ==
  ASSUME NEW out \in Int, NEW queue \in Seq(Waiter), WaitsOnce(queue),
         NEW granted \in [Node -> Nat], NEW h \in [Node -> Nat],
         out = SumOver([n \in Node |-> h[n] + granted[n]], Node), out <= BudgetSize,
         \A i \in 1..Len(queue) : granted[queue[i].node] = 0,
         Settle(out, queue, granted)
  PROVE  /\ cur' \in Int /\ cur' <= BudgetSize
         /\ waiters' \in Seq(Waiter) /\ WaitsOnce(waiters') /\ grant' \in [Node -> Nat]
         /\ cur' = SumOver([n \in Node |-> h[n] + grant'[n]], Node)
         /\ \A n \in Node :
              \/ grant'[n] = granted[n]
              \/ \E i \in 1..Len(queue) : queue[i].node = n /\ grant'[n] = queue[i].want
         /\ \A j \in 1..Len(waiters') : \E i \in 1..Len(queue) :
              waiters'[j] = queue[i] /\ grant'[queue[i].node] = 0
<1> DEFINE S == {k \in 0..Len(queue) : out + Tokens(queue, k) <= BudgetSize}
           served == Max(S)
           f(k) == [n \in Node |-> h[n] + (granted[n] + Handed(queue, k, n))]
<1>1. /\ Len(queue) \in Nat
      /\ \A i \in 1..Len(queue) : queue[i] \in Waiter /\ queue[i].node \in Node
                                  /\ queue[i].want \in Nat
  <2>1. \A i \in 1..Len(queue) : queue[i] \in Waiter  BY ElementOfSeq
  <2> QED BY <2>1, LenProperties DEF Waiter
<1>2. served \in S
  <2>1. 0 \in S  BY <1>1, TokensStep
  <2>2. S \in SUBSET (0..Len(queue)) /\ S # {}  BY <2>1
  <2> HIDE DEF S
  <2> QED BY <1>1, <2>2, MaxOfBounded
<1>3. /\ cur' = out + Tokens(queue, served)
      /\ waiters' = SubSeq(queue, served + 1, Len(queue))
      /\ grant' = [n \in Node |-> granted[n] + Handed(queue, served, n)]
  BY DEF Settle
<1>4. served \in 0..Len(queue) /\ out + Tokens(queue, served) <= BudgetSize
  BY <1>2
<1> HIDE DEF served
<1>5. cur' \in Int /\ cur' <= BudgetSize
  <2>1. Tokens(queue, served) \in Nat  BY <1>4, TokensStep
  <2> QED BY <1>3, <1>4, <2>1
<1>6. ASSUME NEW k \in 0..Len(queue), NEW n \in Node
      PROVE  Handed(queue, k, n) \in Nat
  <2>1. CASE \E i \in 1..k : queue[i].node = n
    <3>1. PICK i \in 1..k : queue[i].node = n  BY <2>1
    <3>2. i \in 1..Len(queue)  BY <1>1
    <3> QED BY <1>1, <3>1, <3>2, HandedValue
  <2>2. CASE ~ \E i \in 1..k : queue[i].node = n
    <3>1. Handed(queue, k, n) = 0  BY <2>2, HandedValue
    <3> QED BY <3>1
  <2> QED BY <2>1, <2>2
<1>7. ASSUME NEW k \in 0..Len(queue) PROVE f(k) \in [Node -> Int]
  BY <1>6
<1>8. ASSUME NEW k \in 1..Len(queue)
      PROVE  SumOver(f(k), Node) = SumOver(f(k - 1), Node) + queue[k].want
  <2> DEFINE y == queue[k].node
  <2>1. y \in Node /\ k - 1 \in 0..Len(queue) /\ k \in 0..Len(queue)
        /\ queue[k].want \in Nat
    BY <1>1
  <2>2. ASSUME NEW x \in Node \ {y} PROVE f(k)[x] = f(k - 1)[x]
    <3>1. Handed(queue, k, x) = Handed(queue, k - 1, x)
      <4>1. CASE \E i \in 1..(k - 1) : queue[i].node = x
        <5>1. PICK i \in 1..(k - 1) : queue[i].node = x  BY <4>1
        <5>2. i \in 1..k  BY <1>1
        <5>3. Handed(queue, k, x) = queue[i].want  BY <2>1, <5>1, <5>2, HandedValue
        <5>4. Handed(queue, k - 1, x) = queue[i].want  BY <2>1, <5>1, HandedValue
        <5> QED BY <5>3, <5>4
      <4>2. CASE \A i \in 1..(k - 1) : queue[i].node # x
        <5>1. \A i \in 1..k : queue[i].node # x
          <6>1. \A i \in 1..k : i = k \/ i \in 1..(k - 1)  BY <1>1
          <6> QED BY <2>2, <4>2, <6>1
        <5>2. Handed(queue, k, x) = 0  BY <2>1, <5>1, HandedValue
        <5>3. Handed(queue, k - 1, x) = 0  BY <2>1, <4>2, HandedValue
        <5> QED BY <5>2, <5>3
      <4> QED BY <4>1, <4>2
    <3> QED BY <3>1
  <2>3. Handed(queue, k, y) = queue[k].want /\ Handed(queue, k - 1, y) = 0
    <3>1. k \in 1..k  BY <1>1
    <3>2. \A i \in 1..(k - 1) : i # k /\ i \in 1..Len(queue)  BY <1>1
    <3>3. \A i \in 1..(k - 1) : queue[i].node # y  BY <3>2 DEF WaitsOnce
    <3>4. Handed(queue, k, y) = queue[k].want
      <4> HIDE DEF y
      <4>1. queue[k].node = y  BY DEF y
      <4> QED BY <2>1, <3>1, <4>1, HandedValue
    <3>5. Handed(queue, k - 1, y) = 0
      <4> HIDE DEF y
      <4> QED BY <2>1, <3>3, HandedValue
    <3> QED BY <3>4, <3>5
  <2>4. f(k)[y] - f(k - 1)[y] = queue[k].want
    <3>1. /\ f(k)[y] = h[y] + (granted[y] + queue[k].want)
          /\ f(k - 1)[y] = h[y] + (granted[y] + 0)
          /\ h[y] \in Nat /\ granted[y] \in Nat
      BY <2>1, <2>3
    <3>2. \A a, b, c \in Nat : (a + (b + c)) - (a + (b + 0)) = c  OBVIOUS
    <3> HIDE DEF f, y
    <3> QED BY <2>1, <3>1, <3>2
  <2>5. f(k) \in [Node -> Int] /\ f(k - 1) \in [Node -> Int]  BY <1>7, <2>1
  <2> DEFINE before == f(k - 1)
             after == f(k)
  <2>6. /\ before \in [Node -> Int] /\ after \in [Node -> Int]
        /\ SameBut(after, before, Node, y)
        /\ after[y] - before[y] = queue[k].want
    BY <2>2, <2>4, <2>5 DEF SameBut
  <2> HIDE DEF before, after, y
  <2>7. SumOver(after, Node) = SumOver(before, Node) + (after[y] - before[y])
    <3>1. IsFiniteSet(Node) /\ y \in Node  BY <2>1, NodeAssumption
    <3> QED BY <2>6, <3>1, SumOverUpdate
  <2> QED BY <2>6, <2>7 DEF before, after
<1>9. SumOver(f(0), Node) = out
  <2>1. \A n \in Node : Handed(queue, 0, n) = 0
    <3>1. 1..0 = {} /\ 0 \in 0..Len(queue)  BY <1>1
    <3> QED BY <3>1, HandedValue
  <2>2. f(0) = [n \in Node |-> h[n] + granted[n]]  BY <2>1
  <2> HIDE DEF f
  <2> QED BY <2>2
<1> DEFINE T == {k \in Nat : k <= Len(queue) =>
                   SumOver(f(k), Node) = out + Tokens(queue, k)}
<1>10. 0 \in T
  <2> HIDE DEF f
  <2> QED BY <1>9, TokensStep
<1>11. ASSUME NEW k \in T PROVE k + 1 \in T
  <2> HIDE DEF f
  <2> SUFFICES ASSUME k + 1 <= Len(queue)
               PROVE  SumOver(f(k + 1), Node) = out + Tokens(queue, k + 1)
    OBVIOUS
  <2>1. /\ k + 1 \in 1..Len(queue) /\ (k + 1) - 1 = k /\ k \in 0..Len(queue)
        /\ SumOver(f(k), Node) = out + Tokens(queue, k)
    BY <1>1
  <2>2. SumOver(f(k + 1), Node) = SumOver(f(k), Node) + queue[k + 1].want
    BY <1>8, <2>1
  <2>3. Tokens(queue, k + 1) = Tokens(queue, k) + queue[k + 1].want
    BY <2>1, TokensStep
  <2>4. Tokens(queue, k) \in Nat /\ queue[k + 1].want \in Nat  BY <1>1, <2>1, TokensStep
  <2> QED BY <2>1, <2>2, <2>3, <2>4
<1>12. T = Nat
  <2>1. T \in SUBSET Nat  OBVIOUS
  <2> HIDE DEF T
  <2> QED BY <1>10, <1>11, <2>1, NatSetInduction
<1>13. SumOver(f(served), Node) = cur'
  <2>1. served \in Nat /\ served <= Len(queue)  BY <1>1, <1>4
  <2> HIDE DEF f
  <2> QED BY <1>3, <1>12, <2>1
<1>14. f(served) = [n \in Node |-> h[n] + grant'[n]]  BY <1>3
<1>15. grant' \in [Node -> Nat]  BY <1>3, <1>4, <1>6
<1>16. ASSUME NEW n \in Node
       PROVE  \/ grant'[n] = granted[n]
              \/ \E i \in 1..Len(queue) : queue[i].node = n /\ grant'[n] = queue[i].want
  <2>1. grant'[n] = granted[n] + Handed(queue, served, n)  BY <1>3
  <2>2. CASE \E i \in 1..served : queue[i].node = n
    <3>1. PICK i \in 1..served : queue[i].node = n  BY <2>2
    <3>2. i \in 1..Len(queue)  BY <1>1, <1>4
    <3>3. Handed(queue, served, n) = queue[i].want  BY <1>4, <3>1, HandedValue
    <3>4. granted[n] = 0 /\ queue[i].want \in Nat  BY <1>1, <3>1, <3>2
    <3> QED BY <2>1, <3>1, <3>2, <3>3, <3>4
  <2>3. CASE ~ \E i \in 1..served : queue[i].node = n
    <3>1. Handed(queue, served, n) = 0  BY <1>4, <2>3, HandedValue
    <3>2. granted[n] \in Nat  OBVIOUS
    <3> QED BY <2>1, <3>1, <3>2
  <2> QED BY <2>2, <2>3
<1>17. /\ waiters' \in Seq(Waiter) /\ Len(waiters') = Len(queue) - served
       /\ \A j \in 1..(Len(queue) - served) : waiters'[j] = queue[served + j]
  BY <1>3, <1>4, CutSeq
<1>18. ASSUME NEW j \in 1..Len(waiters')
       PROVE  /\ served + j \in 1..Len(queue) /\ waiters'[j] = queue[served + j]
              /\ grant'[queue[served + j].node] = 0
  <2>1. served + j \in 1..Len(queue) /\ waiters'[j] = queue[served + j]
    BY <1>1, <1>4, <1>17
  <2> DEFINE n == queue[served + j].node
  <2>2. \A i \in 1..served : i \in 1..Len(queue) /\ i # served + j
    BY <1>1, <1>4, <1>17
  <2>3. \A i \in 1..served : queue[i].node # n  BY <2>1, <2>2 DEF WaitsOnce
  <2>4. n \in Node /\ granted[n] = 0  BY <1>1, <2>1
  <2>5. Handed(queue, served, n) = 0  BY <1>4, <2>3, HandedValue
  <2>6. grant'[n] = granted[n] + Handed(queue, served, n)  BY <1>3, <2>4
  <2> QED BY <2>1, <2>4, <2>5, <2>6
<1>19. WaitsOnce(waiters')
  <2> SUFFICES ASSUME NEW i \in 1..Len(waiters'), NEW j \in 1..Len(waiters'),
                      waiters'[i].node = waiters'[j].node
               PROVE  i = j
    BY DEF WaitsOnce
  <2>1. served + i = served + j  BY <1>18 DEF WaitsOnce
  <2> QED BY <1>4, <1>17, <2>1
<1> HIDE DEF f
<1> QED BY <1>5, <1>13, <1>14, <1>15, <1>16, <1>17, <1>18, <1>19

-----------------------------------------------------------------------------
(* Pacing.                                                                 *)

(* A step that leaves the pacer alone and moves a node outside it.         *)
LEMMA PaceQuiet ==
  ASSUME TypeInv, PaceInv, UNCHANGED pacerVars, NEW n \in Node,
         pc' = pc \/ \E place \in Place \ {"pace", "mark"} : Goto(n, place)
  PROVE  PaceInv'
BY DEF TypeInv, PaceInv, pacerVars, Goto

(* Every step keeps the gate exclusive and the delay of its holder.        *)
LEMMA PaceStep == TypeInv /\ PaceInv /\ [Next]_vars => PaceInv'
<1> SUFFICES ASSUME TypeInv, PaceInv, [Next]_vars PROVE PaceInv'  OBVIOUS
<1>a. pc \in [Node -> Place] /\ since \in Nat /\ Interval \in Nat
  BY CallAssumption DEF TypeInv
<1>1. ASSUME NEW n \in Node, Prepare(n) \/ Start(n) PROVE PaceInv'
  <2>1. \E place \in Place \ {"pace", "mark"} : Goto(n, place)
    BY <1>1 DEF Prepare, Start, Place
  <2> QED BY <1>1, <2>1, PaceQuiet DEF Prepare, Start
<1>2. ASSUME NEW n \in Node, TakeGate(n) PROVE PaceInv'
  BY <1>2, <1>a, NodeAssumption DEF TakeGate, Goto, PaceInv
<1>3. ASSUME NEW n \in Node, Paced(n) PROVE PaceInv'
  BY <1>3, <1>a DEF Paced, Goto, PaceInv, pacerVars
<1>4. ASSUME NEW n \in Node, StopWaiting(n) PROVE PaceInv'
  <2>1. PICK place \in {"passed", "failed"} : Goto(n, place)
    BY <1>4 DEF StopWaiting, DoFails
  <2>2. since' = since /\ gate' = IF gate = n THEN NoNode ELSE gate
    BY <1>4 DEF StopWaiting
  <2> QED BY <1>a, <2>1, <2>2 DEF Goto, PaceInv
<1>5. ASSUME NEW n \in Node, MarkStart(n) PROVE PaceInv'
  <2>1. gate = n  BY <1>5 DEF MarkStart, PaceInv
  <2>2. \A m \in Node \ {n} : pc[m] \notin {"pace", "mark"}  BY <2>1 DEF PaceInv
  <2> QED BY <1>5, <1>a, <2>2 DEF MarkStart, Goto, PaceInv
<1>6. ASSUME NEW n \in Node, acquire(n) \/ Acquired(n) \/ GiveUp(n) PROVE PaceInv'
  <2>1. \E place \in Place \ {"pace", "mark"} : Goto(n, place)
    BY <1>6 DEF acquire, Acquired, GiveUp, Place
  <2> QED BY <1>6, <2>1, PaceQuiet DEF acquire, Acquired, GiveUp
<1>7. ASSUME NEW n \in Node, BeforeRead(n) \/ Abandon(n) \/ Assess(n) \/ Retry(n) \/ End(n)
      PROVE  PaceInv'
  <2>1. \E place \in Place \ {"pace", "mark"} : Goto(n, place)
    BY <1>7 DEF BeforeRead, Abandon, Assess, Retry, End, Place
  <2> QED BY <1>7, <2>1, PaceQuiet DEF BeforeRead, Abandon, Assess, Retry, End
<1>8. ASSUME NEW n \in Node, RoundTripFails(n) \/ Redirect(n) \/ Respond(n) PROVE PaceInv'
  <2>1. \E place \in Place \ {"pace", "mark"} : Goto(n, place)
    BY <1>8 DEF RoundTripFails, DoFails, Redirect, Respond, Place
  <2> QED BY <1>8, <2>1, PaceQuiet DEF RoundTripFails, Redirect, Respond
<1>9. ASSUME NEW n \in Node, readKept(n) \/ ReadFails(n) \/ countRest(n) PROVE PaceInv'
  <2>1. pc' = pc \/ \E place \in Place \ {"pace", "mark"} : Goto(n, place)
    BY <1>9 DEF readKept, ReadFails, countRest, Place
  <2> QED BY <1>9, <2>1, PaceQuiet DEF readKept, ReadFails, countRest
<1>10. ASSUME NEW n \in Node, OpenStream(n) \/ feed(n) \/ dispatch(n) \/ StreamEnds(n)
       PROVE  PaceInv'
  <2>1. pc' = pc \/ \E place \in Place \ {"pace", "mark"} : Goto(n, place)
    BY <1>10 DEF OpenStream, feed, dispatch, StreamEnds, Leave, Place
  <2> QED BY <1>10, <2>1, PaceQuiet DEF OpenStream, feed, dispatch, StreamEnds
<1>11. ASSUME NEW n \in Node, Timeout(n) PROVE PaceInv'
  BY <1>11, PaceQuiet DEF Timeout
<1>12. CASE Tick  BY <1>12, <1>a DEF Tick, PaceInv
<1>13. CASE Cancel  BY <1>13 DEF Cancel, PaceInv, pacerVars
<1>14. CASE UNCHANGED vars  BY <1>14 DEF vars, PaceInv, pacerVars
<1> QED BY <1>1, <1>2, <1>3, <1>4, <1>5, <1>6, <1>7, <1>8, <1>9, <1>10, <1>11,
           <1>12, <1>13, <1>14
        DEF Next, Step, Network, Ended

-----------------------------------------------------------------------------
(* Calls.                                                                  *)

InFlight == {"sent", "acquire", "queued", "read", "count", "abandon", "stream"}

(* The calls of a node: recorded, or in flight.                            *)
CallsOf == [n \in Node |-> calls[n] + IF call[n] THEN 1 ELSE 0]

(* CallInv, with the sum written as SumOver.                               *)
CallFacts ==
  /\ started <= CallLimit /\ started = SumOver(CallsOf, Node)
  /\ \A n \in Node : pc[n] = "ended" => ~call[n] /\ reported[n] = calls[n]
  /\ \A n \in Node : call[n] => pc[n] \in InFlight

(* The two say the same.                                                   *)
LEMMA CallFactsAgree == CallInv <=> CallFacts
BY DEF CallInv, CallFacts, CallsAccounted, CallsOf, Total, SumOver, InFlight

(* A step that leaves the calls alone, and ends no exchange in flight.     *)
LEMMA CallQuiet ==
  ASSUME TypeInv, CallFacts, UNCHANGED callVars, NEW n \in Node,
         pc' = pc \/ \E place \in Place \ {"ended"} :
                       Goto(n, place) /\ (place \in InFlight \/ pc[n] \notin InFlight)
  PROVE  CallFacts'
<1>1. CallsOf' = CallsOf  BY DEF CallsOf, callVars
<1>2. started' <= CallLimit /\ started' = SumOver(CallsOf', Node)
  BY <1>1 DEF CallFacts, callVars
<1>3. \A m \in Node : pc'[m] = "ended" => ~call'[m] /\ reported'[m] = calls'[m]
  BY DEF TypeInv, CallFacts, Goto, callVars
<1>4. \A m \in Node : call'[m] => pc'[m] \in InFlight
  BY DEF TypeInv, CallFacts, Goto, callVars
<1> QED BY <1>2, <1>3, <1>4 DEF CallFacts

(* Finish moves a call from in flight to the record.                       *)
LEMMA CallFinish ==
  ASSUME TypeInv, CallFacts, NEW n \in Node, Finish(n), pc[n] # "ended",
         \E place \in Place \ {"ended"} : Goto(n, place)
  PROVE  CallFacts'
<1>1. CallsOf' = CallsOf
  <2>1. ASSUME NEW m \in Node
        PROVE  calls'[m] + (IF call'[m] THEN 1 ELSE 0) = calls[m] + IF call[m] THEN 1 ELSE 0
    <3>1. CASE m = n  BY <3>1 DEF Finish, TypeInv
    <3>2. CASE m # n  BY <3>2 DEF Finish, TypeInv
    <3> QED BY <3>1, <3>2
  <2> QED BY <2>1 DEF CallsOf
<1>2. started' <= CallLimit /\ started' = SumOver(CallsOf', Node)
  BY <1>1 DEF CallFacts, Finish
<1>3. \A m \in Node : pc'[m] = "ended" => ~call'[m] /\ reported'[m] = calls'[m]
  BY DEF TypeInv, CallFacts, Goto, Finish
<1>4. \A m \in Node : call'[m] => pc'[m] \in InFlight
  BY DEF TypeInv, CallFacts, Goto, Finish
<1> QED BY <1>2, <1>3, <1>4 DEF CallFacts

(* Every step keeps the calls accounted for.                               *)
LEMMA CallStep == TypeInv /\ CallInv /\ [Next]_vars => CallInv'
<1>0. CallInv' <=> CallFacts'  BY CallFactsAgree, PTL
<1> SUFFICES ASSUME TypeInv, CallFacts, [Next]_vars PROVE CallFacts'
  BY <1>0, CallFactsAgree
<1>1. ASSUME NEW n \in Node,
             Prepare(n) \/ TakeGate(n) \/ Paced(n) \/ StopWaiting(n) \/ MarkStart(n)
      PROVE  CallFacts'
  <2>1. \E place \in Place \ {"ended"} :
          Goto(n, place) /\ (place \in InFlight \/ pc[n] \notin InFlight)
    BY <1>1 DEF Prepare, TakeGate, Paced, StopWaiting, DoFails, MarkStart, Place, InFlight
  <2> QED BY <1>1, <2>1, CallQuiet DEF Prepare, TakeGate, Paced, StopWaiting, MarkStart
<1>2. ASSUME NEW n \in Node, Start(n) PROVE CallFacts'
  <2>1. CASE started < CallLimit
    <3>1. /\ started' = started + 1 /\ call' = [call EXCEPT ![n] = TRUE]
          /\ Goto(n, "sent") /\ calls' = calls /\ reported' = reported /\ pc[n] = "start"
      BY <1>2, <2>1 DEF Start
    <3>2. ~call[n]  BY <3>1 DEF CallFacts, InFlight
    <3>3. CallsOf \in [Node -> Int] /\ CallsOf' \in [Node -> Int]
      <4>1. \A m \in Node : /\ calls[m] + (IF call[m] THEN 1 ELSE 0) \in Int
                            /\ calls'[m] + (IF call'[m] THEN 1 ELSE 0) \in Int
        BY <3>1 DEF TypeInv
      <4> QED BY <4>1 DEF CallsOf
    <3>4. SameBut(CallsOf', CallsOf, Node, n)
      BY <3>1 DEF SameBut, CallsOf, TypeInv
    <3>5. CallsOf'[n] - CallsOf[n] = 1
      <4>1. calls[n] \in Nat /\ calls'[n] = calls[n] /\ call'[n]
        BY <3>1 DEF TypeInv
      <4>2. CallsOf'[n] = calls[n] + 1 /\ CallsOf[n] = calls[n] + 0
        BY <3>2, <4>1 DEF CallsOf
      <4> QED BY <4>1, <4>2
    <3>6. SumOver(CallsOf', Node) = SumOver(CallsOf, Node) + (CallsOf'[n] - CallsOf[n])
      BY <3>3, <3>4, SumOverUpdate, NodeAssumption
    <3>7. started' <= CallLimit /\ started' = SumOver(CallsOf', Node)
      BY <2>1, <3>1, <3>5, <3>6, CallAssumption DEF CallFacts, TypeInv
    <3>8. \A m \in Node : pc'[m] = "ended" => ~call'[m] /\ reported'[m] = calls'[m]
      BY <3>1 DEF TypeInv, CallFacts, Goto
    <3>9. \A m \in Node : call'[m] => pc'[m] \in InFlight
      BY <3>1 DEF TypeInv, CallFacts, Goto, InFlight
    <3> QED BY <3>7, <3>8, <3>9 DEF CallFacts
  <2>2. CASE ~(started < CallLimit)
    <3>1. UNCHANGED callVars /\ Goto(n, "failed") /\ pc[n] = "start"
      BY <1>2, <2>2 DEF Start, callVars
    <3>2. "failed" \in Place \ {"ended"} /\ pc[n] \notin InFlight
      BY <3>1 DEF Place, InFlight
    <3> QED BY <3>1, <3>2, CallQuiet
  <2> QED BY <2>1, <2>2
<1>3. ASSUME NEW n \in Node, acquire(n) \/ Acquired(n) \/ GiveUp(n) \/ BeforeRead(n)
      PROVE  CallFacts'
  <2>1. \E place \in Place \ {"ended"} : Goto(n, place) /\ place \in InFlight
    BY <1>3 DEF acquire, Acquired, GiveUp, BeforeRead, Place, InFlight
  <2> QED BY <1>3, <2>1, CallQuiet DEF acquire, Acquired, GiveUp, BeforeRead
<1>4. ASSUME NEW n \in Node, Abandon(n) PROVE CallFacts'
  <2>1. \E place \in Place \ {"ended"} : Goto(n, place)
    BY <1>4 DEF Abandon, Place
  <2> QED BY <1>4, <2>1, CallFinish DEF Abandon
<1>5. ASSUME NEW n \in Node, Assess(n) \/ Retry(n) PROVE CallFacts'
  <2>1. \E place \in Place \ {"ended"} : Goto(n, place) /\ pc[n] \notin InFlight
    BY <1>5 DEF Assess, Retry, Place, InFlight
  <2> QED BY <1>5, <2>1, CallQuiet DEF Assess, Retry
<1>6. ASSUME NEW n \in Node, End(n) PROVE CallFacts'
  <2>1. /\ Goto(n, "ended") /\ reported' = [reported EXCEPT ![n] = calls[n]]
        /\ UNCHANGED <<started, call, calls>> /\ pc[n] \in {"passed", "failed"}
    BY <1>6 DEF End
  <2>2. ~call[n]  BY <2>1 DEF CallFacts, InFlight
  <2>3. CallsOf' = CallsOf  BY <2>1 DEF CallsOf
  <2>4. started' <= CallLimit /\ started' = SumOver(CallsOf', Node)
    BY <2>1, <2>3 DEF CallFacts
  <2>5. \A m \in Node : pc'[m] = "ended" => ~call'[m] /\ reported'[m] = calls'[m]
    BY <2>1, <2>2 DEF TypeInv, CallFacts, Goto
  <2>6. \A m \in Node : call'[m] => pc'[m] \in InFlight
    BY <2>1, <2>2 DEF TypeInv, CallFacts, Goto
  <2> QED BY <2>4, <2>5, <2>6 DEF CallFacts
<1>7. ASSUME NEW n \in Node, RoundTripFails(n) \/ Redirect(n) PROVE CallFacts'
  <2>1. \E place \in Place \ {"ended"} : Goto(n, place)
    BY <1>7 DEF RoundTripFails, DoFails, Redirect, Place
  <2> QED BY <1>7, <2>1, CallFinish DEF RoundTripFails, Redirect
<1>8. ASSUME NEW n \in Node, Respond(n) PROVE CallFacts'
  <2>1. pc[n] = "sent" /\ \/ Finish(n) /\ Goto(n, "failed")
                          \/ Goto(n, "acquire") /\ UNCHANGED callVars
    BY <1>8 DEF Respond
  <2>2. "failed" \in Place \ {"ended"} /\ "acquire" \in Place \ {"ended"}
        /\ "acquire" \in InFlight
    BY DEF Place, InFlight
  <2> QED BY <2>1, <2>2, CallFinish, CallQuiet
<1>9. ASSUME NEW n \in Node, readKept(n) \/ ReadFails(n) \/ countRest(n) PROVE CallFacts'
  <2>1. pc[n] \in {"read", "count"} /\
        \/ \E place \in Place \ {"ended"} : Finish(n) /\ Goto(n, place)
        \/ UNCHANGED callVars /\ (pc' = pc \/ Goto(n, "abandon"))
    BY <1>9 DEF readKept, Reading, ReadFails, countRest, Place
  <2>2. "abandon" \in Place \ {"ended"} /\ "abandon" \in InFlight
    BY DEF Place, InFlight
  <2> QED BY <2>1, <2>2, CallFinish, CallQuiet
<1>10. ASSUME NEW n \in Node, OpenStream(n) \/ feed(n) \/ dispatch(n) \/ StreamEnds(n)
       PROVE  CallFacts'
  <2>1. pc[n] \in {"sent", "stream"} /\
        \/ \E place \in Place \ {"ended"} : Finish(n) /\ Goto(n, place)
        \/ UNCHANGED callVars /\ (pc' = pc \/ Goto(n, "stream"))
    BY <1>10 DEF OpenStream, feed, dispatch, StreamEnds, Leave, Place
  <2>2. "stream" \in Place \ {"ended"} /\ "stream" \in InFlight
    BY DEF Place, InFlight
  <2> QED BY <2>1, <2>2, CallFinish, CallQuiet
<1>11. ASSUME NEW n \in Node, Timeout(n) PROVE CallFacts'
  BY <1>11, CallQuiet DEF Timeout
<1>12. CASE Tick \/ Cancel \/ UNCHANGED vars
  <2>1. UNCHANGED <<callVars, pc>>  BY <1>12 DEF Tick, Cancel, vars
  <2>2. CallsOf' = CallsOf  BY <2>1 DEF CallsOf, callVars
  <2> QED BY <2>1, <2>2 DEF CallFacts, callVars
<1> QED BY <1>1, <1>2, <1>3, <1>4, <1>5, <1>6, <1>7, <1>8, <1>9, <1>10, <1>11, <1>12
        DEF Next, Step, Network, Ended

-----------------------------------------------------------------------------
(* Response bodies and their budget.                                       *)

(* A step of node n leaves the bodies of the others alone.                 *)
OthersKeep(n) ==
  \A m \in Node \ {n} :
    /\ pc'[m] = pc[m] /\ held'[m] = held[m] /\ reads'[m] = reads[m]
    /\ length'[m] = length[m] /\ read'[m] = read[m] /\ capacity'[m] = capacity[m]

(* A step of node n hands tokens to the others only off the queue.         *)
GrantsKeep(n) ==
  \A m \in Node \ {n} :
    \/ grant'[m] = grant[m]
    \/ \E i \in 1..Len(waiters) : waiters[i].node = m /\ grant'[m] = waiters[i].want

(* Those who wait after a step of node n waited before it and still have   *)
(* no tokens, or are n itself.                                             *)
QueueKeeps(n) ==
  \A j \in 1..Len(waiters') :
    \/ \E i \in 1..Len(waiters) : /\ waiters'[j] = waiters[i] /\ waiters[i].node # n
                                  /\ grant'[waiters[i].node] = 0
    \/ /\ waiters'[j].node = n /\ pc'[n] = "queued" /\ grant'[n] = 0
       /\ waiters'[j].want = Want(n)'

(* What the others want and may keep stays the same.                       *)
LEMMA OthersWant ==
  ASSUME NEW n \in Node, OthersKeep(n), NEW m \in Node \ {n}
  PROVE  Want(m)' = Want(m) /\ keptResponseBytes(m)' = keptResponseBytes(m)
<1>1. /\ held'[m] = held[m] /\ reads'[m] = reads[m]
      /\ length'[m] = length[m] /\ capacity'[m] = capacity[m]
  BY DEF OthersKeep
<1>2. keptResponseBytes(m)' = keptResponseBytes(m)  BY <1>1 DEF keptResponseBytes
<1>3. Goal(m)' = Goal(m)  BY <1>1, <1>2 DEF Goal
<1> QED BY <1>1, <1>2, <1>3 DEF Want

(* The parts of MemoryInv after a step of node n.                          *)
LEMMA MemoryKept ==
  ASSUME BodyTypes, MemoryInv, NEW n \in Node, OthersKeep(n), GrantsKeep(n), QueueKeeps(n),
         WaitsOnce(waiters'), NodeBody(n)', BudgetInv'
  PROVE  MemoryInv'
<1>1. \A i \in 1..Len(waiters) : waiters[i].node \in Node /\ waiters[i].want \in Nat
  <2>1. \A i \in 1..Len(waiters) : waiters[i] \in Waiter  BY ElementOfSeq DEF BodyTypes
  <2> QED BY <2>1 DEF Waiter
<1>2. ASSUME NEW m \in Node \ {n} PROVE NodeBody(m)'
  <2>1. /\ pc'[m] = pc[m] /\ held'[m] = held[m] /\ read'[m] = read[m]
        /\ capacity'[m] = capacity[m]
    BY DEF OthersKeep
  <2>2. Want(m)' = Want(m) /\ keptResponseBytes(m)' = keptResponseBytes(m)
    BY OthersWant
  <2>3. NodeBody(m)  BY DEF MemoryInv, BodyInv
  <2>4. \/ grant'[m] = grant[m]
        \/ pc[m] = "queued" /\ grant'[m] = Want(m)
    BY DEF GrantsKeep, MemoryInv, QueueInv
  <2> QED BY <2>1, <2>2, <2>3, <2>4 DEF NodeBody
<1>3. BodyInv'  BY <1>2 DEF BodyInv
<1>4. ASSUME NEW j \in 1..Len(waiters'), NEW m \in Node, waiters'[j].node = m
      PROVE  pc'[m] = "queued" /\ grant'[m] = 0 /\ waiters'[j].want = Want(m)'
  <2>1. CASE \E i \in 1..Len(waiters) : /\ waiters'[j] = waiters[i] /\ waiters[i].node # n
                                        /\ grant'[waiters[i].node] = 0
    <3>1. PICK i \in 1..Len(waiters) : /\ waiters'[j] = waiters[i] /\ waiters[i].node # n
                                       /\ grant'[waiters[i].node] = 0
      BY <2>1
    <3>2. m \in Node \ {n} /\ m = waiters[i].node  BY <1>4, <3>1
    <3>3. pc[m] = "queued" /\ waiters[i].want = Want(m)
      BY <3>2 DEF MemoryInv, QueueInv
    <3>4. pc'[m] = pc[m] /\ Want(m)' = Want(m)  BY <3>2, OthersWant DEF OthersKeep
    <3> QED BY <3>1, <3>2, <3>3, <3>4
  <2>2. CASE /\ waiters'[j].node = n /\ pc'[n] = "queued" /\ grant'[n] = 0
             /\ waiters'[j].want = Want(n)'
    BY <1>4, <2>2
  <2> QED BY <2>1, <2>2 DEF QueueKeeps
<1>5. QueueInv'  BY <1>4 DEF QueueInv, WaitsOnce
<1> QED BY <1>3, <1>5 DEF MemoryInv

(* A step that leaves the budget alone, of a node that is not queued.      *)
LEMMA MemoryLocal ==
  ASSUME BodyTypes, MemoryInv, NEW n \in Node, UNCHANGED budgetVars, OthersKeep(n),
         pc[n] # "queued", NodeBody(n)'
  PROVE  MemoryInv'
<1>1. cur' = cur /\ waiters' = waiters /\ grant' = grant /\ held' = held
  BY DEF budgetVars
<1>2. GrantsKeep(n)  BY <1>1 DEF GrantsKeep
<1>3. \A i \in 1..Len(waiters) : /\ waiters[i].node \in Node /\ waiters[i].node # n
                                 /\ grant[waiters[i].node] = 0
  <2>1. \A i \in 1..Len(waiters) : waiters[i] \in Waiter  BY ElementOfSeq DEF BodyTypes
  <2> QED BY <2>1 DEF Waiter, MemoryInv, QueueInv
<1>4. QueueKeeps(n)  BY <1>1, <1>3 DEF QueueKeeps
<1>5. WaitsOnce(waiters')  BY <1>1 DEF MemoryInv, QueueInv, WaitsOnce
<1>6. BudgetInv'
  <2>1. Out' = Out  BY <1>1 DEF Out
  <2> QED BY <1>1, <2>1 DEF MemoryInv, BudgetInv
<1> QED BY <1>2, <1>4, <1>5, <1>6, MemoryKept

(* A node that is not queued changes its place and nothing else here.      *)
LEMMA MemoryQuiet ==
  ASSUME BodyTypes, MemoryInv, UNCHANGED <<reads, budgetVars, bodyVars>>, NEW n \in Node,
         \/ pc' = pc
         \/ \E place \in Place : /\ Goto(n, place) /\ pc[n] # "queued"
                                 /\ (place \in Busy \/ pc[n] \notin Busy)
  PROVE  BodyTypes' /\ MemoryInv'
<1>1. BodyTypes'  BY DEF BodyTypes, budgetVars, bodyVars, Goto
<1>2. Want(n)' = Want(n) /\ keptResponseBytes(n)' = keptResponseBytes(n)
  <2>1. keptResponseBytes(n)' = keptResponseBytes(n)  BY DEF keptResponseBytes
  <2>2. Goal(n)' = Goal(n)  BY <2>1 DEF Goal, bodyVars
  <2> QED BY <2>1, <2>2 DEF Want, budgetVars
<1>3. CASE pc' = pc
  <2>1. OthersKeep(n) /\ GrantsKeep(n)
    BY <1>3 DEF OthersKeep, GrantsKeep, budgetVars, bodyVars
  <2>2. NodeBody(n)'
    BY <1>2, <1>3 DEF MemoryInv, BodyInv, NodeBody, budgetVars, bodyVars
  <2>3. QueueKeeps(n)
    <3>1. ASSUME NEW i \in 1..Len(waiters)
          PROVE  waiters[i].node \in Node /\ grant[waiters[i].node] = 0
      <4>1. waiters[i] \in Waiter  BY ElementOfSeq DEF BodyTypes
      <4> QED BY <4>1 DEF Waiter, MemoryInv, QueueInv
    <3>2. ASSUME NEW i \in 1..Len(waiters), waiters[i].node = n
          PROVE  pc[n] = "queued" /\ grant[n] = 0 /\ waiters[i].want = Want(n)
      BY <3>2 DEF MemoryInv, QueueInv
    <3> QED BY <1>2, <1>3, <3>1, <3>2 DEF QueueKeeps, budgetVars
  <2>4. WaitsOnce(waiters')  BY DEF MemoryInv, QueueInv, WaitsOnce, budgetVars
  <2>5. BudgetInv'
    <3>1. Out' = Out  BY DEF Out, budgetVars
    <3> QED BY <3>1 DEF MemoryInv, BudgetInv, budgetVars
  <2> QED BY <1>1, <2>1, <2>2, <2>3, <2>4, <2>5, MemoryKept
<1>4. CASE \E place \in Place : /\ Goto(n, place) /\ pc[n] # "queued"
                                /\ (place \in Busy \/ pc[n] \notin Busy)
  <2>1. PICK place \in Place : /\ Goto(n, place) /\ pc[n] # "queued"
                               /\ (place \in Busy \/ pc[n] \notin Busy)
    BY <1>4
  <2>2. OthersKeep(n)
    BY <2>1 DEF OthersKeep, budgetVars, bodyVars, BodyTypes, Goto
  <2>3. NodeBody(n)'
    <3>1. NodeBody(n) /\ pc'[n] = place
      BY <2>1 DEF MemoryInv, BodyInv, BodyTypes, Goto
    <3> QED BY <1>2, <2>1, <3>1 DEF NodeBody, budgetVars, bodyVars
  <2> QED BY <1>1, <2>1, <2>2, <2>3, MemoryLocal
<1> QED BY <1>3, <1>4

(* A step that serves the queue, which node n is not or no longer in.      *)
LEMMA MemorySettle ==
  ASSUME BodyTypes, MemoryInv, NEW n \in Node, OthersKeep(n),
         NEW out \in Int, NEW queue \in Seq(Waiter), WaitsOnce(queue),
         NEW granted \in [Node -> Nat], Settle(out, queue, granted),
         held' \in [Node -> Nat],
         out = SumOver([m \in Node |-> held'[m] + granted[m]], Node), out <= BudgetSize,
         granted[n] = 0, \A m \in Node \ {n} : granted[m] = grant[m],
         \A i \in 1..Len(queue) : \E j \in 1..Len(waiters) :
           queue[i] = waiters[j] /\ waiters[j].node # n,
         grant'[n] = 0 => NodeBody(n)'
  PROVE  /\ cur' \in Int /\ waiters' \in Seq(Waiter) /\ grant' \in [Node -> Nat]
         /\ MemoryInv'
<1>1. \A i \in 1..Len(waiters) : waiters[i].node \in Node
  <2>1. \A i \in 1..Len(waiters) : waiters[i] \in Waiter  BY ElementOfSeq DEF BodyTypes
  <2> QED BY <2>1 DEF Waiter
<1>2. ASSUME NEW i \in 1..Len(queue)
      PROVE  granted[queue[i].node] = 0 /\ queue[i].node # n
  <2>1. PICK j \in 1..Len(waiters) : queue[i] = waiters[j] /\ waiters[j].node # n
    OBVIOUS
  <2>2. waiters[j].node \in Node \ {n}  BY <1>1, <2>1
  <2>3. grant[waiters[j].node] = 0  BY <2>2 DEF MemoryInv, QueueInv
  <2> QED BY <2>1, <2>2, <2>3
<1> DEFINE h == held'
<1>3. h \in [Node -> Nat] /\ out = SumOver([m \in Node |-> h[m] + granted[m]], Node)
  OBVIOUS
<1> HIDE DEF h
<1>4. \A i \in 1..Len(queue) : granted[queue[i].node] = 0  BY <1>2
<1>5. /\ cur' \in Int /\ cur' <= BudgetSize
      /\ waiters' \in Seq(Waiter) /\ WaitsOnce(waiters') /\ grant' \in [Node -> Nat]
      /\ cur' = SumOver([m \in Node |-> h[m] + grant'[m]], Node)
      /\ \A m \in Node :
           \/ grant'[m] = granted[m]
           \/ \E i \in 1..Len(queue) : queue[i].node = m /\ grant'[m] = queue[i].want
      /\ \A j \in 1..Len(waiters') : \E i \in 1..Len(queue) :
           waiters'[j] = queue[i] /\ grant'[queue[i].node] = 0
  BY <1>3, <1>4, SettleKeeps
<1>6. GrantsKeep(n)
  <2> SUFFICES ASSUME NEW m \in Node \ {n}
               PROVE  \/ grant'[m] = grant[m]
                      \/ \E j \in 1..Len(waiters) :
                           waiters[j].node = m /\ grant'[m] = waiters[j].want
    BY DEF GrantsKeep
  <2>1. \/ grant'[m] = granted[m]
        \/ \E i \in 1..Len(queue) : queue[i].node = m /\ grant'[m] = queue[i].want
    BY <1>5
  <2> QED BY <2>1
<1>7. QueueKeeps(n)
  <2>1. ASSUME NEW j \in 1..Len(waiters')
        PROVE  \E i \in 1..Len(waiters) : /\ waiters'[j] = waiters[i] /\ waiters[i].node # n
                                          /\ grant'[waiters[i].node] = 0
    <3>1. PICK k \in 1..Len(queue) : waiters'[j] = queue[k] /\ grant'[queue[k].node] = 0
      BY <1>5
    <3>2. PICK i \in 1..Len(waiters) : queue[k] = waiters[i] /\ waiters[i].node # n
      OBVIOUS
    <3> QED BY <3>1, <3>2
  <2> QED BY <2>1 DEF QueueKeeps
<1>8. grant'[n] = 0  BY <1>2, <1>5
<1>9. BudgetInv'
  <2>1. Out' = [m \in Node |-> h[m] + grant'[m]]  BY DEF Out, h
  <2> QED BY <1>5, <2>1 DEF BudgetInv
<1> QED BY <1>5, <1>6, <1>7, <1>8, <1>9, MemoryKept

(* Allocate: the buffer of a node that holds what its goal costs is paid   *)
(* for.                                                                    *)
LEMMA AllocateKeeps ==
  ASSUME BodyTypes, MemoryInv, NEW n \in Node, Allocate(n), UNCHANGED <<reads, read>>,
         held' \in [Node -> Nat], grant'[n] = 0, pc'[n] \in Busy,
         held'[n] >= IF 2 * Goal(n) < BudgetSize THEN 2 * Goal(n) ELSE BudgetSize
  PROVE  /\ capacity' \in [Node -> Nat] /\ NodeBody(n)'
         /\ \A m \in Node \ {n} : capacity'[m] = capacity[m]
<1> DEFINE kept == keptResponseBytes(n)
           room == IF capacity[n] = 0 THEN Goal(n)
                   ELSE read[n] + Min({read[n], kept - read[n]})
<1>1. /\ capacity[n] \in Nat /\ read[n] \in Nat /\ Slack \in Nat /\ BudgetSize \in Nat
      /\ read[n] <= capacity[n] /\ read[n] <= kept /\ held'[n] \in Nat
  BY SizeAssumption, BudgetAssumption DEF BodyTypes, MemoryInv, BodyInv, NodeBody
<1>2. /\ kept \in Nat /\ Goal(n) \in Nat /\ Goal(n) <= kept
      /\ capacity[n] > 0 => Goal(n) = kept
  BY Sizes
<1>3. PICK extra \in 0..Slack : capacity' = [capacity EXCEPT ![n] =
        IF @ = 0 THEN Goal(n) ELSE read[n] + Min({read[n], kept - read[n]}) + extra]
  BY DEF Allocate
<1>4. kept' = kept  BY DEF keptResponseBytes
<1> HIDE DEF kept
<1>5. Min({read[n], kept - read[n]}) \in Nat
  BY <1>1, <1>2, MinTwo
<1>6. capacity'[n] = IF capacity[n] = 0 THEN Goal(n)
                     ELSE read[n] + Min({read[n], kept - read[n]}) + extra
  BY <1>3 DEF BodyTypes
<1>7. capacity'[n] \in Nat /\ read[n] <= capacity'[n]
  BY <1>1, <1>2, <1>3, <1>5, <1>6
<1>8. capacity' \in [Node -> Nat] /\ \A m \in Node \ {n} : capacity'[m] = capacity[m]
  BY <1>3, <1>6, <1>7 DEF BodyTypes
<1>9. Min({capacity'[n], kept}) = IF capacity'[n] < kept THEN capacity'[n] ELSE kept
  BY <1>2, <1>7, MinTwo
<1>10. Min({capacity'[n], kept}) <= Goal(n) /\ Min({capacity'[n], kept}) \in Nat
  <2>1. capacity[n] = 0 \/ capacity[n] > 0  BY <1>1
  <2> QED BY <1>2, <1>6, <1>7, <1>9, <2>1
<1>11. \/ held'[n] >= BudgetSize
       \/ 2 * Min({capacity'[n], kept}) <= held'[n]
  BY <1>1, <1>2, <1>10
<1> QED BY <1>1, <1>4, <1>7, <1>8, <1>11 DEF NodeBody, kept

(* shrinkTo: what is given back leaves the sum, and the queue is served.   *)
LEMMA ShrinkKeeps ==
  ASSUME BodyTypes, MemoryInv, NEW n \in Node, NEW bytes \in Nat, shrinkTo(n, bytes),
         pc[n] # "queued", OthersKeep(n), grant'[n] = 0 => NodeBody(n)'
  PROVE  /\ cur' \in Int /\ waiters' \in Seq(Waiter) /\ grant' \in [Node -> Nat]
         /\ held' \in [Node -> Nat] /\ MemoryInv'
<1> DEFINE keep == Min({held[n], bodyWeight * bytes})
           out == cur - (held[n] - keep)
           before == Out
           after == [m \in Node |-> held'[m] + grant[m]]
<1>1. held[n] \in Nat /\ cur \in Int /\ BudgetSize \in Nat
  BY BudgetAssumption DEF BodyTypes
<1>2. keep \in Nat /\ keep <= held[n]
  BY <1>1, MinTwo DEF bodyWeight
<1>3. held' = [held EXCEPT ![n] = keep] /\ Settle(out, waiters, grant)
  BY DEF shrinkTo
<1> HIDE DEF keep
<1>4. held' \in [Node -> Nat] /\ held'[n] = keep /\ \A m \in Node \ {n} : held'[m] = held[m]
  BY <1>2, <1>3 DEF BodyTypes
<1>5. grant \in [Node -> Nat] /\ held \in [Node -> Nat] /\ waiters \in Seq(Waiter)
  BY DEF BodyTypes
<1>6. before \in [Node -> Int] /\ after \in [Node -> Int]
  BY <1>4, <1>5 DEF Out
<1>7. SameBut(after, before, Node, n)  BY <1>4 DEF SameBut, Out
<1>8. after[n] - before[n] = keep - held[n]
  <2>1. after[n] = keep + grant[n] /\ before[n] = held[n] + grant[n] /\ grant[n] \in Nat
    BY <1>4, <1>5 DEF Out
  <2> QED BY <1>1, <1>2, <2>1
<1>9. cur = SumOver(before, Node) /\ cur <= BudgetSize  BY DEF MemoryInv, BudgetInv
<1> HIDE DEF before
<1>10. out = SumOver(after, Node) /\ out \in Int /\ out <= BudgetSize
  <2> HIDE DEF after
  <2>1. SumOver(after, Node) = SumOver(before, Node) + (after[n] - before[n])
    BY <1>6, <1>7, SumOverUpdate, NodeAssumption
  <2> QED BY <1>1, <1>2, <1>8, <1>9, <2>1
<1>11. grant[n] = 0
  <2>1. NodeBody(n) /\ grant[n] \in Nat  BY <1>5 DEF MemoryInv, BodyInv
  <2> QED BY <2>1 DEF NodeBody
<1>12. WaitsOnce(waiters)  BY DEF MemoryInv, QueueInv, WaitsOnce
<1>13. \A i \in 1..Len(waiters) : \E j \in 1..Len(waiters) :
         waiters[i] = waiters[j] /\ waiters[j].node # n
  BY DEF MemoryInv, QueueInv
<1> HIDE DEF out
<1>14. out = SumOver([m \in Node |-> held'[m] + grant[m]], Node)  BY <1>10
<1>15. /\ cur' \in Int /\ waiters' \in Seq(Waiter) /\ grant' \in [Node -> Nat]
       /\ MemoryInv'
  BY <1>3, <1>4, <1>5, <1>10, <1>11, <1>12, <1>13, <1>14, MemorySettle
<1> QED BY <1>4, <1>15

(* The goal of a node in terms of the tokens it wants.                     *)
LEMMA WantedTokens ==
  ASSUME BodyTypes, NEW n \in Node
  PROVE  /\ Want(n) \in Int
         /\ Want(n) <= 0 => held[n] >= IF 2 * Goal(n) < BudgetSize THEN 2 * Goal(n)
                                       ELSE BudgetSize
         /\ held[n] + Want(n) >= IF 2 * Goal(n) < BudgetSize THEN 2 * Goal(n)
                                 ELSE BudgetSize
<1>1. held[n] \in Nat /\ BudgetSize \in Nat  BY BudgetAssumption DEF BodyTypes
<1> QED BY <1>1, Sizes

(* acquire, whichever way the semaphore answers.                           *)
LEMMA AcquireKeeps ==
  ASSUME BodyTypes, MemoryInv, NEW n \in Node, acquire(n)
  PROVE  BodyTypes' /\ MemoryInv'
<1>1. /\ pc[n] = "acquire" /\ UNCHANGED <<reads, length, left, read>>
      /\ pc \in [Node -> Place] /\ held \in [Node -> Nat] /\ grant \in [Node -> Nat]
      /\ cur \in Int /\ waiters \in Seq(Waiter) /\ capacity \in [Node -> Nat]
  BY DEF acquire, configVars, BodyTypes
<1>2. grant[n] = 0 /\ NodeBody(n)
  <2>1. NodeBody(n) /\ grant[n] \in Nat  BY <1>1 DEF MemoryInv, BodyInv
  <2> QED BY <1>1, <2>1 DEF NodeBody
<1>3. CASE Want(n) <= 0 /\ Allocate(n) /\ Goto(n, "read") /\ UNCHANGED budgetVars
  <2>1. pc' \in [Node -> Place] /\ pc'[n] = "read" /\ \A m \in Node \ {n} : pc'[m] = pc[m]
    BY <1>1, <1>3 DEF Goto, Place
  <2>2. held' = held /\ grant' = grant /\ cur' = cur /\ waiters' = waiters
    BY <1>3 DEF budgetVars
  <2>3. /\ held' \in [Node -> Nat] /\ grant'[n] = 0 /\ pc'[n] \in Busy
        /\ held'[n] >= IF 2 * Goal(n) < BudgetSize THEN 2 * Goal(n) ELSE BudgetSize
    BY <1>1, <1>2, <1>3, <2>1, <2>2, WantedTokens DEF Busy
  <2>4. /\ capacity' \in [Node -> Nat] /\ NodeBody(n)'
        /\ \A m \in Node \ {n} : capacity'[m] = capacity[m]
    BY <1>1, <1>3, <2>3, AllocateKeeps
  <2>5. OthersKeep(n)  BY <1>1, <2>1, <2>2, <2>4 DEF OthersKeep
  <2>6. MemoryInv'  BY <1>1, <1>3, <2>4, <2>5, MemoryLocal
  <2> QED BY <1>1, <2>1, <2>2, <2>4, <2>6 DEF BodyTypes
<1>4. CASE Goto(n, "abandon") /\ UNCHANGED <<budgetVars, capacity>>
  <2>1. "abandon" \in Place /\ "abandon" \in Busy  BY DEF Place, Busy
  <2>2. UNCHANGED <<reads, budgetVars, bodyVars>>  BY <1>1, <1>4 DEF bodyVars
  <2> QED BY <1>1, <1>4, <2>1, <2>2, MemoryQuiet
<1>5. CASE /\ Want(n) > 0 /\ waiters = <<>> /\ cur + Want(n) <= BudgetSize
           /\ cur' = cur + Want(n) /\ held' = [held EXCEPT ![n] = @ + Want(n)]
           /\ Allocate(n) /\ Goto(n, "read") /\ UNCHANGED <<waiters, grant>>
  <2>1. pc' \in [Node -> Place] /\ pc'[n] = "read" /\ \A m \in Node \ {n} : pc'[m] = pc[m]
    BY <1>1, <1>5 DEF Goto, Place
  <2>2. Want(n) \in Int /\ Want(n) > 0 /\ held[n] \in Nat
    BY <1>1, <1>5, WantedTokens
  <2>3. /\ held' \in [Node -> Nat] /\ held'[n] = held[n] + Want(n)
        /\ \A m \in Node \ {n} : held'[m] = held[m]
    <3> DEFINE more == held[n] + Want(n)
    <3>1. more \in Nat  BY <2>2
    <3>2. held' = [held EXCEPT ![n] = more]  BY <1>5
    <3> HIDE DEF more
    <3>3. held' \in [Node -> Nat] /\ held'[n] = more /\ \A m \in Node \ {n} : held'[m] = held[m]
      BY <1>1, <3>1, <3>2
    <3> QED BY <3>3 DEF more
  <2>4. /\ grant'[n] = 0 /\ pc'[n] \in Busy
        /\ held'[n] >= IF 2 * Goal(n) < BudgetSize THEN 2 * Goal(n) ELSE BudgetSize
    BY <1>2, <1>5, <2>1, <2>3, WantedTokens DEF Busy
  <2>5. /\ capacity' \in [Node -> Nat] /\ NodeBody(n)'
        /\ \A m \in Node \ {n} : capacity'[m] = capacity[m]
    BY <1>1, <1>5, <2>3, <2>4, AllocateKeeps
  <2>6. OthersKeep(n)  BY <1>1, <2>1, <2>3, <2>5 DEF OthersKeep
  <2>7. GrantsKeep(n)  BY <1>5 DEF GrantsKeep
  <2>8. QueueKeeps(n) /\ WaitsOnce(waiters')
    <3>1. waiters' = <<>> /\ 1..Len(waiters') = {}  BY <1>5
    <3> QED BY <3>1 DEF QueueKeeps, WaitsOnce
  <2>9. BudgetInv'
    <3>1. Out \in [Node -> Int] /\ Out' \in [Node -> Int]
      BY <1>1, <1>5, <2>3 DEF Out
    <3>2. SameBut(Out', Out, Node, n)  BY <1>5, <2>3 DEF SameBut, Out
    <3>3. Out'[n] - Out[n] = Want(n)
      <4>1. Out'[n] = (held[n] + Want(n)) + grant[n] /\ Out[n] = held[n] + grant[n]
        BY <1>5, <2>3 DEF Out
      <4>2. grant[n] \in Nat  BY <1>1
      <4> QED BY <2>2, <4>1, <4>2
    <3>4. SumOver(Out', Node) = SumOver(Out, Node) + (Out'[n] - Out[n])
      BY <3>1, <3>2, SumOverUpdate, NodeAssumption
    <3>5. cur = SumOver(Out, Node)  BY DEF MemoryInv, BudgetInv
    <3> QED BY <1>1, <1>5, <2>2, <3>3, <3>4, <3>5 DEF BudgetInv
  <2>10. MemoryInv'  BY <2>5, <2>6, <2>7, <2>8, <2>9, MemoryKept
  <2> QED BY <1>1, <1>5, <2>1, <2>2, <2>3, <2>5, <2>10 DEF BodyTypes
<1>6. CASE /\ Want(n) > 0 /\ waiters' = Append(waiters, [node |-> n, want |-> Want(n)])
           /\ Goto(n, "queued") /\ UNCHANGED <<cur, grant, held, capacity>>
  <2> DEFINE w == [node |-> n, want |-> Want(n)]
  <2>1. pc' \in [Node -> Place] /\ pc'[n] = "queued" /\ \A m \in Node \ {n} : pc'[m] = pc[m]
    BY <1>1, <1>6 DEF Goto, Place
  <2>2. w \in Waiter /\ w.node = n /\ w.want = Want(n)
    BY <1>6, WantedTokens DEF Waiter
  <2> HIDE DEF w
  <2>3. /\ waiters' \in Seq(Waiter) /\ Len(waiters') = Len(waiters) + 1 /\ Len(waiters) \in Nat
        /\ waiters'[Len(waiters) + 1] = w
        /\ \A i \in 1..Len(waiters) : waiters'[i] = waiters[i]
    <3>1. waiters' = Append(waiters, w)  BY <1>6 DEF w
    <3> QED BY <1>1, <2>2, <3>1
  <2>4. Want(n)' = Want(n) /\ keptResponseBytes(n)' = keptResponseBytes(n)
    <3>1. keptResponseBytes(n)' = keptResponseBytes(n)  BY <1>1 DEF keptResponseBytes
    <3>2. Goal(n)' = Goal(n)  BY <1>1, <1>6, <3>1 DEF Goal
    <3> QED BY <1>6, <3>1, <3>2 DEF Want
  <2>5. NodeBody(n)'  BY <1>1, <1>2, <1>6, <2>1, <2>4 DEF NodeBody, Busy
  <2>6. OthersKeep(n)  BY <1>1, <1>6, <2>1 DEF OthersKeep
  <2>7. GrantsKeep(n)  BY <1>6 DEF GrantsKeep
  <2>8. \A i \in 1..Len(waiters) : /\ waiters[i].node # n /\ waiters[i].node \in Node
                                   /\ grant[waiters[i].node] = 0
    <3>1. \A i \in 1..Len(waiters) : waiters[i] \in Waiter  BY <1>1, ElementOfSeq
    <3> QED BY <1>1, <3>1 DEF Waiter, MemoryInv, QueueInv
  <2>9. QueueKeeps(n)
    <3>1. ASSUME NEW j \in 1..Len(waiters'), j # Len(waiters) + 1
          PROVE  /\ j \in 1..Len(waiters) /\ waiters'[j] = waiters[j]
      BY <2>3, <3>1
    <3>2. ASSUME NEW j \in 1..Len(waiters'), j = Len(waiters) + 1
          PROVE  /\ waiters'[j].node = n /\ pc'[n] = "queued" /\ grant'[n] = 0
                 /\ waiters'[j].want = Want(n)'
      BY <1>2, <1>6, <2>1, <2>2, <2>3, <2>4, <3>2
    <3> QED BY <1>6, <2>8, <3>1, <3>2 DEF QueueKeeps
  <2>10. WaitsOnce(waiters')
    <3> SUFFICES ASSUME NEW i \in 1..Len(waiters'), NEW j \in 1..Len(waiters'),
                        waiters'[i].node = waiters'[j].node
                 PROVE  i = j
      BY DEF WaitsOnce
    <3>1. \A k \in 1..Len(waiters') : k = Len(waiters) + 1 \/ k \in 1..Len(waiters)
      BY <2>3
    <3>2. CASE i \in 1..Len(waiters) /\ j \in 1..Len(waiters)
      BY <2>3, <3>2 DEF MemoryInv, QueueInv
    <3> QED BY <2>2, <2>3, <2>8, <3>1, <3>2
  <2>11. BudgetInv'
    <3>1. Out' = Out  BY <1>6 DEF Out
    <3> QED BY <1>6, <3>1 DEF MemoryInv, BudgetInv
  <2>12. MemoryInv'  BY <2>5, <2>6, <2>7, <2>9, <2>10, <2>11, MemoryKept
  <2> QED BY <1>1, <1>6, <2>1, <2>3, <2>12 DEF BodyTypes
<1> QED BY <1>3, <1>4, <1>5, <1>6 DEF acquire

(* A waiter that has its tokens is not in the queue; it holds them now.    *)
LEMMA AcquiredKeeps ==
  ASSUME BodyTypes, MemoryInv, NEW n \in Node, Acquired(n)
  PROVE  BodyTypes' /\ MemoryInv'
<1>1. /\ pc[n] = "queued" /\ grant[n] > 0 /\ UNCHANGED <<reads, length, left, read>>
      /\ cur' = cur /\ waiters' = waiters
      /\ held' = [held EXCEPT ![n] = @ + grant[n]] /\ grant' = [grant EXCEPT ![n] = 0]
      /\ Allocate(n) /\ Goto(n, "read")
  BY DEF Acquired, configVars
<1>2. /\ pc \in [Node -> Place] /\ held \in [Node -> Nat] /\ grant \in [Node -> Nat]
      /\ cur \in Int /\ waiters \in Seq(Waiter)
  BY DEF BodyTypes
<1>3. pc' \in [Node -> Place] /\ pc'[n] = "read" /\ \A m \in Node \ {n} : pc'[m] = pc[m]
  BY <1>1, <1>2 DEF Goto, Place
<1>4. /\ held' \in [Node -> Nat] /\ held'[n] = held[n] + grant[n]
      /\ grant' \in [Node -> Nat] /\ grant'[n] = 0
      /\ \A m \in Node \ {n} : held'[m] = held[m] /\ grant'[m] = grant[m]
  BY <1>1, <1>2
<1>5. grant[n] = Want(n)  BY <1>1 DEF MemoryInv, BodyInv, NodeBody
<1>6. held'[n] >= IF 2 * Goal(n) < BudgetSize THEN 2 * Goal(n) ELSE BudgetSize
  BY <1>4, <1>5, WantedTokens
<1>7. pc'[n] \in Busy  BY <1>3 DEF Busy
<1>8. /\ capacity' \in [Node -> Nat] /\ NodeBody(n)'
      /\ \A m \in Node \ {n} : capacity'[m] = capacity[m]
  BY <1>1, <1>4, <1>6, <1>7, AllocateKeeps
<1>9. OthersKeep(n)  BY <1>1, <1>3, <1>4, <1>8 DEF OthersKeep
<1>10. GrantsKeep(n)  BY <1>4 DEF GrantsKeep
<1>11. QueueKeeps(n)
  <2>1. ASSUME NEW i \in 1..Len(waiters)
        PROVE  /\ waiters[i].node \in Node /\ waiters[i].node # n
               /\ grant[waiters[i].node] = 0
    <3>1. waiters[i] \in Waiter  BY <1>2, ElementOfSeq
    <3>2. waiters[i].node \in Node  BY <3>1 DEF Waiter
    <3>3. grant[waiters[i].node] = 0  BY <3>2 DEF MemoryInv, QueueInv
    <3> QED BY <1>1, <3>2, <3>3
  <2> QED BY <1>1, <1>4, <2>1 DEF QueueKeeps
<1>12. WaitsOnce(waiters')  BY <1>1 DEF MemoryInv, QueueInv, WaitsOnce
<1>13. BudgetInv'
  <2>1. ASSUME NEW m \in Node PROVE held'[m] + grant'[m] = held[m] + grant[m]
    <3>1. CASE m = n
      <4>1. held[n] \in Nat /\ grant[n] \in Nat  BY <1>2
      <4> QED BY <1>4, <3>1, <4>1
    <3>2. CASE m # n  BY <1>4, <3>2
    <3> QED BY <3>1, <3>2
  <2>2. Out' = Out  BY <2>1 DEF Out
  <2> QED BY <1>1, <2>2 DEF MemoryInv, BudgetInv
<1>14. MemoryInv'  BY <1>8, <1>9, <1>10, <1>11, <1>12, <1>13, MemoryKept
<1> QED BY <1>1, <1>2, <1>3, <1>4, <1>8, <1>14 DEF BodyTypes

(* GiveUp: the node's tokens go back, or its place in the queue is gone.   *)
LEMMA GiveUpKeeps ==
  ASSUME BodyTypes, MemoryInv, NEW n \in Node, GiveUp(n)
  PROVE  BodyTypes' /\ MemoryInv'
<1>1. /\ pc[n] = "queued" /\ UNCHANGED <<reads, held, bodyVars>> /\ Goto(n, "abandon")
      /\ IF grant[n] > 0
         THEN Settle(cur - grant[n], waiters, [grant EXCEPT ![n] = 0])
         ELSE \E k \in DOMAIN waiters :
                waiters[k].node = n /\ Settle(cur, RemoveAt(waiters, k), grant)
  BY DEF GiveUp, configVars
<1>2. /\ pc \in [Node -> Place] /\ held \in [Node -> Nat] /\ grant \in [Node -> Nat]
      /\ cur \in Int /\ waiters \in Seq(Waiter) /\ BudgetSize \in Nat
  BY BudgetAssumption DEF BodyTypes
<1>3. pc' \in [Node -> Place] /\ pc'[n] = "abandon" /\ \A m \in Node \ {n} : pc'[m] = pc[m]
  BY <1>1, <1>2 DEF Goto, Place
<1>4. OthersKeep(n)  BY <1>1, <1>3 DEF OthersKeep, bodyVars
<1>5. grant'[n] = 0 => NodeBody(n)'
  <2>1. keptResponseBytes(n)' = keptResponseBytes(n)  BY <1>1 DEF keptResponseBytes
  <2>2. NodeBody(n)  BY DEF MemoryInv, BodyInv
  <2> QED BY <1>1, <1>3, <2>1, <2>2 DEF NodeBody, Busy, bodyVars
<1>6. WaitsOnce(waiters)  BY DEF MemoryInv, QueueInv, WaitsOnce
<1>7. held' \in [Node -> Nat]  BY <1>1, <1>2
<1>8. cur = SumOver(Out, Node) /\ cur <= BudgetSize  BY DEF MemoryInv, BudgetInv
<1>9. CASE grant[n] > 0
  <2> DEFINE granted == [grant EXCEPT ![n] = 0]
             out == cur - grant[n]
             after == [m \in Node |-> held'[m] + granted[m]]
             before == Out
  <2>1. granted \in [Node -> Nat] /\ granted[n] = 0 /\ \A m \in Node \ {n} : granted[m] = grant[m]
    BY <1>2
  <2>2. Settle(out, waiters, granted)  BY <1>1, <1>9
  <2> HIDE DEF granted
  <2>3. before \in [Node -> Int] /\ after \in [Node -> Int]
    BY <1>2, <1>7, <2>1 DEF Out
  <2>4. SameBut(after, before, Node, n)  BY <1>1, <2>1 DEF SameBut, Out
  <2>5. after[n] - before[n] = 0 - grant[n]
    <3>1. after[n] = held[n] + 0 /\ before[n] = held[n] + grant[n]
      BY <1>1, <2>1 DEF Out
    <3>2. held[n] \in Nat /\ grant[n] \in Nat  BY <1>2
    <3> QED BY <3>1, <3>2
  <2> HIDE DEF before
  <2>6. out = SumOver(after, Node) /\ out \in Int /\ out <= BudgetSize
    <3>1. cur = SumOver(before, Node)  BY <1>8 DEF before
    <3> HIDE DEF after
    <3>2. SumOver(after, Node) = SumOver(before, Node) + (after[n] - before[n])
      BY <2>3, <2>4, SumOverUpdate, NodeAssumption
    <3>3. grant[n] \in Nat  BY <1>2
    <3> QED BY <1>2, <1>8, <2>5, <3>1, <3>2, <3>3
  <2>7. ASSUME NEW i \in 1..Len(waiters)
        PROVE  \E j \in 1..Len(waiters) : waiters[i] = waiters[j] /\ waiters[j].node # n
    <3>1. waiters[i].node = n => grant[n] = 0  BY DEF MemoryInv, QueueInv
    <3>2. waiters[i].node # n  BY <1>9, <3>1
    <3> QED BY <3>2
  <2> HIDE DEF out
  <2>8. out = SumOver([m \in Node |-> held'[m] + granted[m]], Node)  BY <2>6
  <2>9. /\ cur' \in Int /\ waiters' \in Seq(Waiter) /\ grant' \in [Node -> Nat]
        /\ MemoryInv'
    BY <1>2, <1>4, <1>5, <1>6, <1>7, <2>1, <2>2, <2>6, <2>7, <2>8, MemorySettle
  <2> QED BY <1>1, <1>3, <1>7, <2>9 DEF BodyTypes, bodyVars
<1>10. CASE ~(grant[n] > 0)
  <2>1. PICK k \in DOMAIN waiters :
          waiters[k].node = n /\ Settle(cur, RemoveAt(waiters, k), grant)
    BY <1>1, <1>10
  <2>2. k \in 1..Len(waiters) /\ Len(waiters) \in Nat  BY <1>2, <2>1
  <2> DEFINE queue == RemoveAt(waiters, k)
             from(i) == IF i < k THEN i ELSE i + 1
  <2>3. /\ queue \in Seq(Waiter) /\ Len(queue) = Len(waiters) - 1
        /\ \A i \in 1..Len(queue) : queue[i] = waiters[from(i)]
    BY <1>2, <2>2, RemoveOne
  <2> HIDE DEF queue
  <2>4. \A i \in 1..Len(queue) : from(i) \in 1..Len(waiters) /\ from(i) # k
    BY <2>2, <2>3
  <2>5. \A i \in 1..Len(queue), j \in 1..Len(queue) : from(i) = from(j) => i = j
    BY <2>2, <2>3
  <2> HIDE DEF from
  <2>6. WaitsOnce(queue)
    <3> SUFFICES ASSUME NEW i \in 1..Len(queue), NEW j \in 1..Len(queue),
                        queue[i].node = queue[j].node
                 PROVE  i = j
      BY DEF WaitsOnce
    <3>1. waiters[from(i)].node = waiters[from(j)].node  BY <2>3
    <3>2. from(i) = from(j)  BY <1>6, <2>4, <3>1 DEF WaitsOnce
    <3> QED BY <2>5, <3>2
  <2>7. ASSUME NEW i \in 1..Len(queue)
        PROVE  \E j \in 1..Len(waiters) : queue[i] = waiters[j] /\ waiters[j].node # n
    <3>1. waiters[from(i)].node # n  BY <1>6, <2>1, <2>2, <2>4 DEF WaitsOnce
    <3> QED BY <2>3, <2>4, <3>1
  <2>8. cur = SumOver([m \in Node |-> held'[m] + grant[m]], Node)
    BY <1>1, <1>8 DEF Out
  <2>9. grant[n] = 0  BY <1>2, <1>10
  <2>10. Settle(cur, queue, grant)  BY <2>1 DEF queue
  <2>11. /\ cur' \in Int /\ waiters' \in Seq(Waiter) /\ grant' \in [Node -> Nat]
         /\ MemoryInv'
    BY <1>2, <1>4, <1>5, <1>7, <1>8, <2>3, <2>6, <2>7, <2>8, <2>9, <2>10, MemorySettle
  <2> QED BY <1>1, <1>3, <1>7, <2>11 DEF BodyTypes, bodyVars
<1> QED BY <1>9, <1>10

(* Respond: a node that sent its request has neither buffer nor tokens.    *)
LEMMA RespondKeeps ==
  ASSUME BodyTypes, MemoryInv, NEW n \in Node, Respond(n)
  PROVE  BodyTypes' /\ MemoryInv'
<1>1. PICK size \in BodySizes, declared \in {Unknown} \cup BodySizes :
        /\ length' = [length EXCEPT ![n] = declared] /\ left' = [left EXCEPT ![n] = size]
        /\ Goto(n, "failed") \/ Goto(n, "acquire")
  BY DEF Respond
<1>2. pc[n] = "sent" /\ UNCHANGED <<reads, budgetVars, read, capacity>>
  BY DEF Respond, configVars
<1>3. size \in Nat /\ declared \in Nat \cup {Unknown}  BY SizeAssumption
<1>4. /\ pc' \in [Node -> Place] /\ pc'[n] \in {"failed", "acquire"}
      /\ \A m \in Node \ {n} : pc'[m] = pc[m]
  BY <1>1 DEF Goto, Place, BodyTypes
<1>5. /\ length' \in [Node -> Nat \cup {Unknown}] /\ left' \in [Node -> Nat]
      /\ \A m \in Node \ {n} : length'[m] = length[m]
  BY <1>1, <1>3 DEF BodyTypes
<1>6. BodyTypes'  BY <1>2, <1>4, <1>5 DEF BodyTypes, budgetVars
<1>7. OthersKeep(n)  BY <1>2, <1>4, <1>5 DEF OthersKeep, budgetVars
<1>8. NodeBody(n)'
  <2>1. keptResponseBytes(n)' = keptResponseBytes(n)  BY <1>2 DEF keptResponseBytes
  <2>2. NodeBody(n) /\ grant[n] \in Nat  BY DEF MemoryInv, BodyInv, BodyTypes
  <2>3. held[n] = 0 /\ read[n] = 0 /\ capacity[n] = 0 /\ grant[n] = 0
    BY <1>2, <2>2 DEF NodeBody, Busy
  <2> QED BY <1>2, <2>1, <2>2, <2>3 DEF NodeBody, budgetVars
<1> QED BY <1>2, <1>6, <1>7, <1>8, MemoryLocal

(* readKept: no more is read than the buffer takes and the node keeps.     *)
LEMMA ReadKeeps ==
  ASSUME BodyTypes, MemoryInv, NEW n \in Node, readKept(n)
  PROVE  BodyTypes' /\ MemoryInv'
<1>1. pc[n] = "read" /\ UNCHANGED <<reads, budgetVars, length, capacity>>
  BY DEF readKept, Reading, configVars
<1>2. CASE Goto(n, "count") /\ UNCHANGED <<left, read>>
  <2>1. "count" \in Place /\ "count" \in Busy  BY DEF Place, Busy
  <2>2. UNCHANGED <<reads, budgetVars, bodyVars>>  BY <1>1, <1>2 DEF bodyVars
  <2> QED BY <1>1, <1>2, <2>1, <2>2, MemoryQuiet
<1>3. CASE /\ \E k \in 1..Min({left[n], Min({capacity[n], keptResponseBytes(n)}) - read[n]}) :
                /\ read' = [read EXCEPT ![n] = @ + k]
                /\ left' = [left EXCEPT ![n] = @ - k]
           /\ UNCHANGED pc
  <2> DEFINE kept == keptResponseBytes(n)
             full == Min({capacity[n], kept})
             most == Min({left[n], full - read[n]})
  <2>1. PICK k \in 1..most : /\ read' = [read EXCEPT ![n] = @ + k]
                             /\ left' = [left EXCEPT ![n] = @ - k]
    BY <1>3
  <2>2. left[n] \in Nat /\ capacity[n] \in Nat /\ read[n] \in Nat /\ kept \in Nat
    BY Sizes DEF BodyTypes
  <2> HIDE DEF kept
  <2>3. full = (IF capacity[n] < kept THEN capacity[n] ELSE kept) /\ full \in Nat
    BY <2>2, MinTwo
  <2> HIDE DEF full
  <2>4. most = IF left[n] < full - read[n] THEN left[n] ELSE full - read[n]
    <3>1. full - read[n] \in Int /\ left[n] \in Int  BY <2>2, <2>3
    <3> QED BY <3>1, MinTwo
  <2> HIDE DEF most
  <2>5. k \in Nat /\ left[n] - k \in Nat /\ read[n] + k <= capacity[n] /\ read[n] + k <= kept
    BY <2>2, <2>3, <2>4
  <2> DEFINE more == read[n] + k
             less == left[n] - k
  <2>6. more \in Nat /\ less \in Nat  BY <2>2, <2>5
  <2>7. read' = [read EXCEPT ![n] = more] /\ left' = [left EXCEPT ![n] = less]
    BY <2>1
  <2> HIDE DEF more, less
  <2>8. /\ read' \in [Node -> Nat] /\ left' \in [Node -> Nat] /\ read'[n] = more
        /\ \A m \in Node \ {n} : read'[m] = read[m]
    BY <2>6, <2>7 DEF BodyTypes
  <2>9. BodyTypes'  BY <1>1, <1>3, <2>8 DEF BodyTypes, budgetVars
  <2>10. OthersKeep(n)  BY <1>1, <1>3, <2>8 DEF OthersKeep, budgetVars
  <2>11. NodeBody(n)'
    <3>1. keptResponseBytes(n)' = kept  BY <1>1 DEF keptResponseBytes, kept
    <3>2. NodeBody(n)  BY DEF MemoryInv, BodyInv
    <3>3. grant[n] = 0
      <4>1. grant[n] \in Nat  BY DEF BodyTypes
      <4> QED BY <1>1, <3>2, <4>1 DEF NodeBody
    <3>4. read'[n] <= capacity[n] /\ read'[n] <= kept  BY <2>5, <2>8 DEF more
    <3>5. pc'[n] \in Busy  BY <1>1, <1>3 DEF Busy
    <3>6. \/ held[n] >= BudgetSize
          \/ 2 * Min({capacity[n], kept}) <= held[n]
      BY <3>2 DEF NodeBody, kept
    <3> QED BY <1>1, <3>1, <3>3, <3>4, <3>5, <3>6 DEF NodeBody, budgetVars
  <2> QED BY <1>1, <2>9, <2>10, <2>11, MemoryLocal
<1> QED BY <1>2, <1>3 DEF readKept

(* countRest: tokens past the buffer's capacity go back.                   *)
LEMMA CountKeeps ==
  ASSUME BodyTypes, MemoryInv, NEW n \in Node, countRest(n)
  PROVE  BodyTypes' /\ MemoryInv'
<1>1. pc[n] = "count" /\ UNCHANGED <<reads, length, read, capacity>>
  BY DEF countRest, configVars
<1>2. CASE Goto(n, "abandon") /\ UNCHANGED <<budgetVars, left>>
  <2>1. "abandon" \in Place /\ "abandon" \in Busy  BY DEF Place, Busy
  <2>2. UNCHANGED <<reads, budgetVars, bodyVars>>  BY <1>1, <1>2 DEF bodyVars
  <2> QED BY <1>1, <1>2, <2>1, <2>2, MemoryQuiet
<1>3. CASE /\ left' = [left EXCEPT ![n] = 0]
           /\ shrinkTo(n, capacity[n]) /\ Goto(n, "assess")
  <2> DEFINE kept == keptResponseBytes(n)
             keep == Min({held[n], 2 * capacity[n]})
             full == Min({capacity[n], kept})
  <2>1. /\ capacity[n] \in Nat /\ held[n] \in Nat /\ kept \in Nat /\ read[n] \in Nat
    BY Sizes DEF BodyTypes
  <2>2. held' = [held EXCEPT ![n] = keep]  BY <1>3 DEF shrinkTo, bodyWeight
  <2> HIDE DEF kept
  <2>3. keep = IF held[n] < 2 * capacity[n] THEN held[n] ELSE 2 * capacity[n]
    BY <2>1, MinTwo
  <2>4. full = (IF capacity[n] < kept THEN capacity[n] ELSE kept) /\ full \in Nat
    BY <2>1, MinTwo
  <2>5. NodeBody(n)  BY DEF MemoryInv, BodyInv
  <2>6. held[n] >= BudgetSize \/ 2 * full <= held[n]  BY <2>5 DEF NodeBody, kept
  <2> HIDE DEF keep, full
  <2>7. /\ held'[n] = keep /\ \A m \in Node \ {n} : held'[m] = held[m]
    BY <2>2 DEF BodyTypes
  <2>8. keep >= BudgetSize \/ 2 * full <= keep  BY <2>1, <2>3, <2>4, <2>6, BudgetAssumption
  <2>9. /\ pc' \in [Node -> Place] /\ pc'[n] = "assess" /\ left' \in [Node -> Nat]
        /\ \A m \in Node \ {n} : pc'[m] = pc[m]
    BY <1>3 DEF Goto, Place, BodyTypes
  <2>10. OthersKeep(n)  BY <1>1, <2>7, <2>9 DEF OthersKeep
  <2>11. grant'[n] = 0 => NodeBody(n)'
    <3>1. keptResponseBytes(n)' = kept  BY <1>1 DEF keptResponseBytes, kept
    <3>2. read[n] <= capacity[n] /\ read[n] <= kept  BY <2>5 DEF NodeBody, kept
    <3> QED BY <1>1, <2>7, <2>8, <2>9, <3>1, <3>2 DEF NodeBody, Busy, full
  <2>12. /\ cur' \in Int /\ waiters' \in Seq(Waiter) /\ grant' \in [Node -> Nat]
         /\ held' \in [Node -> Nat] /\ MemoryInv'
    BY <1>1, <1>3, <2>1, <2>10, <2>11, ShrinkKeeps
  <2> QED BY <1>1, <2>9, <2>12 DEF BodyTypes
<1> QED BY <1>2, <1>3 DEF countRest

(* The buffer goes, and with it all the node's tokens.                     *)
LEMMA ReleaseKeeps ==
  ASSUME BodyTypes, MemoryInv, NEW n \in Node, ReleaseBody(n), pc[n] # "queued",
         UNCHANGED reads, \E place \in {"passed", "failed"} : Goto(n, place)
  PROVE  BodyTypes' /\ MemoryInv'
<1>1. /\ shrinkTo(n, 0)
      /\ read' = [read EXCEPT ![n] = 0] /\ capacity' = [capacity EXCEPT ![n] = 0]
      /\ left' = [left EXCEPT ![n] = 0] /\ length' = [length EXCEPT ![n] = 0]
  BY DEF ReleaseBody
<1>2. /\ read' \in [Node -> Nat] /\ capacity' \in [Node -> Nat] /\ left' \in [Node -> Nat]
      /\ length' \in [Node -> Nat \cup {Unknown}]
      /\ read'[n] = 0 /\ capacity'[n] = 0
      /\ \A m \in Node \ {n} : /\ read'[m] = read[m] /\ capacity'[m] = capacity[m]
                               /\ length'[m] = length[m]
  BY <1>1 DEF BodyTypes
<1>3. /\ pc' \in [Node -> Place] /\ pc'[n] \in {"passed", "failed"}
      /\ \A m \in Node \ {n} : pc'[m] = pc[m]
  BY DEF Goto, Place, BodyTypes
<1>4. held'[n] = 0 /\ \A m \in Node \ {n} : held'[m] = held[m]
  <2> DEFINE keep == Min({held[n], 2 * 0})
  <2>1. held[n] \in Nat /\ 2 * 0 = 0  BY DEF BodyTypes
  <2>2. keep = 0  BY <2>1, MinTwo
  <2>3. held' = [held EXCEPT ![n] = keep]  BY <1>1 DEF shrinkTo, bodyWeight
  <2> HIDE DEF keep
  <2> QED BY <2>2, <2>3 DEF BodyTypes
<1>5. OthersKeep(n)  BY <1>2, <1>3, <1>4 DEF OthersKeep
<1>6. grant'[n] = 0 => NodeBody(n)'
  <2> DEFINE kept == keptResponseBytes(n)
  <2>1. kept' = kept /\ kept \in Nat  BY Sizes DEF keptResponseBytes
  <2> HIDE DEF kept
  <2>2. Min({0, kept}) = 0  BY <2>1, MinTwo
  <2>3. 2 * Min({capacity'[n], kept}) <= held'[n]  BY <1>2, <1>4, <2>2
  <2> QED BY <1>2, <1>4, <2>1, <2>3 DEF NodeBody, kept
<1>7. /\ cur' \in Int /\ waiters' \in Seq(Waiter) /\ grant' \in [Node -> Nat]
      /\ held' \in [Node -> Nat] /\ MemoryInv'
  <2>1. 0 \in Nat  OBVIOUS
  <2> QED BY <1>1, <1>5, <1>6, <2>1, ShrinkKeeps
<1> QED BY <1>2, <1>3, <1>7 DEF BodyTypes

(* Every step keeps the memory of response bodies within the budget.       *)
LEMMA MemoryStep == BodyTypes /\ MemoryInv /\ [Next]_vars => BodyTypes' /\ MemoryInv'
<1> SUFFICES ASSUME BodyTypes, MemoryInv, [Next]_vars PROVE BodyTypes' /\ MemoryInv'
  OBVIOUS
<1>1. ASSUME NEW n \in Node,
             Prepare(n) \/ TakeGate(n) \/ Paced(n) \/ StopWaiting(n) \/ MarkStart(n) \/ Start(n)
      PROVE  BodyTypes' /\ MemoryInv'
  <2>1. \E place \in Place : Goto(n, place) /\ pc[n] # "queued" /\ pc[n] \notin Busy
    BY <1>1 DEF Prepare, TakeGate, Paced, StopWaiting, DoFails, MarkStart, Start, Place, Busy
  <2>2. UNCHANGED <<reads, budgetVars, bodyVars>>
    BY <1>1 DEF Prepare, TakeGate, Paced, StopWaiting, MarkStart, Start, configVars
  <2> QED BY <2>1, <2>2, MemoryQuiet
<1>2. ASSUME NEW n \in Node, BeforeRead(n) \/ ReadFails(n) PROVE BodyTypes' /\ MemoryInv'
  <2>1. \E place \in Place : Goto(n, place) /\ pc[n] # "queued" /\ place \in Busy
    BY <1>2 DEF BeforeRead, ReadFails, Reading, Place, Busy
  <2>2. UNCHANGED <<reads, budgetVars, bodyVars>>
    BY <1>2 DEF BeforeRead, ReadFails, configVars
  <2> QED BY <2>1, <2>2, MemoryQuiet
<1>3. ASSUME NEW n \in Node, Retry(n) \/ End(n) \/ RoundTripFails(n) \/ Redirect(n)
      PROVE  BodyTypes' /\ MemoryInv'
  <2>1. \E place \in Place : Goto(n, place) /\ pc[n] # "queued" /\ pc[n] \notin Busy
    BY <1>3 DEF Retry, End, RoundTripFails, DoFails, Redirect, Place, Busy
  <2>2. UNCHANGED <<reads, budgetVars, bodyVars>>
    BY <1>3 DEF Retry, End, RoundTripFails, Redirect, configVars
  <2> QED BY <2>1, <2>2, MemoryQuiet
<1>4. ASSUME NEW n \in Node,
             OpenStream(n) \/ feed(n) \/ dispatch(n) \/ StreamEnds(n) \/ Timeout(n)
      PROVE  BodyTypes' /\ MemoryInv'
  <2>1. \/ pc' = pc
        \/ \E place \in Place : Goto(n, place) /\ pc[n] # "queued" /\ pc[n] \notin Busy
    BY <1>4 DEF OpenStream, feed, dispatch, StreamEnds, Leave, Timeout, Place, Busy
  <2>2. UNCHANGED <<reads, budgetVars, bodyVars>>
    BY <1>4 DEF OpenStream, feed, dispatch, StreamEnds, Timeout, configVars
  <2> QED BY <2>1, <2>2, MemoryQuiet
<1>5. ASSUME NEW n \in Node, Abandon(n) \/ Assess(n) PROVE BodyTypes' /\ MemoryInv'
  <2>1. /\ ReleaseBody(n) /\ pc[n] # "queued" /\ UNCHANGED reads
        /\ \E place \in {"passed", "failed"} : Goto(n, place)
    BY <1>5 DEF Abandon, Assess, configVars
  <2> QED BY <2>1, ReleaseKeeps
<1>6. CASE Tick \/ Cancel \/ UNCHANGED vars
  <2>1. UNCHANGED <<reads, pc, budgetVars, bodyVars>>
    BY <1>6 DEF Tick, Cancel, vars, configVars
  <2>2. BodyTypes'  BY <2>1 DEF BodyTypes, budgetVars, bodyVars
  <2>3. \A n \in Node : /\ Want(n)' = Want(n)
                        /\ keptResponseBytes(n)' = keptResponseBytes(n)
    BY <2>1 DEF Want, Goal, keptResponseBytes, budgetVars, bodyVars
  <2>4. QueueInv'  BY <2>1, <2>3 DEF MemoryInv, QueueInv, budgetVars
  <2>5. BodyInv'  BY <2>1, <2>3 DEF MemoryInv, BodyInv, NodeBody, budgetVars, bodyVars
  <2>6. BudgetInv'
    <3>1. Out' = Out  BY <2>1 DEF Out, budgetVars
    <3> QED BY <2>1, <3>1 DEF MemoryInv, BudgetInv, budgetVars
  <2> QED BY <2>2, <2>4, <2>5, <2>6 DEF MemoryInv
<1> QED BY <1>1, <1>2, <1>3, <1>4, <1>5, <1>6, AcquireKeeps, AcquiredKeeps, GiveUpKeeps,
           RespondKeeps, ReadKeeps, CountKeeps
        DEF Next, Step, Network, Ended

-----------------------------------------------------------------------------
(* The types of the pacer and of the calls.                                *)
LEMMA TypeStep == TypeInv /\ MemoryInv /\ [Next]_vars => TypeInv'
<1> SUFFICES ASSUME TypeInv, MemoryInv, [Next]_vars PROVE TypeInv'  OBVIOUS
<1>1. BodyTypes'
  <2>1. BodyTypes  BY DEF TypeInv, BodyTypes
  <2> QED BY <2>1, MemoryStep
<1>2. since' \in Nat
  <2>1. ASSUME NEW n \in Node, Step(n) PROVE since' \in Nat
    <3>1. CASE MarkStart(n)  BY <3>1 DEF MarkStart
    <3>2. CASE Prepare(n) \/ TakeGate(n) \/ Paced(n) \/ StopWaiting(n) \/ Start(n)
      BY <3>2 DEF Prepare, TakeGate, Paced, StopWaiting, Start, pacerVars, TypeInv
    <3>3. CASE acquire(n) \/ Acquired(n) \/ GiveUp(n) \/ BeforeRead(n)
      BY <3>3 DEF acquire, Acquired, GiveUp, BeforeRead, pacerVars, TypeInv
    <3>4. CASE Abandon(n) \/ Assess(n) \/ Retry(n) \/ End(n)
      BY <3>4 DEF Abandon, Assess, Retry, End, pacerVars, TypeInv
    <3> QED BY <2>1, <3>1, <3>2, <3>3, <3>4 DEF Step
  <2>2. ASSUME NEW n \in Node, Network(n) \/ Timeout(n) PROVE since' \in Nat
    <3>1. CASE RoundTripFails(n) \/ Redirect(n) \/ Respond(n) \/ readKept(n)
      BY <3>1 DEF RoundTripFails, Redirect, Respond, readKept, pacerVars, TypeInv
    <3>2. CASE ReadFails(n) \/ countRest(n) \/ Timeout(n)
      BY <3>2 DEF ReadFails, countRest, Timeout, pacerVars, TypeInv
    <3>3. CASE OpenStream(n) \/ feed(n) \/ dispatch(n) \/ StreamEnds(n)
      BY <3>3 DEF OpenStream, feed, dispatch, StreamEnds, pacerVars, TypeInv
    <3> QED BY <2>2, <3>1, <3>2, <3>3 DEF Network
  <2>3. CASE Tick \/ Cancel \/ UNCHANGED vars
    BY <2>3 DEF Tick, Cancel, vars, pacerVars, TypeInv
  <2> QED BY <2>1, <2>2, <2>3 DEF Next, Ended
<1> DEFINE CallTypes == /\ started \in Nat /\ call \in [Node -> BOOLEAN]
                        /\ calls \in [Node -> Nat] /\ reported \in [Node -> Nat]
<1>3. ASSUME NEW n \in Node, Finish(n) PROVE CallTypes'
  BY <1>3 DEF TypeInv, Finish
<1>4. ASSUME UNCHANGED callVars PROVE CallTypes'
  BY <1>4 DEF TypeInv, callVars
<1>5. ASSUME NEW n \in Node, Start(n) PROVE CallTypes'
  <2>1. call \in [Node -> BOOLEAN] /\ calls \in [Node -> Nat] /\ reported \in [Node -> Nat]
    BY DEF TypeInv
  <2>2. \/ started' = started + 1 /\ call' = [call EXCEPT ![n] = TRUE]
        \/ started' = started /\ call' = call
    BY <1>5 DEF Start
  <2>3. started' \in Nat  BY <2>2 DEF TypeInv
  <2>4. call' \in [Node -> BOOLEAN]  BY <2>1, <2>2
  <2>5. calls' = calls /\ reported' = reported  BY <1>5 DEF Start
  <2> QED BY <2>1, <2>3, <2>4, <2>5
<1>6. ASSUME NEW n \in Node, End(n) PROVE CallTypes'
  BY <1>6 DEF TypeInv, End
<1>7. \/ UNCHANGED callVars
      \/ \E n \in Node : Finish(n) \/ Start(n) \/ End(n)
  <2>1. ASSUME NEW n \in Node, Step(n)
        PROVE  UNCHANGED callVars \/ Finish(n) \/ Start(n) \/ End(n)
    <3>1. CASE Prepare(n) \/ TakeGate(n) \/ Paced(n) \/ StopWaiting(n) \/ MarkStart(n)
      BY <3>1 DEF Prepare, TakeGate, Paced, StopWaiting, MarkStart
    <3>2. CASE acquire(n) \/ Acquired(n) \/ GiveUp(n) \/ BeforeRead(n)
      BY <3>2 DEF acquire, Acquired, GiveUp, BeforeRead
    <3>3. CASE Abandon(n) \/ Assess(n) \/ Retry(n)
      BY <3>3 DEF Abandon, Assess, Retry
    <3> QED BY <2>1, <3>1, <3>2, <3>3 DEF Step
  <2>2. ASSUME NEW n \in Node, Network(n) \/ Timeout(n)
        PROVE  UNCHANGED callVars \/ Finish(n)
    <3>1. CASE RoundTripFails(n) \/ Redirect(n) \/ Respond(n) \/ readKept(n)
      BY <3>1 DEF RoundTripFails, Redirect, Respond, readKept
    <3>2. CASE ReadFails(n) \/ countRest(n) \/ Timeout(n)
      BY <3>2 DEF ReadFails, countRest, Timeout
    <3>3. CASE OpenStream(n) \/ feed(n) \/ dispatch(n) \/ StreamEnds(n)
      BY <3>3 DEF OpenStream, feed, dispatch, StreamEnds, Leave
    <3> QED BY <2>2, <3>1, <3>2, <3>3 DEF Network
  <2>3. CASE Tick \/ Cancel \/ UNCHANGED vars
    BY <2>3 DEF Tick, Cancel, vars
  <2> QED BY <2>1, <2>2, <2>3 DEF Next, Ended
<1>8. CallTypes'  BY <1>3, <1>4, <1>5, <1>6, <1>7
<1> QED BY <1>1, <1>2, <1>8 DEF TypeInv, BodyTypes

(* No node has a buffer, tokens or a call at first.                        *)
LEMMA InitInv == Init => HttpInv
<1> SUFFICES ASSUME Init PROVE HttpInv  OBVIOUS
<1>1. IsFiniteSet(Node)  BY NodeAssumption
<1>2. setup.kind \in [Node -> {"request", "sse", "none"}]
  BY SetupAssumption DEF Init
<1>3. TypeInv
  <2>1. waiters \in Seq(Waiter)  BY DEF Init
  <2> QED BY <1>2, <2>1, CallAssumption DEF Init, TypeInv, Place, Unknown
<1>4. PaceInv  BY <1>2 DEF Init, PaceInv
<1>5. ASSUME NEW f \in [Node -> Int], \A n \in Node : f[n] = 0 PROVE SumOver(f, Node) = 0
  BY <1>1, <1>5, SumOverType
<1>6. CallInv
  <2>1. ASSUME NEW n \in Node PROVE CallsOf[n] = 0
    <3>1. calls[n] = 0 /\ ~call[n]  BY DEF Init
    <3> QED BY <3>1 DEF CallsOf
  <2>2. CallsOf \in [Node -> Int]
    <3>1. DOMAIN CallsOf = Node /\ CallsOf = [n \in Node |-> CallsOf[n]]  BY DEF CallsOf
    <3> QED BY <2>1, <3>1
  <2>3. SumOver(CallsOf, Node) = 0  BY <1>5, <2>1, <2>2
  <2>4. CallFacts  BY <2>3, CallAssumption DEF CallFacts, Init
  <2> QED BY <2>4, CallFactsAgree
<1>7. BudgetInv
  <2>1. ASSUME NEW n \in Node PROVE Out[n] = 0
    <3>1. held[n] = 0 /\ grant[n] = 0  BY DEF Init
    <3> QED BY <3>1 DEF Out
  <2>2. Out \in [Node -> Int]
    <3>1. DOMAIN Out = Node /\ Out = [n \in Node |-> Out[n]]  BY DEF Out
    <3> QED BY <2>1, <3>1
  <2>3. SumOver(Out, Node) = 0  BY <1>5, <2>1, <2>2
  <2> QED BY <2>3, BudgetAssumption DEF BudgetInv, Init
<1>8. BodyInv
  <2> SUFFICES ASSUME NEW n \in Node PROVE NodeBody(n)  BY DEF BodyInv
  <2>1. held[n] = 0 /\ grant[n] = 0 /\ read[n] = 0 /\ capacity[n] = 0  BY DEF Init
  <2>2. keptResponseBytes(n) \in Nat
    <3>1. BodyTypes  BY <1>3 DEF TypeInv, BodyTypes
    <3> QED BY <3>1, Sizes
  <2>3. Min({0, keptResponseBytes(n)}) = 0  BY <2>2, MinTwo
  <2> QED BY <2>1, <2>2, <2>3 DEF NodeBody
<1>9. QueueInv
  <2>1. waiters = <<>> /\ 1..Len(waiters) = {}  BY DEF Init
  <2> QED BY <2>1 DEF QueueInv
<1> QED BY <1>3, <1>4, <1>6, <1>7, <1>8, <1>9 DEF HttpInv, MemoryInv

-----------------------------------------------------------------------------
(* The specification keeps all parts of the invariant.                     *)
THEOREM HttpCorrect == Spec => []HttpInv
<1>1. HttpInv /\ [Next]_vars => HttpInv'
  <2> SUFFICES ASSUME HttpInv, [Next]_vars PROVE HttpInv'  OBVIOUS
  <2>1. TypeInv /\ PaceInv /\ CallInv /\ MemoryInv /\ BodyTypes
    BY DEF HttpInv, TypeInv, BodyTypes
  <2>2. TypeInv'  BY <2>1, TypeStep
  <2>3. PaceInv'  BY <2>1, PaceStep
  <2>4. CallInv'  BY <2>1, CallStep
  <2>5. MemoryInv'  BY <2>1, MemoryStep
  <2> QED BY <2>2, <2>3, <2>4, <2>5 DEF HttpInv
<1> QED BY <1>1, InitInv, PTL DEF Spec

(* The pacer: a node starts an interval after the last start or later,     *)
(* whoever waited, gave up or was cancelled in between.                    *)
THEOREM StartsSafe == Spec => StartsSpaced
<1>1. HttpInv /\ [Next]_vars =>
        [\A n \in Node : pc[n] = "mark" /\ pc'[n] = "start" => since >= Interval]_vars
  BY DEF HttpInv, PaceInv
<1> QED BY <1>1, HttpCorrect, PTL DEF Spec, StartsSpaced

(* Limiter and Collector: every started call is recorded once or in        *)
(* flight, all are reported when a node ends, and the limit holds.         *)
THEOREM CallsSafe == Spec => []CallsAccounted
<1>1. HttpInv => CallsAccounted  BY DEF HttpInv, CallInv
<1> QED BY <1>1, HttpCorrect, PTL

(* The invariant bounds the bytes kept.                                    *)
LEMMA BytesFit ==
  ASSUME BodyTypes, MemoryInv
  PROVE  \/ 2 * SumOver(read, Node) <= BudgetSize
         \/ \E n \in Node : \A m \in Node \ {n} : read[m] = 0
<1>1. /\ Out \in [Node -> Nat] /\ Out \in [Node -> Int] /\ read \in [Node -> Int]
      /\ \A n \in Node : /\ Out[n] = held[n] + grant[n] /\ held[n] \in Nat
                         /\ grant[n] \in Nat /\ read[n] \in Nat /\ capacity[n] \in Nat
                         /\ keptResponseBytes(n) \in Nat
  BY OutType, Sizes DEF BodyTypes
<1>2. BudgetSize \in Nat \ {0} /\ IsFiniteSet(Node)  BY BudgetAssumption, NodeAssumption
<1>3. SumOver(Out, Node) <= BudgetSize /\ SumOver(Out, Node) \in Int
  BY <1>1, <1>2, SumOverType DEF MemoryInv, BudgetInv
<1>4. ASSUME NEW n \in Node PROVE held[n] >= BudgetSize \/ 2 * read[n] <= held[n]
  <2> DEFINE kept == keptResponseBytes(n)
  <2>1. read[n] <= capacity[n] /\ read[n] <= kept  BY DEF MemoryInv, BodyInv, NodeBody
  <2>2. held[n] >= BudgetSize \/ 2 * Min({capacity[n], kept}) <= held[n]
    BY DEF MemoryInv, BodyInv, NodeBody
  <2>3. kept \in Nat /\ capacity[n] \in Nat /\ read[n] \in Nat /\ held[n] \in Nat  BY <1>1
  <2> HIDE DEF kept
  <2>4. Min({capacity[n], kept}) = IF capacity[n] < kept THEN capacity[n] ELSE kept
    BY <2>3, MinTwo
  <2> QED BY <1>2, <2>1, <2>2, <2>3, <2>4
<1>5. CASE \E n \in Node : held[n] >= BudgetSize
  <2>1. PICK n \in Node : held[n] >= BudgetSize  BY <1>5
  <2>2. ASSUME NEW m \in Node \ {n} PROVE read[m] = 0
    <3>1. Out[n] + Out[m] <= SumOver(Out, Node)  BY <1>1, <1>2, SumOverNat
    <3>2. /\ Out[n] = held[n] + grant[n] /\ Out[m] = held[m] + grant[m]
          /\ held[n] \in Nat /\ held[m] \in Nat /\ grant[n] \in Nat /\ grant[m] \in Nat
          /\ read[m] \in Nat
      BY <1>1
    <3>3. held[m] = 0  BY <1>2, <1>3, <2>1, <3>1, <3>2
    <3>4. 2 * read[m] <= held[m]  BY <1>2, <1>4, <3>3
    <3> QED BY <3>2, <3>3, <3>4
  <2> QED BY <2>2
<1>6. CASE \A n \in Node : ~(held[n] >= BudgetSize)
  <2>1. ASSUME NEW n \in Node PROVE 2 * read[n] <= Out[n]
    <3>1. 2 * read[n] <= held[n]  BY <1>4, <1>6
    <3>2. Out[n] = held[n] + grant[n] /\ held[n] \in Nat /\ grant[n] \in Nat /\ read[n] \in Nat
      BY <1>1
    <3> QED BY <3>1, <3>2
  <2>2. 2 * SumOver(read, Node) <= SumOver(Out, Node)
    BY <1>1, <1>2, <2>1, SumOverDouble
  <2>3. SumOver(read, Node) \in Int  BY <1>1, <1>2, SumOverType
  <2> QED BY <1>2, <1>3, <2>2, <2>3
<1> QED BY <1>5, <1>6

(* ResponseBudget: tokens are neither lost nor made up, the bodies kept    *)
(* fit the budget or belong to one node, and no finished attempt holds any.*)
THEOREM MemorySafe == Spec => []MemoryBounded
<1>1. HttpInv => MemoryBounded
  <2> SUFFICES ASSUME HttpInv PROVE MemoryBounded  OBVIOUS
  <2>1. BodyTypes /\ MemoryInv  BY DEF HttpInv, TypeInv, BodyTypes
  <2>2. cur = Total([n \in Node |-> held[n] + grant[n]]) /\ cur <= BudgetSize
    BY <2>1 DEF MemoryInv, BudgetInv, Out, SumOver, Total
  <2>3. \/ bodyWeight * Total(read) <= BudgetSize
        \/ \E n \in Node : \A m \in Node \ {n} : read[m] = 0
    <3>1. SumOver(read, Node) = Total(read)  BY DEF SumOver, Total
    <3> QED BY <2>1, <3>1, BytesFit DEF bodyWeight
  <2>4. ASSUME NEW n \in Node, pc[n] \in {"prepare", "passed", "failed", "ended"}
        PROVE  held[n] + grant[n] = 0
    <3>1. NodeBody(n) /\ grant[n] \in Nat  BY <2>1 DEF MemoryInv, BodyInv, BodyTypes
    <3>2. held[n] = 0 /\ grant[n] = 0  BY <2>4, <3>1 DEF NodeBody, Busy
    <3> QED BY <3>2
  <2> QED BY <2>2, <2>3, <2>4 DEF MemoryBounded
<1> QED BY <1>1, HttpCorrect, PTL

=============================================================================
