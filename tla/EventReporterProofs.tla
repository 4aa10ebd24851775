------------------------- MODULE EventReporterProofs -------------------------
(***************************************************************************)
(* The reporter loses no event, keeps its byte count and sends batches     *)
(* that fit, for every batch limit, every number of events and all sizes.  *)
(*                                                                         *)
(* NoEventLost is inductive only together with the stages of the flush     *)
(* that holds flushMu: between the drain and the put-back the batch is     *)
(* neither queued nor accepted, and the answer it is compared with must    *)
(* not be ahead of the control plane.                                      *)
(***************************************************************************)
EXTENDS EventReporter, FoldLemmas, SequenceTheorems

(* Where the flush stands: a batch exists exactly between drainPending and *)
(* the reaction to the answer, and the answer does not exceed what the     *)
(* control plane holds.                                                    *)
FlushInv ==
  /\ flushMu = "free" => stage = "drain"
  /\ stage = "drain" <=> batch = <<>>
  /\ response # Failed => response <= lastAccepted

(* FlushWithRetry has attempts left until it returns.                      *)
RetryInv ==
  worker \in {"run", "enqueueFlush", "finalFlush"} => attempt < FlushRetries

ReporterInv ==
  /\ TypeOK /\ FlushInv /\ RetryInv
  /\ NoEventLost /\ BytesMatchQueue /\ BatchFits

-----------------------------------------------------------------------------
(* Lemmas on the operators.                                                *)

(* Max and Min of two numbers.                                             *)
LEMMA MaxOfTwo ==
  ASSUME NEW a \in Int, NEW b \in Int
  PROVE  Max({a, b}) = IF a < b THEN b ELSE a
<1>1. \E x \in {a, b} : \A y \in {a, b} : x >= y  OBVIOUS
<1>2. Max({a, b}) \in {a, b} /\ \A y \in {a, b} : Max({a, b}) >= y
  BY <1>1 DEF Max
<1> QED BY <1>2

(* The smaller of two numbers.                                             *)
LEMMA MinOfTwo ==
  ASSUME NEW a \in Int, NEW b \in Int
  PROVE  Min({a, b}) = IF a < b THEN a ELSE b
<1>1. \E x \in {a, b} : \A y \in {a, b} : x <= y  OBVIOUS
<1>2. Min({a, b}) \in {a, b} /\ \A y \in {a, b} : Min({a, b}) <= y
  BY <1>1 DEF Min
<1> QED BY <1>2

(* The byte count of a sequence is its weight, and adds up.                *)
LEMMA BytesFacts ==
  ASSUME TypeOK
  PROVE  /\ \A s \in Seq(1..MaxEvents) : Bytes(s) \in Nat
         /\ \A s, t \in Seq(1..MaxEvents) : Bytes(s \o t) = Bytes(s) + Bytes(t)
         /\ \A e \in 1..MaxEvents : Bytes(<<e>>) = size[e]
         /\ Bytes(<<>>) = 0
<1>0. size \in [1..MaxEvents -> Sizes]  BY DEF TypeOK
<1>1. size \in [1..MaxEvents -> Nat] /\ size \in [1..MaxEvents -> Int]
  <2>1. Sizes \subseteq Nat /\ Sizes \subseteq Int  BY EventAssumption
  <2> QED BY <1>0, <2>1, Zenon
<1>2. \A s : Bytes(s) = Weight(size, s)  BY DEF Bytes, Weight
<1>3. ASSUME NEW s \in Seq(1..MaxEvents) PROVE Bytes(s) \in Nat
  BY <1>1, <1>2, WeightNat
<1>4. ASSUME NEW s \in Seq(1..MaxEvents), NEW t \in Seq(1..MaxEvents)
      PROVE  Bytes(s \o t) = Bytes(s) + Bytes(t)
  BY <1>1, <1>2, WeightConcat
<1>5. ASSUME NEW e \in 1..MaxEvents PROVE Bytes(<<e>>) = size[e]
  BY <1>1, <1>2, WeightOne
<1>6. Bytes(<<>>) = 0  BY <1>1, <1>2, WeightEmpty
<1> QED BY <1>3, <1>4, <1>5, <1>6

(* BatchFits, in terms of weights.                                         *)
FitsByWeight ==
  /\ Len(batch) <= MaxBatchEvents
  /\ Len(batch) > 1 => Weight(size, batch) <= MaxBatchBytes

(* The properties of bytes, in terms of weights.                           *)
LEMMA BytesAsWeights ==
  /\ BytesMatchQueue <=> (pendingBytes = Weight(size, pending))
  /\ BatchFits <=> FitsByWeight
BY DEF BytesMatchQueue, BatchFits, FitsByWeight, Bytes, Weight

(* Cutting the front of a sequence that another one follows.               *)
LEMMA CutConcat ==
  ASSUME NEW S, NEW s \in Seq(S), NEW t \in Seq(S), NEW c \in 0..Len(s)
  PROVE  SubSeq(s, c + 1, Len(s)) \o t = SubSeq(s \o t, c + 1, Len(s \o t))
<1> DEFINE u == SubSeq(s, c + 1, Len(s))
           w == SubSeq(s \o t, c + 1, Len(s \o t))
<1>1. /\ s \o t \in Seq(S) /\ Len(s \o t) = Len(s) + Len(t)
      /\ Len(s) \in Nat /\ Len(t) \in Nat
      /\ \A i \in 1..(Len(s) + Len(t)) :
           (s \o t)[i] = IF i <= Len(s) THEN s[i] ELSE t[i - Len(s)]
  BY ConcatProperties
<1>2. c \in 0..Len(s \o t)  BY <1>1
<1>3. /\ u \in Seq(S) /\ Len(u) = Len(s) - c
      /\ \A i \in 1..(Len(s) - c) : u[i] = s[c + i]
  BY CutSeq
<1>4. /\ w \in Seq(S) /\ Len(w) = Len(s) + Len(t) - c
      /\ \A i \in 1..(Len(s) + Len(t) - c) : w[i] = (s \o t)[c + i]
  BY <1>1, <1>2, CutSeq
<1> HIDE DEF u, w
<1>5. /\ u \o t \in Seq(S) /\ Len(u \o t) = Len(u) + Len(t)
      /\ \A i \in 1..(Len(u) + Len(t)) :
           (u \o t)[i] = IF i <= Len(u) THEN u[i] ELSE t[i - Len(u)]
  BY <1>3, ConcatProperties
<1>6. ASSUME NEW i \in 1..Len(w) PROVE (u \o t)[i] = w[i]
  <2>1. i \in 1..(Len(u) + Len(t)) /\ c + i \in 1..(Len(s) + Len(t))
    BY <1>1, <1>3, <1>4
  <2>2. w[i] = IF c + i <= Len(s) THEN s[c + i] ELSE t[(c + i) - Len(s)]
    BY <1>1, <1>4, <2>1
  <2>3. CASE i <= Len(s) - c
    BY <1>1, <1>3, <1>5, <2>1, <2>2, <2>3
  <2>4. CASE i > Len(s) - c
    <3>1. (c + i) - Len(s) = i - Len(u)  BY <1>1, <1>3
    <3> QED BY <1>1, <1>3, <1>5, <2>1, <2>2, <2>4, <3>1
  <2> QED BY <1>1, <1>3, <1>4, <2>3, <2>4
<1>7. u \o t = w
  <2>1. Len(u \o t) = Len(w)  BY <1>1, <1>3, <1>4, <1>5
  <2> QED BY <1>4, <1>5, <1>6, <2>1, SeqEqual
<1> QED BY <1>7 DEF u, w

(* What drainPending takes: at least one event, no more than there are or  *)
(* than a request holds, and within the size unless it is one event.       *)
LEMMA BatchCountFits ==
  ASSUME TypeOK, NEW s \in Seq(1..MaxEvents), s # <<>>
  PROVE  /\ BatchCount(s) \in 1..Len(s) /\ BatchCount(s) <= MaxBatchEvents
         /\ BatchCount(s) = 1 \/ Bytes(SubSeq(s, 1, BatchCount(s))) <= MaxBatchBytes
<1> DEFINE n == Min({Len(s), MaxBatchEvents})
           S == {k \in 1..n : k = 1 \/ Bytes(SubSeq(s, 1, k)) <= MaxBatchBytes}
<1>1. n \in Nat /\ n >= 1 /\ n <= Len(s) /\ n <= MaxBatchEvents
  BY BatchAssumption, MinOfTwo
<1> HIDE DEF n
<1>2. S \in SUBSET (0..n) /\ S # {}
  <2>1. 1 \in S  BY <1>1
  <2> QED BY <1>1, <2>1
<1>3. Max(S) \in S  BY <1>1, <1>2, MaxOfBounded
<1>4. BatchCount(s) = Max(S)  BY DEF BatchCount, n
<1> HIDE DEF S
<1>5. BatchCount(s) \in S  BY <1>3, <1>4
<1>6. /\ BatchCount(s) \in 1..n
      /\ BatchCount(s) = 1 \/ Bytes(SubSeq(s, 1, BatchCount(s))) <= MaxBatchBytes
  BY <1>5 DEF S
<1> QED BY <1>1, <1>6, BatchAssumption

(* The control plane only moves forward, and not past the events it is     *)
(* offered.                                                                *)
LEMMA AcceptsForward ==
  ASSUME TypeOK, NEW first \in 1..MaxEvents, NEW last \in 1..MaxEvents,
         NEW a \in Accepts(first, last)
  PROVE  a \in 0..MaxEvents /\ lastAccepted <= a
<1>1. lastAccepted \in 0..MaxEvents  BY DEF TypeOK
<1>2. Max({lastAccepted, last}) \in 0..MaxEvents
      /\ lastAccepted <= Max({lastAccepted, last})
  BY <1>1, MaxOfTwo, EventAssumption
<1> QED BY <1>1, <1>2, EventAssumption DEF Accepts

-----------------------------------------------------------------------------
(* The steps of the invariant.                                             *)

(* The invariant holds initially.                                          *)
LEMMA InitInv == Init => ReporterInv
<1> SUFFICES ASSUME Init PROVE ReporterInv  OBVIOUS
<1>1. TypeOK
  <2>1. 0 \in 0..MaxEvents /\ 0 \in 0..FlushRetries /\ Failed = -1
    BY EventAssumption, RetryAssumption DEF Failed
  <2>2. /\ size \in [1..MaxEvents -> Sizes] /\ nextSequence \in 0..MaxEvents
        /\ pending \in Seq(1..MaxEvents) /\ batch \in Seq(1..MaxEvents)
        /\ pendingBytes \in Nat /\ attempt \in 0..FlushRetries
        /\ lastAccepted \in 0..MaxEvents
        /\ late \subseteq (1..MaxEvents) \X (1..MaxEvents)
    BY <2>1 DEF Init
  <2> QED BY <2>2 DEF Init, TypeOK, Caller
<1>2. FlushInv  BY DEF Init, FlushInv
<1>3. RetryInv  BY RetryAssumption DEF Init, RetryInv
<1>4. NoEventLost
  <2>1. Unacknowledged = <<>>  BY DEF Init, Unacknowledged
  <2> QED BY <2>1 DEF Init, NoEventLost
<1>5. BytesMatchQueue  BY <1>1, BytesFacts DEF Init, BytesMatchQueue
<1>6. BatchFits  BY BatchAssumption DEF Init, BatchFits
<1> QED BY <1>1, <1>2, <1>3, <1>4, <1>5, <1>6 DEF ReporterInv

(* A flush that holds a batch knows its first and last event.              *)
LEMMA BatchEnds ==
  ASSUME TypeOK, FlushInv, stage # "drain"
  PROVE  /\ Len(batch) \in Nat /\ Len(batch) >= 1
         /\ Head(batch) = batch[1] /\ Last(batch) = batch[Len(batch)]
         /\ Head(batch) \in 1..MaxEvents /\ Last(batch) \in 1..MaxEvents
<1>1. batch \in Seq(1..MaxEvents) /\ batch # <<>>  BY DEF TypeOK, FlushInv
<1>2. Len(batch) \in Nat /\ Len(batch) >= 1 /\ batch \in [1..Len(batch) -> 1..MaxEvents]
  <2>1. Len(batch) \in Nat /\ batch \in [1..Len(batch) -> 1..MaxEvents]
    BY <1>1, LenProperties
  <2>2. Len(batch) # 0  BY <1>1, EmptySeq
  <2> QED BY <2>1, <2>2
<1>3. 1 \in 1..Len(batch) /\ Len(batch) \in 1..Len(batch)  BY <1>2
<1>4. Head(batch) = batch[1] /\ Last(batch) = batch[Len(batch)]
  <2>1. Head(batch) = batch[1]  BY <1>1
  <2>2. Last(batch) = batch[Len(batch)]  BY DEF Last
  <2> QED BY <2>1, <2>2
<1> QED BY <1>2, <1>3, <1>4

(* What flushBatch puts back of a batch that was accepted in part: its     *)
(* end, after a number of events the control plane holds.                  *)
LEMMA UnacceptedIsEnd ==
  ASSUME TypeOK, FlushInv, NoEventLost, stage # "drain",
         response # Failed, response < Last(batch)
  PROVE  \E c \in 0..(Len(batch) - 1) :
           /\ Unaccepted(batch) = SubSeq(batch, c + 1, Len(batch))
           /\ nextSequence - Len(Unacknowledged) + c <= lastAccepted
<1> DEFINE n == Len(batch)
           b == nextSequence - Len(Unacknowledged)
           c == IF response <= b THEN 0 ELSE response - b
<1>1. /\ batch \in Seq(1..MaxEvents) /\ pending \in Seq(1..MaxEvents)
      /\ nextSequence \in Nat /\ lastAccepted \in Nat
      /\ response \in Nat /\ response <= lastAccepted
  BY EventAssumption DEF TypeOK, FlushInv
<1>2. /\ n \in Nat /\ n >= 1 /\ Len(Unacknowledged) \in Nat
      /\ n <= Len(Unacknowledged)
      /\ \A i \in 1..n : Unacknowledged[i] = batch[i]
  BY <1>1, BatchEnds DEF Unacknowledged
<1>3. b \in Int /\ b <= lastAccepted /\ \A i \in 1..n : batch[i] = b + i
  BY <1>1, <1>2 DEF NoEventLost
<1>4. response < b + n
  <2>1. Last(batch) = batch[n] /\ n \in 1..n  BY <1>2, BatchEnds
  <2> QED BY <1>3, <2>1
<1>5. c \in 0..(n - 1) /\ b + c <= lastAccepted
  BY <1>1, <1>2, <1>3, <1>4
<1>6. batch \in Seq(Int) /\ c \in 0..Len(batch) /\ response \in Int
      /\ (response = b + c \/ (c = 0 /\ response <= b))
  <2>1. 1..MaxEvents \subseteq Int  OBVIOUS
  <2>2. batch \in Seq(Int)  BY <1>1, <2>1, SeqMonotonic, Zenon
  <2> QED BY <1>1, <1>2, <1>3, <1>5, <2>2
<1> HIDE DEF b, c
<1>7. Above(response, batch) = SubSeq(batch, c + 1, Len(batch))
  BY <1>3, <1>6, AboveOfRun
<1>8. Unaccepted(batch) = Above(response, batch)
  BY DEF Unaccepted, Above
<1> QED BY <1>5, <1>7, <1>8 DEF b

(* Every step keeps the types.                                             *)
LEMMA TypeStep == TypeOK /\ FlushInv /\ RetryInv /\ NoEventLost
                  /\ BytesMatchQueue /\ [Next]_vars => TypeOK'
<1> SUFFICES ASSUME TypeOK, FlushInv, RetryInv, NoEventLost, BytesMatchQueue,
                    [Next]_vars
             PROVE  TypeOK'
  OBVIOUS
<1> USE EventAssumption, RetryAssumption
<1>0. ASSUME NEW failed, FlushReturns(failed)
      PROVE  /\ flushMu' = "free" /\ stage' = "drain" /\ batch' = <<>>
             /\ response' = Failed /\ stopped' = stopped
             /\ worker' \in {"run", "enqueueFlush", "finalFlush", "complete", "close",
                             "closing", "closed"}
             /\ attempt' \in 0..FlushRetries /\ flushed' \in {"no", "ok", "failed"}
             /\ ticker' \in {"select", "flush", "stopped"}
  <2>1. CASE worker = "finalFlush" /\ FinalFlushReturns(failed) /\ UNCHANGED ticker
    BY <1>0, <2>1 DEF FlushReturns, FinalFlushReturns, TypeOK, RetryInv
  <2>2. CASE ~(worker = "finalFlush" /\ FinalFlushReturns(failed) /\ UNCHANGED ticker)
    BY <1>0, <2>2 DEF FlushReturns, TypeOK
  <2> QED BY <2>1, <2>2
<1>1. ASSUME NEW p \in Caller, Lock(p) PROVE TypeOK'
  BY <1>1 DEF Lock, TypeOK, queueVars, callerVars, planeVars
<1>2. CASE drainPending
  <2>1. pending \in Seq(1..MaxEvents) /\ pending # <<>>
    BY <1>2 DEF drainPending, TypeOK
  <2> DEFINE count == BatchCount(pending)
  <2>2. count \in 1..Len(pending)  BY <2>1, BatchCountFits
  <2>3. /\ batch' = SubSeq(pending, 1, count)
        /\ pending' = SubSeq(pending, count + 1, Len(pending))
        /\ pendingBytes' = IF pending' = <<>> THEN 0 ELSE pendingBytes - Bytes(batch')
    BY <1>2 DEF drainPending
  <2> HIDE DEF count
  <2>4. /\ batch' \in Seq(1..MaxEvents) /\ pending' \in Seq(1..MaxEvents)
        /\ batch' \o pending' = pending
    <3>1. count \in Nat /\ count <= Len(pending)  BY <2>1, <2>2
    <3>2. batch' \in Seq(1..MaxEvents) /\ pending' \in Seq(1..MaxEvents)
      BY <2>1, <2>2, <2>3
    <3>3. batch' \o pending' = pending  BY <2>1, <2>2, <2>3, <3>1
    <3> QED BY <3>2, <3>3
  <2>5. Bytes(pending) = Bytes(batch') + Bytes(pending') /\ Bytes(batch') \in Nat
        /\ Bytes(pending') \in Nat
    BY <2>4, BytesFacts
  <2>6. pendingBytes' \in Nat  BY <2>3, <2>5 DEF BytesMatchQueue
  <2> QED BY <1>2, <2>4, <2>6 DEF drainPending, TypeOK, callerVars, planeVars
<1>3. CASE NothingToFlush
  <2>1. FlushReturns(FALSE)  BY <1>3 DEF NothingToFlush
  <2>2. <<>> \in Seq(1..MaxEvents)  OBVIOUS
  <2> QED BY <1>0, <1>3, <2>1, <2>2 DEF NothingToFlush, TypeOK, queueVars, planeVars
<1>4. CASE SendAnswered
  <2>1. Head(batch) \in 1..MaxEvents /\ Last(batch) \in 1..MaxEvents
    BY <1>4, BatchEnds DEF SendAnswered
  <2>2. lastAccepted' \in Accepts(Head(batch), Last(batch))
    BY <1>4 DEF SendAnswered
  <2>3. lastAccepted' \in 0..MaxEvents  BY <2>1, <2>2, AcceptsForward
  <2> QED BY <1>4, <2>3 DEF SendAnswered, TypeOK, queueVars, callerVars
<1>5. CASE SendFails
  <2>1. <<Head(batch), Last(batch)>> \in (1..MaxEvents) \X (1..MaxEvents)
    BY <1>5, BatchEnds DEF SendFails
  <2> QED BY <1>5, <2>1 DEF SendFails, TypeOK, queueVars, callerVars
<1>6. CASE BatchAccepted
  <2>1. <<>> \in Seq(1..MaxEvents)  OBVIOUS
  <2> QED BY <1>6, <2>1 DEF BatchAccepted, TypeOK, queueVars, callerVars, planeVars
<1>7. CASE BatchFailed
  <2>1. FlushReturns(TRUE) /\ prependPending(batch, Bytes(batch))
    BY <1>7 DEF BatchFailed
  <2>2. <<>> \in Seq(1..MaxEvents)  OBVIOUS
  <2>3. pending' \in Seq(1..MaxEvents) /\ pendingBytes' \in Nat
    <3>1. batch \in Seq(1..MaxEvents) /\ pending \in Seq(1..MaxEvents)
          /\ pendingBytes \in Nat
      BY DEF TypeOK
    <3>2. Bytes(batch) \in Nat  BY <3>1, BytesFacts
    <3> QED BY <2>1, <3>1, <3>2 DEF prependPending
  <2> QED BY <1>0, <1>7, <2>1, <2>2, <2>3 DEF BatchFailed, TypeOK, planeVars
<1>8. CASE BatchPartlyAccepted
  <2>1. FlushReturns(FALSE)
        /\ prependPending(Unaccepted(batch), Bytes(Unaccepted(batch)))
    BY <1>8 DEF BatchPartlyAccepted
  <2>2. <<>> \in Seq(1..MaxEvents)  OBVIOUS
  <2>3. pending' \in Seq(1..MaxEvents) /\ pendingBytes' \in Nat
    <3>1. batch \in Seq(1..MaxEvents) /\ pending \in Seq(1..MaxEvents)
          /\ pendingBytes \in Nat
      BY DEF TypeOK
    <3>2. PICK c \in 0..(Len(batch) - 1) :
            Unaccepted(batch) = SubSeq(batch, c + 1, Len(batch))
      BY <1>8, UnacceptedIsEnd DEF BatchPartlyAccepted
    <3>3. Unaccepted(batch) \in Seq(1..MaxEvents)  BY <3>1, <3>2
    <3>4. Bytes(Unaccepted(batch)) \in Nat  BY <3>3, BytesFacts
    <3> QED BY <2>1, <3>1, <3>3, <3>4 DEF prependPending
  <2> QED BY <1>0, <1>8, <2>1, <2>2, <2>3 DEF BatchPartlyAccepted, TypeOK, planeVars
<1>9. ASSUME NEW request \in late, LateArrival(request) PROVE TypeOK'
  <2>1. request[1] \in 1..MaxEvents /\ request[2] \in 1..MaxEvents
    BY DEF TypeOK
  <2>2. lastAccepted' \in 0..MaxEvents
    BY <1>9, <2>1, AcceptsForward DEF LateArrival
  <2> QED BY <1>9, <2>2 DEF LateArrival, TypeOK, queueVars, flushVars, callerVars
<1>10. CASE ObserverCall
  <2>1. nextSequence' \in 1..MaxEvents /\ nextSequence' = nextSequence + 1
    BY <1>10 DEF ObserverCall, enqueue, TypeOK
  <2>2. pending' \in Seq(1..MaxEvents)
    BY <1>10, <2>1 DEF ObserverCall, enqueue, TypeOK
  <2>3. pendingBytes' \in Nat
    <3>1. Bytes(<<nextSequence'>>) = size[nextSequence'] /\ <<nextSequence'>> \in Seq(1..MaxEvents)
      BY <2>1, BytesFacts
    <3>2. size[nextSequence'] \in Nat  BY <3>1, BytesFacts
    <3> QED BY <1>10, <3>2 DEF ObserverCall, enqueue, TypeOK
  <2>4. worker' \in {"run", "enqueueFlush"}
    BY <1>10 DEF ObserverCall, enqueue
  <2> QED BY <1>10, <2>1, <2>2, <2>3, <2>4 DEF ObserverCall, TypeOK, flushVars, planeVars
<1>11. CASE RunEnds
  BY <1>11 DEF RunEnds, TypeOK, queueVars, flushVars, planeVars
<1>12. CASE CompleteJob
  BY <1>12 DEF CompleteJob, TypeOK, queueVars, flushVars
<1>13. CASE Close
  BY <1>13 DEF Close, TypeOK, queueVars, flushVars, planeVars
<1>14. CASE CloseReturns
  BY <1>14 DEF CloseReturns, TypeOK, queueVars, flushVars, planeVars
<1>15. CASE Tick
  BY <1>15 DEF Tick, TypeOK, queueVars, flushVars, planeVars
<1>16. CASE Stops
  BY <1>16 DEF Stops, TypeOK, queueVars, flushVars, planeVars
<1>17. CASE UNCHANGED vars
  BY <1>17 DEF vars, TypeOK, queueVars, flushVars, callerVars, planeVars
<1> QED BY <1>1, <1>2, <1>3, <1>4, <1>5, <1>6, <1>7, <1>8, <1>9, <1>10, <1>11,
           <1>12, <1>13, <1>14, <1>15, <1>16, <1>17
        DEF Next, Flushing, Working, Terminated

(* Every step keeps the stages of the flush in order.                      *)
LEMMA FlushStep == TypeOK /\ FlushInv /\ [Next]_vars => FlushInv'
<1> SUFFICES ASSUME TypeOK, FlushInv, [Next]_vars PROVE FlushInv'  OBVIOUS
<1>0. ASSUME NEW failed, FlushReturns(failed) PROVE FlushInv'
  BY <1>0 DEF FlushReturns, FlushInv
<1>1. ASSUME NEW p \in Caller, Lock(p) PROVE FlushInv'
  BY <1>1 DEF Lock, FlushInv, Caller, planeVars
<1>2. CASE drainPending
  <2>1. pending \in Seq(1..MaxEvents) /\ pending # <<>>
    BY <1>2 DEF drainPending, TypeOK
  <2>2. BatchCount(pending) \in 1..Len(pending)  BY <2>1, BatchCountFits
  <2>3. Len(SubSeq(pending, 1, BatchCount(pending))) = BatchCount(pending)
    BY <2>1, <2>2
  <2>4. batch' # <<>>
    BY <1>2, <2>2, <2>3 DEF drainPending
  <2> QED BY <1>2, <2>4 DEF drainPending, FlushInv, planeVars
<1>3. CASE NothingToFlush  BY <1>0, <1>3 DEF NothingToFlush
<1>4. CASE SendAnswered
  <2>1. lastAccepted' \in Int
    <3>1. Head(batch) \in 1..MaxEvents /\ Last(batch) \in 1..MaxEvents
      BY <1>4, BatchEnds DEF SendAnswered
    <3>2. lastAccepted' \in Accepts(Head(batch), Last(batch))
      BY <1>4 DEF SendAnswered
    <3>3. lastAccepted' \in 0..MaxEvents  BY <3>1, <3>2, AcceptsForward
    <3> QED BY <3>3
  <2> QED BY <1>4, <2>1 DEF SendAnswered, FlushInv
<1>5. CASE SendFails  BY <1>5 DEF SendFails, FlushInv
<1>6. CASE BatchAccepted  BY <1>6 DEF BatchAccepted, FlushInv
<1>7. CASE BatchFailed  BY <1>0, <1>7 DEF BatchFailed
<1>8. CASE BatchPartlyAccepted  BY <1>0, <1>8 DEF BatchPartlyAccepted
<1>9. ASSUME NEW request \in late, LateArrival(request) PROVE FlushInv'
  <2>1. request[1] \in 1..MaxEvents /\ request[2] \in 1..MaxEvents
    BY DEF TypeOK
  <2>2. lastAccepted <= lastAccepted' /\ lastAccepted' \in 0..MaxEvents
    BY <1>9, <2>1, AcceptsForward DEF LateArrival
  <2> QED BY <1>9, <2>2, EventAssumption DEF LateArrival, FlushInv, flushVars, TypeOK
<1>10. CASE Working
  BY <1>10 DEF Working, ObserverCall, RunEnds, CompleteJob, Close, CloseReturns,
               FlushInv, flushVars, planeVars
<1>11. CASE Tick \/ Stops
  BY <1>11 DEF Tick, Stops, FlushInv, flushVars, planeVars
<1>12. CASE UNCHANGED vars
  BY <1>12 DEF vars, FlushInv, flushVars, planeVars
<1> QED BY <1>1, <1>2, <1>3, <1>4, <1>5, <1>6, <1>7, <1>8, <1>9, <1>10, <1>11, <1>12
        DEF Next, Flushing, Terminated

(* Every step keeps the number of attempts below its limit.                *)
LEMMA RetryStep == TypeOK /\ RetryInv /\ [Next]_vars => RetryInv'
<1> SUFFICES ASSUME TypeOK, RetryInv, [Next]_vars PROVE RetryInv'  OBVIOUS
<1> USE RetryAssumption
<1>0. ASSUME NEW failed, FlushReturns(failed) PROVE RetryInv'
  <2>1. CASE worker = "finalFlush" /\ FinalFlushReturns(failed)
    BY <2>1 DEF FinalFlushReturns, RetryInv, TypeOK
  <2>2. CASE ~(worker = "finalFlush" /\ FinalFlushReturns(failed))
    BY <1>0, <2>2 DEF FlushReturns, RetryInv
  <2> QED BY <2>1, <2>2
<1>1. ASSUME NEW p \in Caller, Lock(p) PROVE RetryInv'
  BY <1>1 DEF Lock, RetryInv, callerVars
<1>2. CASE Flushing
  BY <1>0, <1>2 DEF Flushing, drainPending, NothingToFlush, SendAnswered, SendFails,
                    BatchAccepted, BatchFailed, BatchPartlyAccepted, RetryInv, callerVars
<1>3. ASSUME NEW request \in late, LateArrival(request) PROVE RetryInv'
  BY <1>3 DEF LateArrival, RetryInv, callerVars
<1>4. CASE Working
  BY <1>4 DEF Working, ObserverCall, enqueue, RunEnds, CompleteJob, Close,
              CloseReturns, RetryInv
<1>5. CASE Tick \/ Stops  BY <1>5 DEF Tick, Stops, RetryInv
<1>6. CASE UNCHANGED vars  BY <1>6 DEF vars, callerVars, RetryInv
<1> QED BY <1>1, <1>2, <1>3, <1>4, <1>5, <1>6 DEF Next, Terminated

(* Dropping c acknowledged events from the front of what is held.          *)
LEMMA DropFront ==
  ASSUME TypeOK, NoEventLost, NEW c \in 0..Len(Unacknowledged),
         Unacknowledged' = SubSeq(Unacknowledged, c + 1, Len(Unacknowledged)),
         nextSequence' = nextSequence, lastAccepted' \in Int,
         nextSequence - Len(Unacknowledged) + c <= lastAccepted'
  PROVE  NoEventLost'
<1> DEFINE u == Unacknowledged
           w == SubSeq(u, c + 1, Len(u))
<1>1. u \in Seq(1..MaxEvents) /\ Len(u) \in Nat /\ nextSequence \in Int
  BY EventAssumption DEF TypeOK, Unacknowledged
<1>2. /\ \A i \in 1..Len(u) : u[i] = nextSequence - Len(u) + i
      /\ c \in 0..Len(u) /\ nextSequence - Len(u) + c <= lastAccepted'
  BY DEF NoEventLost
<1>3. Unacknowledged' = w  OBVIOUS
<1> HIDE DEF u
<1>5. Len(w) = Len(u) - c /\ \A i \in 1..(Len(u) - c) : w[i] = u[c + i]
  BY <1>1, <1>2, CutSeq
<1>6. \A i \in 1..(Len(u) - c) : c + i \in 1..Len(u)
  BY <1>1, <1>2
<1> HIDE DEF w
<1>7. \A i \in 1..Len(w) : w[i] = nextSequence - Len(w) + i
  BY <1>1, <1>2, <1>5, <1>6
<1>8. nextSequence - Len(w) <= lastAccepted'
  BY <1>1, <1>2, <1>5
<1> QED BY <1>3, <1>7, <1>8 DEF NoEventLost

(* Every step keeps the held events a gapless run up to the last one.      *)
LEMMA OrderStep ==
  TypeOK /\ TypeOK' /\ FlushInv /\ NoEventLost /\ [Next]_vars => NoEventLost'
<1> SUFFICES ASSUME TypeOK, TypeOK', FlushInv, NoEventLost, [Next]_vars
             PROVE  NoEventLost'
  OBVIOUS
<1>a. /\ batch \in Seq(1..MaxEvents) /\ pending \in Seq(1..MaxEvents)
      /\ nextSequence \in Nat /\ lastAccepted \in Int /\ lastAccepted' \in Int
  BY EventAssumption DEF TypeOK
<1>b. ASSUME Unacknowledged' = Unacknowledged, nextSequence' = nextSequence,
             lastAccepted <= lastAccepted'
      PROVE  NoEventLost'
  <2>1. Len(Unacknowledged) \in Nat  BY <1>a DEF Unacknowledged
  <2> QED BY <1>a, <1>b, <2>1 DEF NoEventLost
<1>c. ASSUME UNCHANGED <<batch, pending, nextSequence>>, lastAccepted <= lastAccepted'
      PROVE  NoEventLost'
  BY <1>b, <1>c DEF Unacknowledged
<1>d. lastAccepted <= lastAccepted  BY <1>a
<1>1. ASSUME NEW p \in Caller, Lock(p) PROVE NoEventLost'
  BY <1>1, <1>c, <1>d DEF Lock, queueVars, planeVars
<1>2. CASE drainPending
  <2>1. pending # <<>>  BY <1>2 DEF drainPending
  <2> DEFINE count == BatchCount(pending)
  <2>2. count \in 1..Len(pending)  BY <1>a, <2>1, BatchCountFits
  <2>3. /\ batch' = SubSeq(pending, 1, count)
        /\ pending' = SubSeq(pending, count + 1, Len(pending))
        /\ batch = <<>>
    BY <1>2 DEF drainPending, FlushInv
  <2> HIDE DEF count
  <2>4. batch' \o pending' = pending  BY <1>a, <2>2, <2>3
  <2>5. batch \o pending = pending  BY <1>a, <2>3
  <2> QED BY <1>2, <1>b, <1>d, <2>4, <2>5 DEF drainPending, Unacknowledged, planeVars
<1>3. CASE NothingToFlush
  <2>1. batch' = batch  BY <1>3 DEF NothingToFlush, FlushReturns, FlushInv
  <2> QED BY <1>3, <1>c, <1>d, <2>1 DEF NothingToFlush, queueVars, planeVars
<1>4. CASE SendAnswered
  <2>1. Head(batch) \in 1..MaxEvents /\ Last(batch) \in 1..MaxEvents
    BY <1>4, BatchEnds DEF SendAnswered
  <2>2. lastAccepted' \in Accepts(Head(batch), Last(batch))
    BY <1>4 DEF SendAnswered
  <2>3. lastAccepted <= lastAccepted'  BY <2>1, <2>2, AcceptsForward
  <2> QED BY <1>4, <1>c, <2>3 DEF SendAnswered, queueVars
<1>5. CASE SendFails
  BY <1>5, <1>c, <1>d DEF SendFails, queueVars
<1>6. CASE BatchAccepted
  <2>1. /\ batch' = <<>> /\ pending' = pending /\ nextSequence' = nextSequence
        /\ lastAccepted' = lastAccepted /\ stage # "drain" /\ response >= Last(batch)
    BY <1>6 DEF BatchAccepted, queueVars, planeVars
  <2>2. /\ Len(batch) \in 1..Len(Unacknowledged)
        /\ Unacknowledged[Len(batch)] = batch[Len(batch)]
        /\ Len(Unacknowledged) \in Nat
    BY <1>a, <2>1, BatchEnds DEF Unacknowledged
  <2>3. /\ Last(batch) = nextSequence - Len(Unacknowledged) + Len(batch)
        /\ Last(batch) \in 1..MaxEvents
    BY <2>1, <2>2, BatchEnds DEF NoEventLost
  <2>4. Last(batch) <= lastAccepted'
    <3>1. response \in Int /\ response <= lastAccepted
      BY <2>1, <2>3, EventAssumption DEF FlushInv, TypeOK, Failed
    <3> QED BY <1>a, <2>1, <2>3, <3>1
  <2>5. Unacknowledged'
          = SubSeq(Unacknowledged, Len(batch) + 1, Len(Unacknowledged))
    <3>1. Unacknowledged' = pending  BY <1>a, <2>1 DEF Unacknowledged
    <3>2. Len(batch) \in 0..Len(batch)  BY <2>2
    <3>3. SubSeq(batch, Len(batch) + 1, Len(batch)) \o pending
            = SubSeq(batch \o pending, Len(batch) + 1, Len(batch \o pending))
      BY <1>a, <3>2, CutConcat
    <3>4. SubSeq(batch, Len(batch) + 1, Len(batch)) = <<>>
      <4>1. Len(batch) + 1 \in Int /\ Len(batch) \in Int /\ Len(batch) < Len(batch) + 1
        BY <2>2
      <4> QED BY <4>1, SubSeqEmpty
    <3>5. <<>> \o pending = pending  BY <1>a
    <3> QED BY <3>1, <3>3, <3>4, <3>5 DEF Unacknowledged
  <2>6. Len(batch) \in 0..Len(Unacknowledged)  BY <2>2
  <2> QED BY <1>a, <2>1, <2>3, <2>4, <2>5, <2>6, DropFront
<1>7. CASE BatchFailed
  <2>1. /\ batch' = <<>> /\ pending' = batch \o pending
        /\ nextSequence' = nextSequence /\ lastAccepted' = lastAccepted
    BY <1>7 DEF BatchFailed, FlushReturns, prependPending, planeVars
  <2>2. Unacknowledged' = Unacknowledged  BY <1>a, <2>1 DEF Unacknowledged
  <2> QED BY <1>b, <1>d, <2>1, <2>2
<1>8. CASE BatchPartlyAccepted
  <2>1. /\ batch' = <<>> /\ pending' = Unaccepted(batch) \o pending
        /\ nextSequence' = nextSequence /\ lastAccepted' = lastAccepted
        /\ stage # "drain" /\ response # Failed /\ response < Last(batch)
    BY <1>8 DEF BatchPartlyAccepted, FlushReturns, prependPending, planeVars
  <2>2. PICK c \in 0..(Len(batch) - 1) :
          /\ Unaccepted(batch) = SubSeq(batch, c + 1, Len(batch))
          /\ nextSequence - Len(Unacknowledged) + c <= lastAccepted
    BY <2>1, UnacceptedIsEnd
  <2>3. Len(batch) \in Nat /\ Len(pending) \in Nat  BY <1>a
  <2>2a. c \in 0..Len(batch)  BY <2>2, <2>3
  <2>4. Unacknowledged' = SubSeq(batch, c + 1, Len(batch)) \o pending
    <3>1. SubSeq(batch, c + 1, Len(batch)) \in Seq(1..MaxEvents)
      BY <1>a, <2>2a, CutSeq
    <3> QED BY <1>a, <2>1, <2>2, <3>1 DEF Unacknowledged
  <2>5. SubSeq(batch, c + 1, Len(batch)) \o pending
          = SubSeq(Unacknowledged, c + 1, Len(Unacknowledged))
    BY <1>a, <2>2a, CutConcat DEF Unacknowledged
  <2>6. c \in 0..Len(Unacknowledged)  BY <1>a, <2>2, <2>3 DEF Unacknowledged
  <2> QED BY <1>a, <2>1, <2>2, <2>4, <2>5, <2>6, DropFront
<1>9. ASSUME NEW request \in late, LateArrival(request) PROVE NoEventLost'
  <2>1. request[1] \in 1..MaxEvents /\ request[2] \in 1..MaxEvents
    BY DEF TypeOK
  <2>2. lastAccepted <= lastAccepted'
    BY <1>9, <2>1, AcceptsForward DEF LateArrival
  <2> QED BY <1>9, <1>c, <2>2 DEF LateArrival, queueVars, flushVars
<1>10. CASE ObserverCall
  <2>1. /\ nextSequence' = nextSequence + 1 /\ pending' = Append(pending, nextSequence')
        /\ batch' = batch /\ lastAccepted' = lastAccepted /\ nextSequence' \in 1..MaxEvents
    BY <1>10, EventAssumption DEF ObserverCall, enqueue, flushVars, planeVars, TypeOK
  <2> DEFINE u == Unacknowledged
  <2>2. u \in Seq(1..MaxEvents) /\ Len(u) \in Nat  BY <1>a DEF Unacknowledged
  <2>3. Unacknowledged' = Append(u, nextSequence')
    BY <1>a, <2>1 DEF Unacknowledged
  <2>4. /\ \A i \in 1..Len(u) : u[i] = nextSequence - Len(u) + i
        /\ nextSequence - Len(u) <= lastAccepted
    BY DEF NoEventLost
  <2> HIDE DEF u
  <2>5. /\ Len(Append(u, nextSequence')) = Len(u) + 1
        /\ \A i \in 1..Len(u) : Append(u, nextSequence')[i] = u[i]
        /\ Append(u, nextSequence')[Len(u) + 1] = nextSequence'
    BY <2>1, <2>2, AppendProperties
  <2>6. ASSUME NEW i \in 1..(Len(u) + 1)
        PROVE  Append(u, nextSequence')[i] = nextSequence' - (Len(u) + 1) + i
    BY <1>a, <2>1, <2>2, <2>4, <2>5
  <2>7. nextSequence' - (Len(u) + 1) <= lastAccepted'
    BY <1>a, <2>1, <2>2, <2>4
  <2> QED BY <2>3, <2>5, <2>6, <2>7 DEF NoEventLost
<1>11. CASE RunEnds \/ CompleteJob \/ Close \/ CloseReturns
  BY <1>11, <1>c, <1>d DEF RunEnds, CompleteJob, Close, CloseReturns, queueVars,
                           flushVars, planeVars
<1>12. CASE Tick \/ Stops
  BY <1>12, <1>c, <1>d DEF Tick, Stops, queueVars, flushVars, planeVars
<1>13. CASE UNCHANGED vars
  BY <1>13, <1>c, <1>d DEF vars, queueVars, flushVars, planeVars
<1> QED BY <1>1, <1>2, <1>3, <1>4, <1>5, <1>6, <1>7, <1>8, <1>9, <1>10, <1>11,
           <1>12, <1>13
        DEF Next, Flushing, Working, Terminated

(* Every step keeps the byte count.                                        *)
LEMMA BytesStep ==
  TypeOK /\ FlushInv /\ NoEventLost /\ BytesMatchQueue /\ [Next]_vars
    => BytesMatchQueue'
<1> SUFFICES ASSUME TypeOK, FlushInv, NoEventLost, BytesMatchQueue, [Next]_vars
             PROVE  BytesMatchQueue'
  OBVIOUS
<1>a. /\ batch \in Seq(1..MaxEvents) /\ pending \in Seq(1..MaxEvents)
      /\ pendingBytes = Bytes(pending)
  BY DEF TypeOK, BytesMatchQueue
<1>b. size' = size
  BY DEF Next, vars, Lock, Flushing, drainPending, NothingToFlush, SendAnswered,
         SendFails, BatchAccepted, BatchFailed, BatchPartlyAccepted, LateArrival,
         Working, ObserverCall, RunEnds, CompleteJob, Close, CloseReturns, Tick,
         Stops, Terminated
<1>c. ASSUME pendingBytes' = Bytes(pending') PROVE BytesMatchQueue'
  <2>1. BytesMatchQueue' <=> (pendingBytes = Weight(size, pending))'
    BY BytesAsWeights, PTL
  <2>2. Bytes(pending') = Weight(size, pending')  BY DEF Bytes, Weight
  <2> QED BY <1>b, <1>c, <2>1, <2>2
<1>d. ASSUME UNCHANGED <<pending, pendingBytes>> PROVE BytesMatchQueue'
  BY <1>a, <1>c, <1>d
<1>1. CASE drainPending
  <2>1. pending # <<>>  BY <1>1 DEF drainPending
  <2> DEFINE count == BatchCount(pending)
  <2>2. count \in 1..Len(pending)  BY <1>a, <2>1, BatchCountFits
  <2>3. /\ batch' = SubSeq(pending, 1, count)
        /\ pending' = SubSeq(pending, count + 1, Len(pending))
        /\ pendingBytes' = IF pending' = <<>> THEN 0 ELSE pendingBytes - Bytes(batch')
    BY <1>1 DEF drainPending
  <2> HIDE DEF count
  <2>4. count \in 0..Len(pending)  BY <1>a, <2>2
  <2>5. /\ batch' \o pending' = pending
        /\ batch' \in Seq(1..MaxEvents) /\ pending' \in Seq(1..MaxEvents)
    BY <1>a, <2>3, <2>4, CutSeq
  <2>6. /\ Bytes(pending) = Bytes(batch') + Bytes(pending')
        /\ Bytes(batch') \in Nat /\ Bytes(pending') \in Nat /\ Bytes(<<>>) = 0
    BY <2>5, BytesFacts
  <2>7. pendingBytes' = Bytes(pending')
    <3>1. CASE pending' = <<>>  BY <2>3, <2>6, <3>1
    <3>2. CASE pending' # <<>>  BY <1>a, <2>3, <2>6, <3>2
    <3> QED BY <3>1, <3>2
  <2> QED BY <1>c, <2>7
<1>2. CASE BatchFailed
  <2>1. pending' = batch \o pending /\ pendingBytes' = pendingBytes + Bytes(batch)
    BY <1>2 DEF BatchFailed, prependPending
  <2>2. /\ Bytes(batch \o pending) = Bytes(batch) + Bytes(pending)
        /\ Bytes(batch) \in Nat /\ Bytes(pending) \in Nat
    BY <1>a, BytesFacts
  <2> QED BY <1>a, <1>c, <2>1, <2>2
<1>3. CASE BatchPartlyAccepted
  <2>1. /\ pending' = Unaccepted(batch) \o pending
        /\ pendingBytes' = pendingBytes + Bytes(Unaccepted(batch))
    BY <1>3 DEF BatchPartlyAccepted, prependPending
  <2>2. PICK c \in 0..(Len(batch) - 1) :
          Unaccepted(batch) = SubSeq(batch, c + 1, Len(batch))
    BY <1>3, UnacceptedIsEnd DEF BatchPartlyAccepted
  <2>3. Unaccepted(batch) \in Seq(1..MaxEvents)
    <3>1. c \in 0..Len(batch)  BY <1>a, <2>2
    <3>2. SubSeq(batch, c + 1, Len(batch)) \in Seq(1..MaxEvents)
      BY <1>a, <3>1, CutSeq
    <3> QED BY <2>2, <3>2
  <2>4. /\ Bytes(Unaccepted(batch) \o pending) = Bytes(Unaccepted(batch)) + Bytes(pending)
        /\ Bytes(Unaccepted(batch)) \in Nat /\ Bytes(pending) \in Nat
    BY <1>a, <2>3, BytesFacts
  <2> QED BY <1>a, <1>c, <2>1, <2>4
<1>4. CASE ObserverCall
  <2>1. /\ nextSequence' \in 1..MaxEvents /\ pending' = Append(pending, nextSequence')
        /\ pendingBytes' = pendingBytes + size[nextSequence']
    BY <1>4, EventAssumption DEF ObserverCall, enqueue, TypeOK
  <2>2. pending' = pending \o <<nextSequence'>> /\ <<nextSequence'>> \in Seq(1..MaxEvents)
    BY <1>a, <2>1, AppendIsConcat
  <2>3. Bytes(pending') = Bytes(pending) + size[nextSequence']
    BY <1>a, <2>1, <2>2, BytesFacts
  <2> QED BY <1>a, <1>c, <2>1, <2>3
<1>5. CASE UNCHANGED <<pending, pendingBytes>>  BY <1>d, <1>5
<1> QED BY <1>1, <1>2, <1>3, <1>4, <1>5
        DEF Next, vars, Lock, Flushing, NothingToFlush, SendAnswered, SendFails,
            BatchAccepted, LateArrival, Working, RunEnds, CompleteJob, Close,
            CloseReturns, Tick, Stops, Terminated, queueVars

(* Every step keeps a batch within the limits of a request.                *)
LEMMA FitsStep == TypeOK /\ BatchFits /\ [Next]_vars => BatchFits'
<1> SUFFICES ASSUME TypeOK, BatchFits, [Next]_vars PROVE BatchFits'  OBVIOUS
<1>b. size' = size
  BY DEF Next, vars, Lock, Flushing, drainPending, NothingToFlush, SendAnswered,
         SendFails, BatchAccepted, BatchFailed, BatchPartlyAccepted, LateArrival,
         Working, ObserverCall, RunEnds, CompleteJob, Close, CloseReturns, Tick,
         Stops, Terminated
<1>c. BatchFits' <=> FitsByWeight'  BY BytesAsWeights, PTL
<1>d. Bytes(batch') = Weight(size, batch')  BY DEF Bytes, Weight
<1>1. CASE drainPending
  <2>1. pending # <<>> /\ pending \in Seq(1..MaxEvents)
    BY <1>1 DEF drainPending, TypeOK
  <2> DEFINE count == BatchCount(pending)
  <2>2. /\ count \in 1..Len(pending) /\ count <= MaxBatchEvents
        /\ count = 1 \/ Bytes(SubSeq(pending, 1, count)) <= MaxBatchBytes
    BY <2>1, BatchCountFits
  <2>3. batch' = SubSeq(pending, 1, count)  BY <1>1 DEF drainPending
  <2> HIDE DEF count
  <2>4. Len(batch') = count  BY <2>1, <2>2, <2>3
  <2>5. Len(batch') > 1 => Bytes(batch') <= MaxBatchBytes  BY <2>2, <2>3, <2>4
  <2> QED BY <1>b, <1>c, <1>d, <2>2, <2>4, <2>5 DEF FitsByWeight
<1>2. CASE batch' = <<>>
  BY <1>2, BatchAssumption DEF BatchFits
<1>3. CASE UNCHANGED batch
  BY <1>b, <1>c, <1>3, BytesAsWeights DEF FitsByWeight
<1> QED BY <1>1, <1>2, <1>3
        DEF Next, vars, Lock, Flushing, NothingToFlush, SendAnswered, SendFails,
            BatchAccepted, BatchFailed, BatchPartlyAccepted, FlushReturns,
            LateArrival, Working, ObserverCall, RunEnds, CompleteJob, Close,
            CloseReturns, Tick, Stops, Terminated, flushVars

-----------------------------------------------------------------------------
(* The theorems.                                                           *)

(* The inductive invariant holds in every reachable state.                 *)
THEOREM ReporterCorrect == Spec => []ReporterInv
<1>1. Init => ReporterInv  BY InitInv
<1>2. ReporterInv /\ [Next]_vars => ReporterInv'
  BY TypeStep, FlushStep, RetryStep, OrderStep, BytesStep, FitsStep DEF ReporterInv
<1> QED BY <1>1, <1>2, PTL DEF Spec

(* The reporter's state is well typed: in particular FlushWithRetry makes  *)
(* no more attempts than reporterFlushRetries, and drainPending's          *)
(* subtraction never makes pendingBytes negative.                          *)
THEOREM TypesSafe == Spec => []TypeOK
<1>1. ReporterInv => TypeOK  BY DEF ReporterInv
<1> QED BY <1>1, ReporterCorrect, PTL

(* No event is lost, reordered or sent twice by the reporter, whatever     *)
(* fails, arrives late or is accepted in part.                             *)
THEOREM EventsSafe == Spec => []NoEventLost
<1>1. ReporterInv => NoEventLost  BY DEF ReporterInv
<1> QED BY <1>1, ReporterCorrect, PTL

(* pendingBytes is the size of the queue after every drain and put-back.   *)
THEOREM BytesSafe == Spec => []BytesMatchQueue
<1>1. ReporterInv => BytesMatchQueue  BY DEF ReporterInv
<1> QED BY <1>1, ReporterCorrect, PTL

(* Every batch drainPending takes fits a request.                          *)
THEOREM BatchesSafe == Spec => []BatchFits
<1>1. ReporterInv => BatchFits  BY DEF ReporterInv
<1> QED BY <1>1, ReporterCorrect, PTL
=============================================================================
