----------------------------- MODULE EventReporter -----------------------------
(***************************************************************************)
(* One job's progress events: internal/runtime/event_reporter.go.          *)
(*                                                                         *)
(* The worker runs the flow, whose observer calls enqueue events, then     *)
(* flushes, completes the job and closes the reporter.  A ticker goroutine *)
(* flushes in between.  A flush holds flushMu while it drains a batch,     *)
(* sends it and puts back what was not accepted; the worker goes on        *)
(* enqueueing meanwhile.  The observer calls of a run are serialised, and  *)
(* have all returned when the run does, so they are steps of the worker.   *)
(*                                                                         *)
(* Abstractions.  An event is its sequence number; its encoded size is     *)
(* chosen once.  The control plane is external: it accepts events in       *)
(* order, may accept only part of a batch, and answers with the last       *)
(* sequence it holds.  A request that fails for the runner (a refusal, a   *)
(* timeout, a lost answer) may still reach the control plane later.        *)
(***************************************************************************)
EXTENDS Integers, Sequences, SequencesExt, FiniteSetsExt

CONSTANTS MaxBatchEvents,   \* reporterMaxBatchEvents
          MaxBatchBytes,    \* reporterMaxBatchBytes
          FlushRetries,     \* reporterFlushRetries
          Sizes,            \* encoded sizes of events
          MaxEvents         \* bound: events of one run

ASSUME BatchAssumption == MaxBatchEvents \in Nat \ {0} /\ MaxBatchBytes \in Nat
ASSUME RetryAssumption == FlushRetries \in Nat \ {0}
ASSUME EventAssumption == MaxEvents \in Nat /\ Sizes \subseteq Nat

Caller == {"worker", "ticker"}
Failed == -1         \* SendJobEvents returned an error
NoCompletion == -1

VARIABLES
  size,          \* eventSize of each event
  nextSequence, pending, pendingBytes,   \* guarded by mu
  flushMu,       \* who holds flushMu, or "free"
  stage,         \* where the holder is in flushBatch
  batch,         \* the holder's drained batch
  response,      \* LastAcceptedSequence of the answer, or Failed
  worker,        \* where executeClaimedJob is
  attempt,       \* FlushWithRetry's failed attempts
  flushed,       \* what the final FlushWithRetry returned
  ticker,        \* where the run goroutine is
  stopped,       \* stopCh is closed
  lastAccepted,  \* the control plane: the last sequence it holds
  late,          \* requests that failed but may still arrive
  completion     \* the control plane: LastEventSequence of the completion

queueVars == <<nextSequence, pending, pendingBytes>>
flushVars == <<flushMu, stage, batch, response>>
callerVars == <<worker, attempt, flushed, ticker, stopped>>
planeVars == <<lastAccepted, late, completion>>
vars == <<size, queueVars, flushVars, callerVars, planeVars>>

Bytes(events) == FoldLeft(LAMBDA sum, e : sum + size[e], 0, events)

Init ==
  /\ size \in [1..MaxEvents -> Sizes]
  /\ nextSequence = 0 /\ pending = <<>> /\ pendingBytes = 0
  /\ flushMu = "free" /\ stage = "drain" /\ batch = <<>> /\ response = Failed
  /\ worker = "run" /\ attempt = 0 /\ flushed = "no"
  /\ ticker = "select" /\ stopped = FALSE
  /\ lastAccepted = 0 /\ late = {} /\ completion = NoCompletion

-----------------------------------------------------------------------------
(* Flush, by whichever caller gets flushMu.                                *)

WantsFlush(p) ==
  \/ p = "worker" /\ worker \in {"enqueueFlush", "finalFlush"}
  \/ p = "ticker" /\ ticker = "flush"

(* The request timeout of a caller that waits here too long makes its send *)
(* fail, which SendFails covers.                                           *)
Lock(p) ==
  /\ flushMu = "free" /\ WantsFlush(p)
  /\ flushMu' = p /\ stage' = "drain"
  /\ UNCHANGED <<size, queueVars, batch, response, callerVars, planeVars>>

(* Mutant: one attempt too many.                                           *)
FinalFlushReturnsOneMore(failed) ==
  \/ ~failed /\ worker' = "complete" /\ flushed' = "ok" /\ UNCHANGED attempt
  \/ /\ failed
     /\ attempt' = attempt + 1
     /\ IF attempt' > FlushRetries
        THEN worker' = "complete" /\ flushed' = "failed"
        ELSE UNCHANGED <<worker, flushed>>

(* FlushWithRetry's reaction to the end of one Flush.                      *)
FinalFlushReturns(failed) ==
  \/ /\ ~failed
     /\ worker' = "complete" /\ flushed' = "ok" /\ UNCHANGED attempt
  \/ /\ failed
     /\ attempt' = attempt + 1
     /\ IF attempt' = FlushRetries
        THEN worker' = "complete" /\ flushed' = "failed"
        ELSE UNCHANGED <<worker, flushed>>

(* Flush unlocks and returns to its caller: enqueue and the ticker only    *)
(* log an error.                                                           *)
FlushReturns(failed) ==
  /\ flushMu' = "free" /\ batch' = <<>> /\ stage' = "drain" /\ response' = Failed
  /\ \/ /\ flushMu = "ticker" /\ ticker' = "select"
        /\ UNCHANGED <<worker, attempt, flushed>>
     \/ /\ flushMu = "worker" /\ worker = "enqueueFlush" /\ worker' = "run"
        /\ UNCHANGED <<attempt, flushed, ticker>>
     \/ /\ flushMu = "worker" /\ worker = "finalFlush" /\ FinalFlushReturns(failed)
        /\ UNCHANGED ticker
  /\ UNCHANGED stopped

(* Mutant: the size of the next event is not looked at.                    *)
BatchCountByNumber(events) == Min({Len(events), MaxBatchEvents})

(* How many events drainPending takes: at least one, at most               *)
(* MaxBatchEvents, and no more bytes than a request may hold.              *)
BatchCount(events) ==
  Max({k \in 1..Min({Len(events), MaxBatchEvents}) :
         k = 1 \/ Bytes(SubSeq(events, 1, k)) <= MaxBatchBytes})

drainPending ==
  /\ flushMu # "free" /\ stage = "drain" /\ pending # <<>>
  /\ LET count == BatchCount(pending)
     IN /\ batch' = SubSeq(pending, 1, count)
        /\ pending' = SubSeq(pending, count + 1, Len(pending))
        /\ pendingBytes' = IF pending' = <<>> THEN 0
                           ELSE pendingBytes - Bytes(batch')
  /\ stage' = "send"
  /\ UNCHANGED <<size, nextSequence, flushMu, response, callerVars, planeVars>>

NothingToFlush ==
  /\ flushMu # "free" /\ stage = "drain" /\ pending = <<>>
  /\ FlushReturns(FALSE)
  /\ UNCHANGED <<size, queueVars, planeVars>>

(* The control plane's answers to events first..last.                      *)
Accepts(first, last) ==
  IF first <= lastAccepted + 1
  THEN lastAccepted..Max({lastAccepted, last})
  ELSE {lastAccepted}

SendAnswered ==
  /\ flushMu # "free" /\ stage = "send"
  /\ lastAccepted' \in Accepts(Head(batch), Last(batch))
  /\ response' = lastAccepted'
  /\ stage' = "answered"
  /\ UNCHANGED <<size, queueVars, flushMu, batch, callerVars, late, completion>>

SendFails ==
  /\ flushMu # "free" /\ stage = "send"
  /\ response' = Failed
  /\ stage' = "answered"
  /\ late' = late \cup {<<Head(batch), Last(batch)>>}
  /\ UNCHANGED <<size, queueVars, flushMu, batch, callerVars, lastAccepted,
                 completion>>

LateArrival(request) ==
  /\ late' = late \ {request}
  /\ lastAccepted' \in Accepts(request[1], request[2])
  /\ UNCHANGED <<size, queueVars, flushVars, callerVars, completion>>

(* Mutant: the events go to the back of the queue.                         *)
prependPendingAtEnd(events, bytes) ==
  /\ pending' = pending \o events
  /\ pendingBytes' = pendingBytes + bytes

prependPending(events, bytes) ==
  /\ pending' = events \o pending
  /\ pendingBytes' = pendingBytes + bytes

(* flushBatch after the request: everything accepted, so the next batch;   *)
(* an error, so the whole batch goes back; or the rest of it goes back,    *)
(* which is no error.                                                      *)
BatchAccepted ==
  /\ flushMu # "free" /\ stage = "answered" /\ response >= Last(batch)
  /\ stage' = "drain" /\ batch' = <<>> /\ response' = Failed
  /\ UNCHANGED <<size, queueVars, flushMu, callerVars, planeVars>>

BatchFailed ==
  /\ flushMu # "free" /\ stage = "answered" /\ response = Failed
  /\ prependPending(batch, Bytes(batch))
  /\ FlushReturns(TRUE)
  /\ UNCHANGED <<size, nextSequence, planeVars>>

(* The loop over the batch that leaves out what was accepted.              *)
Unaccepted(events) ==
  FoldLeft(LAMBDA remaining, e : IF e <= response THEN remaining
                                 ELSE Append(remaining, e), <<>>, events)

(* Mutant: the accepted part is put back by size only.                     *)
BatchPartlyAcceptedWholeSize ==
  /\ flushMu # "free" /\ stage = "answered"
  /\ response # Failed /\ response < Last(batch)
  /\ prependPending(Unaccepted(batch), Bytes(batch))
  /\ FlushReturns(FALSE)
  /\ UNCHANGED <<size, nextSequence, planeVars>>

BatchPartlyAccepted ==
  /\ flushMu # "free" /\ stage = "answered"
  /\ response # Failed /\ response < Last(batch)
  /\ prependPending(Unaccepted(batch), Bytes(Unaccepted(batch)))
  /\ FlushReturns(FALSE)
  /\ UNCHANGED <<size, nextSequence, planeVars>>

-----------------------------------------------------------------------------
(* The worker: executeClaimedJob as far as the reporter is concerned.      *)

enqueue ==
  /\ nextSequence' = nextSequence + 1
  /\ pending' = Append(pending, nextSequence')
  /\ pendingBytes' = pendingBytes + size[nextSequence']
  /\ worker' = IF Len(pending') >= MaxBatchEvents \/ pendingBytes' >= MaxBatchBytes
               THEN "enqueueFlush" ELSE "run"

(* FlowStarted, NodeStarted and NodeFinished enqueue one event each;       *)
(* FlowFinished enqueues none.                                             *)
ObserverCall ==
  /\ worker = "run" /\ nextSequence < MaxEvents
  /\ enqueue
  /\ UNCHANGED <<size, flushVars, attempt, flushed, ticker, stopped, planeVars>>

(* The run ends.  A definition that does not parse (before any event) and  *)
(* a result that does not encode are completed without a flush.            *)
RunEnds ==
  /\ worker = "run"
  /\ worker' \in {"finalFlush", "complete"}
  /\ UNCHANGED <<size, queueVars, flushVars, attempt, flushed, ticker, stopped,
                 planeVars>>

(* The completion carries LastSequencePtr.  It is not sent for a rejected  *)
(* job, and the sending may fail.                                          *)
CompleteJob ==
  /\ worker = "complete"
  /\ completion' \in {NoCompletion, nextSequence}
  /\ worker' = "close"
  /\ UNCHANGED <<size, queueVars, flushVars, attempt, flushed, ticker, stopped,
                 lastAccepted, late>>

Close ==
  /\ worker = "close"
  /\ stopped' = TRUE /\ worker' = "closing"
  /\ UNCHANGED <<size, queueVars, flushVars, attempt, flushed, ticker, planeVars>>

(* Close returns when doneCh is closed.                                    *)
CloseReturns ==
  /\ worker = "closing" /\ ticker = "stopped"
  /\ worker' = "closed"
  /\ UNCHANGED <<size, queueVars, flushVars, attempt, flushed, ticker, stopped,
                 planeVars>>

-----------------------------------------------------------------------------
(* The run goroutine's select: a tick, or stopCh.                          *)

Tick ==
  /\ ticker = "select" /\ ticker' = "flush"
  /\ UNCHANGED <<size, queueVars, flushVars, worker, attempt, flushed, stopped,
                 planeVars>>

(* Mutant: the goroutine leaves when it is ticked after the stop only if   *)
(* nothing is pending.                                                     *)
StopsWhenEmpty ==
  /\ ticker = "select" /\ stopped /\ pending = <<>>
  /\ ticker' = "stopped"
  /\ UNCHANGED <<size, queueVars, flushVars, worker, attempt, flushed, stopped,
                 planeVars>>

Stops ==
  /\ ticker = "select" /\ stopped
  /\ ticker' = "stopped"
  /\ UNCHANGED <<size, queueVars, flushVars, worker, attempt, flushed, stopped,
                 planeVars>>

Flushing ==
  \/ drainPending \/ NothingToFlush \/ SendAnswered \/ SendFails
  \/ BatchAccepted \/ BatchFailed \/ BatchPartlyAccepted

Working == ObserverCall \/ RunEnds \/ CompleteJob \/ Close \/ CloseReturns

Terminated == worker = "closed" /\ UNCHANGED vars

Next ==
  \/ \E p \in Caller : Lock(p)
  \/ Flushing
  \/ \E request \in late : LateArrival(request)
  \/ Working
  \/ Tick
  \/ Stops
  \/ Terminated

Spec == Init /\ [][Next]_vars

(* Requests end (they carry timeouts), Go's mutex does not starve a        *)
(* waiter, and a select that finds both channels ready picks one at        *)
(* random, so the stop is not passed over for ever.  Nothing makes ticks,  *)
(* answers or late requests arrive.                                        *)
Fairness ==
  /\ WF_vars(Flushing) /\ WF_vars(Working)
  /\ \A p \in Caller : SF_vars(Lock(p))
  /\ SF_vars(Stops)

FairSpec == Spec /\ Fairness

-----------------------------------------------------------------------------
(* Properties.                                                             *)

TypeOK ==
  /\ size \in [1..MaxEvents -> Sizes]
  /\ nextSequence \in 0..MaxEvents
  /\ pending \in Seq(1..MaxEvents) /\ batch \in Seq(1..MaxEvents)
  /\ pendingBytes \in Nat
  /\ flushMu \in Caller \cup {"free"}
  /\ stage \in {"drain", "send", "answered"}
  /\ response \in 0..MaxEvents \cup {Failed}
  /\ worker \in {"run", "enqueueFlush", "finalFlush", "complete", "close",
                 "closing", "closed"}
  /\ attempt \in 0..FlushRetries
  /\ flushed \in {"no", "ok", "failed"}
  /\ ticker \in {"select", "flush", "stopped"} /\ stopped \in BOOLEAN
  /\ lastAccepted \in 0..MaxEvents
  /\ late \subseteq (1..MaxEvents) \X (1..MaxEvents)
  /\ completion \in 0..MaxEvents \cup {NoCompletion}

Unacknowledged == batch \o pending

(* No event is lost, reordered or duplicated in the reporter: what a flush *)
(* holds followed by what is queued is a run of consecutive sequences that *)
(* ends at the last event and leaves no gap after what the control plane   *)
(* has accepted, whatever failed, arrived late or was accepted in part     *)
(* while the worker went on enqueueing.                                    *)
NoEventLost ==
  LET held == Len(Unacknowledged)
  IN /\ \A i \in 1..held : Unacknowledged[i] = nextSequence - held + i
     /\ nextSequence - held <= lastAccepted

(* pendingBytes, which decides when enqueue flushes, is the size of the    *)
(* queue after every drain and every put-back.                             *)
BytesMatchQueue == pendingBytes = Bytes(pending)

(* A request fits: a backlog that outgrew one request is sent in batches   *)
(* of the accepted size, and only a single event may be larger.            *)
BatchFits ==
  /\ Len(batch) <= MaxBatchEvents
  /\ Len(batch) > 1 => Bytes(batch) <= MaxBatchBytes

(* The job's worker gets through its flushes, completion and Close,        *)
(* whatever the control plane answers.                                     *)
Closes == <>(worker = "closed")
=============================================================================
