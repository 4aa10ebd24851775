------------------------------- MODULE HttpNodes -------------------------------
(***************************************************************************)
(* Request and SSE nodes (pkg/node) and what they share: the pacer and the *)
(* call limit of pkg/httpcall, the call collector of each top-level node,  *)
(* and the response budget.  Each node runs in a goroutine of its own,     *)
(* under the engine's assertion pass and the retry middleware.             *)
(*                                                                         *)
(* Abstractions.  A body is its length, in units; templates, assertions    *)
(* and extractors are their outcomes; a call record is counted.  A request *)
(* context can reach its deadline at any time, the context of the          *)
(* execution can be cancelled at any time.  The network answers, fails,    *)
(* or does neither.  Time only matters to the pacer: it is what passed     *)
(* since the last start, up to the interval.                               *)
(***************************************************************************)
EXTENDS Integers, Sequences, SequencesExt, FiniteSetsExt

CONSTANTS Node,
          Setups,              \* kinds of the nodes, attempts and redirects
          BudgetSize,          \* NewResponseBudget's size
          MaxResponseBytes,    \* limit on a response body
          ReportedBytes,       \* ReportedResponseBodyBytes
          FirstRead,           \* unknownLengthFirstRead
          BodySizes,           \* bound: lengths of response bodies
          Slack,               \* bound: what slices.Grow allocates on top
          CallLimit,           \* NewLimiter's limit
          Interval,            \* NewPacer's interval
          MaxEvents            \* SseData.MaxEvents

ASSUME BudgetAssumption == BudgetSize \in Nat \ {0}
ASSUME SizeAssumption == /\ MaxResponseBytes \in Nat \ {0} /\ ReportedBytes \in Nat \ {0}
                         /\ FirstRead \in Nat \ {0} /\ Slack \in Nat /\ BodySizes \subseteq Nat
ASSUME CallAssumption == CallLimit \in Nat \ {0} /\ Interval \in Nat
ASSUME SetupAssumption ==
  Setups \subseteq [kind: [Node -> {"request", "sse", "none"}],
                   attempts: Nat \ {0},   \* Retry's attempts
                   hops: Nat]             \* bound: redirects followed
ASSUME EventAssumption == MaxEvents \in Nat \ {0}

NoNode == "none"
ASSUME NodeAssumption == IsFiniteSet(Node) /\ NoNode \notin Node
Unknown == -1                  \* ContentLength of a body sent without one
bodyWeight == 2

VARIABLES
  setup,      \* the kind of each node; how often nodes are retried
  reads,      \* readsResponseBody, of a request node
  strict,     \* stopOnAssertionFailure, of an SSE node
  cancelled,  \* the context of the execution is done
  deadline,   \* the node's request context has timed out
  pc,         \* where the node is
  attempt,    \* Retry: attempts begun
  hops,       \* redirects followed
  gate, since,\* pacer: who holds the gate; the time since last, up to interval
  started,    \* Limiter.started
  call,       \* a call started and not finished
  calls,      \* Collector.calls, counted
  reported,   \* SetHTTPCalls: the calls of the node's result
  cur, waiters, grant,  \* semaphore: tokens out, queue, tokens handed over
  held,       \* bodyReservation.held
  length, left, read, capacity,  \* the response: Content-Length, bytes to come,
                                 \* len and cap of the buffer
  event, events                  \* SSE: a buffered event, the dispatched ones

configVars == <<setup, reads, strict>>
pacerVars == <<gate, since>>
callVars == <<started, call, calls, reported>>
budgetVars == <<cur, waiters, grant, held>>
bodyVars == <<length, left, read, capacity>>
sseVars == <<event, events>>
loopVars == <<attempt, hops>>
vars == <<configVars, cancelled, deadline, pc, loopVars, pacerVars, callVars,
          budgetVars, bodyVars, sseVars>>

Init ==
  /\ setup \in Setups
  /\ reads \in [Node -> BOOLEAN] /\ \A n \in Node : setup.kind[n] # "request" => ~reads[n]
  /\ strict \in [Node -> BOOLEAN] /\ \A n \in Node : setup.kind[n] # "sse" => ~strict[n]
  /\ cancelled = FALSE /\ deadline = [n \in Node |-> FALSE]
  /\ pc = [n \in Node |-> IF setup.kind[n] = "none" THEN "ended" ELSE "prepare"]
  /\ attempt = [n \in Node |-> 1] /\ hops = [n \in Node |-> 0]
  /\ gate = NoNode /\ since = Interval
  /\ started = 0 /\ call = [n \in Node |-> FALSE]
  /\ calls = [n \in Node |-> 0] /\ reported = [n \in Node |-> 0]
  /\ cur = 0 /\ waiters = <<>> /\ grant = [n \in Node |-> 0] /\ held = [n \in Node |-> 0]
  /\ length = [n \in Node |-> 0] /\ left = length /\ read = length /\ capacity = length
  /\ event = [n \in Node |-> FALSE] /\ events = [n \in Node |-> 0]

CtxDone(n) == cancelled \/ deadline[n]

Goto(n, place) == pc' = [pc EXCEPT ![n] = place]

(* Mutant: a body read to its end and then closed is recorded twice.       *)
FinishAgain(n) ==
  /\ call' = [call EXCEPT ![n] = FALSE]
  /\ calls' = [calls EXCEPT ![n] = @ + 1]
  /\ UNCHANGED <<started, reported>>

(* Call.Finish: the call joins the collector, once.                        *)
Finish(n) ==
  /\ call' = [call EXCEPT ![n] = FALSE]
  /\ calls' = [calls EXCEPT ![n] = IF call[n] THEN @ + 1 ELSE @]
  /\ UNCHANGED <<started, reported>>

(* client.Do returned an error.  An SSE node takes a done context for its  *)
(* timeout_ms and succeeds without events.                                 *)
DoFails(n) == Goto(n, IF setup.kind[n] = "sse" /\ CtxDone(n) THEN "passed" ELSE "failed")

-----------------------------------------------------------------------------
(* Execute up to client.Do.                                                *)

(* Inputs, URL, headers, body and, for SSE, the assertions' expected       *)
(* values: any of them can fail to resolve.                                *)
Prepare(n) ==
  /\ pc[n] = "prepare"
  /\ Goto(n, "wait") \/ Goto(n, "failed")
  /\ deadline' = [deadline EXCEPT ![n] = FALSE]
  /\ hops' = [hops EXCEPT ![n] = 0]
  /\ UNCHANGED <<configVars, cancelled, attempt, pacerVars, callVars, budgetVars,
                 bodyVars, sseVars>>

(* Wait.  A context that is done on entry is found done at the gate.       *)
(* Mutant: waiters do not exclude one another.                             *)
WaitWithoutGate(n) ==
  /\ pc[n] = "wait" /\ Goto(n, "pace")
  /\ UNCHANGED <<configVars, cancelled, deadline, loopVars, pacerVars, callVars,
                 budgetVars, bodyVars, sseVars>>

TakeGate(n) ==
  /\ pc[n] = "wait" /\ gate = NoNode
  /\ gate' = n /\ Goto(n, "pace")
  /\ UNCHANGED <<configVars, cancelled, deadline, loopVars, since, callVars,
                 budgetVars, bodyVars, sseVars>>

(* The delay is over, by its timer or because none was needed.             *)
Paced(n) ==
  /\ pc[n] = "pace" /\ since >= Interval
  /\ Goto(n, "mark")
  /\ UNCHANGED <<configVars, cancelled, deadline, loopVars, pacerVars, callVars,
                 budgetVars, bodyVars, sseVars>>

(* Cancelled at the gate, during the delay or right after it: nothing is   *)
(* booked, and a gate that was taken is given back.                        *)
StopWaiting(n) ==
  /\ pc[n] \in {"wait", "pace", "mark"} /\ CtxDone(n)
  /\ gate' = IF gate = n THEN NoNode ELSE gate
  /\ DoFails(n)
  /\ UNCHANGED <<configVars, cancelled, deadline, loopVars, since, callVars,
                 budgetVars, bodyVars, sseVars>>

MarkStart(n) ==
  /\ pc[n] = "mark" /\ ~CtxDone(n)
  /\ since' = 0 /\ gate' = NoNode
  /\ Goto(n, "start")
  /\ UNCHANGED <<configVars, cancelled, deadline, loopVars, callVars, budgetVars,
                 bodyVars, sseVars>>

(* Start: the call counts against the limit of the execution, or is        *)
(* refused with a UserError, which fails either kind of node.              *)
Start(n) ==
  /\ pc[n] = "start"
  /\ IF started < CallLimit
     THEN /\ started' = started + 1
          /\ call' = [call EXCEPT ![n] = TRUE]
          /\ Goto(n, "sent")
     ELSE Goto(n, "failed") /\ UNCHANGED <<started, call>>
  /\ UNCHANGED <<configVars, cancelled, deadline, loopVars, pacerVars, calls,
                 reported, budgetVars, bodyVars, sseVars>>

RoundTripFails(n) ==
  /\ pc[n] = "sent"
  /\ Finish(n) /\ DoFails(n)
  /\ UNCHANGED <<configVars, cancelled, deadline, loopVars, pacerVars, budgetVars,
                 bodyVars, sseVars>>

(* The client closes the redirect's body and calls RoundTrip again.        *)
Redirect(n) ==
  /\ pc[n] = "sent" /\ hops[n] < setup.hops
  /\ hops' = [hops EXCEPT ![n] = @ + 1]
  /\ Finish(n) /\ Goto(n, "wait")
  /\ UNCHANGED <<configVars, cancelled, deadline, attempt, pacerVars, budgetVars,
                 bodyVars, sseVars>>

-----------------------------------------------------------------------------
(* The response budget: a weighted semaphore that serves its queue in      *)
(* order.                                                                  *)

Tokens(queue, k) == FoldLeft(+, 0, [i \in 1..k |-> queue[i].want])

(* What a node gets when the first k waiters are served; it waits once.    *)
Handed(queue, k, n) ==
  IF \E i \in 1..k : queue[i].node = n
  THEN queue[CHOOSE i \in 1..k : queue[i].node = n].want ELSE 0

(* notifyWaiters: tokens go to the front of the queue while they suffice.  *)
Settle(out, queue, granted) ==
  LET served == Max({k \in 0..Len(queue) : out + Tokens(queue, k) <= BudgetSize})
  IN /\ cur' = out + Tokens(queue, served)
     /\ waiters' = SubSeq(queue, served + 1, Len(queue))
     /\ grant' = [n \in Node |-> granted[n] + Handed(queue, served, n)]

(* shrinkTo: give back what is held past n body bytes.                     *)
shrinkTo(n, bytes) ==
  LET keep == Min({held[n], bodyWeight * bytes})
  IN held' = [held EXCEPT ![n] = keep] /\ Settle(cur - (held[n] - keep), waiters, grant)

keptResponseBytes(n) == IF reads[n] THEN MaxResponseBytes
                        ELSE Min({ReportedBytes, MaxResponseBytes})

(* What the buffer needs next: room for the first read, then for all that  *)
(* is kept.                                                                *)
Goal(n) ==
  IF capacity[n] > 0 THEN keptResponseBytes(n)
  ELSE Min({keptResponseBytes(n), IF length[n] = Unknown THEN FirstRead ELSE length[n]})

(* growTo asks for this many tokens; a body that costs more than the       *)
(* budget asks for all of it.                                              *)
Want(n) == Min({bodyWeight * Goal(n), BudgetSize}) - held[n]

(* make, then slices.Grow, which may allocate more than it is asked for.   *)
Allocate(n) ==
  \E extra \in 0..Slack :
    capacity' = [capacity EXCEPT ![n] =
      IF @ = 0 THEN Goal(n)
      ELSE read[n] + Min({read[n], keptResponseBytes(n) - read[n]}) + extra]

acquire(n) ==
  /\ pc[n] = "acquire"
  /\ \/ /\ Want(n) <= 0
        /\ Allocate(n) /\ Goto(n, "read") /\ UNCHANGED budgetVars
     \/ /\ Want(n) > 0 /\ CtxDone(n)
        /\ Goto(n, "abandon") /\ UNCHANGED <<budgetVars, capacity>>
     \/ /\ Want(n) > 0 /\ ~CtxDone(n) /\ waiters = <<>> /\ cur + Want(n) <= BudgetSize
        /\ cur' = cur + Want(n) /\ held' = [held EXCEPT ![n] = @ + Want(n)]
        /\ Allocate(n) /\ Goto(n, "read") /\ UNCHANGED <<waiters, grant>>
     \/ /\ Want(n) > 0 /\ ~CtxDone(n) /\ (waiters # <<>> \/ cur + Want(n) > BudgetSize)
        /\ waiters' = Append(waiters, [node |-> n, want |-> Want(n)])
        /\ Goto(n, "queued") /\ UNCHANGED <<cur, grant, held, capacity>>
  /\ UNCHANGED <<configVars, cancelled, deadline, loopVars, pacerVars, callVars,
                 length, left, read, sseVars>>

Acquired(n) ==
  /\ pc[n] = "queued" /\ grant[n] > 0 /\ ~CtxDone(n)
  /\ held' = [held EXCEPT ![n] = @ + grant[n]]
  /\ grant' = [grant EXCEPT ![n] = 0]
  /\ Allocate(n) /\ Goto(n, "read")
  /\ UNCHANGED <<configVars, cancelled, deadline, loopVars, pacerVars, callVars,
                 cur, waiters, length, left, read, sseVars>>

(* Mutant: the wait for the budget ignores the request's context.          *)
WaitOn(n) == pc[n] = "queued" /\ CtxDone(n) /\ UNCHANGED vars

(* The context is done: tokens handed over meanwhile are put back, and a   *)
(* waiter that leaves the front of the queue lets the next ones through.   *)
GiveUp(n) ==
  /\ pc[n] = "queued" /\ CtxDone(n)
  /\ IF grant[n] > 0
     THEN Settle(cur - grant[n], waiters, [grant EXCEPT ![n] = 0])
     ELSE \E k \in DOMAIN waiters :
            waiters[k].node = n /\ Settle(cur, RemoveAt(waiters, k), grant)
  /\ Goto(n, "abandon")
  /\ UNCHANGED <<configVars, cancelled, deadline, loopVars, pacerVars, callVars,
                 held, bodyVars, sseVars>>

-----------------------------------------------------------------------------
(* readResponseBody.                                                       *)

(* The headers arrived.  A declared length past the limit is refused       *)
(* before anything is reserved.                                            *)
Respond(n) ==
  /\ setup.kind[n] = "request" /\ pc[n] = "sent"
  /\ \E size \in BodySizes : \E declared \in {Unknown, size} :
       /\ length' = [length EXCEPT ![n] = declared]
       /\ left' = [left EXCEPT ![n] = size]
       /\ IF declared > MaxResponseBytes
          THEN Finish(n) /\ Goto(n, "failed")
          ELSE Goto(n, "acquire") /\ UNCHANGED callVars
  /\ UNCHANGED <<configVars, cancelled, deadline, loopVars, pacerVars, budgetVars,
                 read, capacity, sseVars>>

(* readKept has what the node keeps, or all that was declared.             *)
KeptAll(n) == read[n] = keptResponseBytes(n) \/ read[n] = length[n]

(* The loop of readKept before it reads: done, or the buffer is full.      *)
BeforeRead(n) ==
  /\ pc[n] = "read" /\ (KeptAll(n) \/ read[n] >= capacity[n])
  /\ Goto(n, IF KeptAll(n) THEN "count" ELSE "acquire")
  /\ UNCHANGED <<configVars, cancelled, deadline, loopVars, pacerVars, callVars,
                 budgetVars, bodyVars, sseVars>>

Reading(n) == pc[n] = "read" /\ ~KeptAll(n) /\ read[n] < capacity[n]

readKept(n) ==
  /\ Reading(n)
  /\ \/ /\ left[n] = 0                              \* EOF
        /\ Finish(n) /\ Goto(n, "count") /\ UNCHANGED <<left, read>>
     \/ /\ \E k \in 1..Min({left[n], Min({capacity[n], keptResponseBytes(n)}) - read[n]}) :
             /\ read' = [read EXCEPT ![n] = @ + k]
             /\ left' = [left EXCEPT ![n] = @ - k]
        /\ UNCHANGED <<pc, callVars>>
  /\ UNCHANGED <<configVars, cancelled, deadline, loopVars, pacerVars, budgetVars,
                 length, capacity, sseVars>>

ReadFails(n) ==
  /\ Reading(n) \/ pc[n] = "count"
  /\ Goto(n, "abandon")
  /\ UNCHANGED <<configVars, cancelled, deadline, loopVars, pacerVars, callVars,
                 budgetVars, bodyVars, sseVars>>

(* countRest reads on without keeping; a body within the limit is read to  *)
(* its end, which finishes the call.                                       *)
countRest(n) ==
  /\ pc[n] = "count"
  /\ IF read[n] + left[n] > MaxResponseBytes
     THEN Goto(n, "abandon") /\ UNCHANGED <<callVars, budgetVars, left>>
     ELSE /\ left' = [left EXCEPT ![n] = 0]
          /\ Finish(n) /\ shrinkTo(n, capacity[n]) /\ Goto(n, "assess")
  /\ UNCHANGED <<configVars, cancelled, deadline, loopVars, pacerVars, length, read,
                 capacity, sseVars>>

(* The buffer and its reservation go.                                      *)
ReleaseBody(n) ==
  /\ shrinkTo(n, 0)
  /\ read' = [read EXCEPT ![n] = 0] /\ capacity' = [capacity EXCEPT ![n] = 0]
  /\ left' = [left EXCEPT ![n] = 0] /\ length' = [length EXCEPT ![n] = 0]

(* Mutant: the error path of readResponseBody keeps the reservation.       *)
AbandonUnreleased(n) ==
  /\ pc[n] = "abandon"
  /\ read' = [read EXCEPT ![n] = 0] /\ capacity' = [capacity EXCEPT ![n] = 0]
  /\ left' = [left EXCEPT ![n] = 0] /\ length' = [length EXCEPT ![n] = 0]
  /\ Finish(n) /\ Goto(n, "failed")
  /\ UNCHANGED <<configVars, cancelled, deadline, loopVars, pacerVars, budgetVars, sseVars>>

(* The error path of readResponseBody and of makeRequestAndReadBody.       *)
Abandon(n) ==
  /\ pc[n] = "abandon"
  /\ ReleaseBody(n) /\ Finish(n) /\ Goto(n, "failed")
  /\ UNCHANGED <<configVars, cancelled, deadline, loopVars, pacerVars, sseVars>>

(* evalExecutor: assertions and outputs, then releaseResponse.             *)
Assess(n) ==
  /\ pc[n] = "assess"
  /\ ReleaseBody(n)
  /\ Goto(n, "passed") \/ Goto(n, "failed")
  /\ UNCHANGED <<configVars, cancelled, deadline, loopVars, pacerVars, callVars, sseVars>>

-----------------------------------------------------------------------------
(* The SSE stream.  Leaving it closes the body, which finishes the call.   *)

Leave(n, verdict) == Finish(n) /\ Goto(n, verdict)

OpenStream(n) ==
  /\ setup.kind[n] = "sse" /\ pc[n] = "sent"
  /\ \/ Leave(n, "failed") /\ UNCHANGED sseVars     \* status not 2xx
     \/ /\ Goto(n, "stream") /\ UNCHANGED callVars
        /\ event' = [event EXCEPT ![n] = FALSE] /\ events' = [events EXCEPT ![n] = 0]
  /\ UNCHANGED <<configVars, cancelled, deadline, loopVars, pacerVars, budgetVars, bodyVars>>

(* A data or event line.  Other lines change nothing.                      *)
feed(n) ==
  /\ pc[n] = "stream" /\ ~CtxDone(n) /\ ~event[n]
  /\ event' = [event EXCEPT ![n] = TRUE]
  /\ UNCHANGED <<configVars, cancelled, deadline, pc, loopVars, pacerVars, callVars,
                 budgetVars, bodyVars, events>>

(* A blank line after them: the event fails its assertions or not, and is  *)
(* the completion event or not.                                            *)
dispatch(n) ==
  /\ pc[n] = "stream" /\ ~CtxDone(n) /\ event[n]
  /\ event' = [event EXCEPT ![n] = FALSE]
  /\ events' = [events EXCEPT ![n] = @ + 1]
  /\ \/ strict[n] /\ Leave(n, "failed")             \* a failed assertion
     \/ Leave(n, "passed")                          \* completion_event
     \/ events'[n] >= MaxEvents /\ Leave(n, "passed")
     \/ events'[n] < MaxEvents /\ UNCHANGED <<pc, callVars>>
  /\ UNCHANGED <<configVars, cancelled, deadline, loopVars, pacerVars, budgetVars, bodyVars>>

(* The stream ends, breaks, or has a done context, which is a success.     *)
StreamEnds(n) ==
  /\ pc[n] = "stream"
  /\ Leave(n, "passed") \/ (~CtxDone(n) /\ Leave(n, "failed"))
  /\ UNCHANGED <<configVars, cancelled, deadline, loopVars, pacerVars, budgetVars,
                 bodyVars, sseVars>>

-----------------------------------------------------------------------------
(* Retry around the node, then runNode, which reports the calls.           *)

Retry(n) ==
  /\ pc[n] = "failed" /\ attempt[n] < setup.attempts /\ ~cancelled
  /\ attempt' = [attempt EXCEPT ![n] = @ + 1]
  /\ Goto(n, "prepare")
  /\ UNCHANGED <<configVars, cancelled, deadline, hops, pacerVars, callVars, budgetVars,
                 bodyVars, sseVars>>

End(n) ==
  /\ pc[n] = "passed" \/ (pc[n] = "failed" /\ (attempt[n] >= setup.attempts \/ cancelled))
  /\ reported' = [reported EXCEPT ![n] = calls[n]]
  /\ deadline' = [deadline EXCEPT ![n] = FALSE]    \* the attempt's context and
  /\ hops' = [hops EXCEPT ![n] = 0]                \* locals are gone
  /\ event' = [event EXCEPT ![n] = FALSE] /\ events' = [events EXCEPT ![n] = 0]
  /\ Goto(n, "ended")
  /\ UNCHANGED <<configVars, cancelled, attempt, pacerVars, started, call, calls,
                 budgetVars, bodyVars>>

Tick ==
  /\ since < Interval
  /\ since' = since + 1
  /\ UNCHANGED <<configVars, cancelled, deadline, pc, loopVars, gate, callVars,
                 budgetVars, bodyVars, sseVars>>

Timeout(n) ==
  /\ pc[n] \notin {"prepare", "assess", "passed", "failed", "ended"} /\ ~deadline[n]
  /\ deadline' = [deadline EXCEPT ![n] = TRUE]
  /\ UNCHANGED <<configVars, cancelled, pc, loopVars, pacerVars, callVars, budgetVars,
                 bodyVars, sseVars>>

Cancel ==
  /\ ~cancelled /\ \E n \in Node : pc[n] # "ended"
  /\ cancelled' = TRUE
  /\ UNCHANGED <<configVars, deadline, pc, loopVars, pacerVars, callVars, budgetVars,
                 bodyVars, sseVars>>

Ended == (\A n \in Node : pc[n] = "ended") /\ UNCHANGED vars

(* What a node does without the network.                                   *)
Step(n) ==
  \/ Prepare(n) \/ TakeGate(n) \/ Paced(n) \/ StopWaiting(n)
  \/ MarkStart(n) \/ Start(n) \/ acquire(n) \/ Acquired(n) \/ GiveUp(n)
  \/ BeforeRead(n) \/ Abandon(n) \/ Assess(n) \/ Retry(n) \/ End(n)

Network(n) ==
  \/ RoundTripFails(n) \/ Redirect(n) \/ Respond(n) \/ readKept(n) \/ ReadFails(n)
  \/ countRest(n) \/ OpenStream(n) \/ feed(n) \/ dispatch(n) \/ StreamEnds(n)

Next ==
  \/ \E n \in Node : Step(n) \/ Network(n) \/ Timeout(n)
  \/ Tick \/ Cancel \/ Ended

Spec == Init /\ [][Next]_vars

(* Goroutines run, time passes, and an exchange whose context is done      *)
(* fails.  No answer is assumed.                                           *)
FairSpec ==
  /\ Spec /\ WF_vars(Tick)
  /\ \A n \in Node :
       /\ WF_vars(Step(n)) /\ WF_vars(Timeout(n))
       /\ WF_vars(CtxDone(n) /\ (RoundTripFails(n) \/ ReadFails(n) \/ StreamEnds(n)))

-----------------------------------------------------------------------------
Total(f) == MapThenSumSet(LAMBDA n : f[n], Node)

(* Body bytes kept, at their weight, fit the budget, or one node alone     *)
(* keeps any; tokens out are exactly those held or just handed over; and a *)
(* finished attempt holds nothing, whichever way it ended.                 *)
MemoryBounded ==
  /\ cur = Total([n \in Node |-> held[n] + grant[n]]) /\ cur <= BudgetSize
  /\ \/ bodyWeight * Total(read) <= BudgetSize
     \/ \E n \in Node : \A m \in Node \ {n} : read[m] = 0
  /\ \A n \in Node : pc[n] \in {"prepare", "passed", "failed", "ended"} =>
        held[n] + grant[n] = 0

(* Every call counted against the limit is in its node's collector or      *)
(* still in flight, redirects and retries included, never twice; the node  *)
(* reports them all when it ends; and the limit holds over all nodes.      *)
CallsAccounted ==
  /\ started <= CallLimit
  /\ started = Total([n \in Node |-> calls[n] + IF call[n] THEN 1 ELSE 0])
  /\ \A n \in Node : pc[n] = "ended" => ~call[n] /\ reported[n] = calls[n]

(* Two request starts of all nodes sharing the pacer are at least an       *)
(* interval apart, whoever waits, gives up or is cancelled in between.     *)
StartsSpaced ==
  [][\A n \in Node : pc[n] = "mark" /\ pc'[n] = "start" => since >= Interval]_vars

(* Every node ends, though nodes may hold a part of the budget and wait    *)
(* for one another's, and servers may never answer.                        *)
NodesEnd == \A n \in Node : <>(pc[n] = "ended")
=============================================================================
