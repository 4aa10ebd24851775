------------------------------ MODULE FlowEngine ------------------------------
(***************************************************************************)
(* The flow engine's scheduler: pkg/engine/execution.go and skipped.go.    *)
(*                                                                         *)
(* One goroutine, the scheduler loop, owns the execution state.  It starts *)
(* a goroutine for each node that is ready, hands it a snapshot of the     *)
(* outputs committed so far, and commits results in the order in which the *)
(* goroutines send them on the scheduler's done channel.  It runs twice:   *)
(* the on_success phase, then the always (cleanup) phase.                  *)
(*                                                                         *)
(* Abstractions.  A node is its position in flow.Nodes.  What a node       *)
(* publishes is reduced to what an input reference can observe: no entry   *)
(* in allOutputs, an entry in which the referenced path does not resolve,  *)
(* or one in which it does.  What Execute does, middleware included, is a  *)
(* nondeterministic outcome.  Messages, durations, logs and executedCount  *)
(* (only logged) are left out.  The done channel is buffered for every     *)
(* node, so a send never blocks; the race between senders is the choice of *)
(* the node that Receive takes.                                            *)
(***************************************************************************)
EXTENDS Integers, Sequences, FiniteSets

CONSTANTS Node,    \* positions of the nodes in flow.Nodes
          Flows    \* the flow definitions the engine may be given

OnSuccess == "on_success"
Always    == "always"

None  == "none"     \* allOutputs has no entry for the node
Empty == "empty"    \* an entry in which the referenced path does not resolve
Full  == "full"     \* an entry in which it resolves
Output == {None, Empty, Full}

NoNode == 0         \* failureCause: no entry; result.Error: nil
CycleError == -1    \* result.Error: "cycle detected or unreachable nodes"

(* A parsed flow.  edges keeps the definition's order and duplicates.      *)
(* refs[n] are the nodes that n's InputSchema references; input[p] says    *)
(* whether a flow input is called p (as a loop's item is) and whether the  *)
(* referenced path resolves in it.                                         *)
Flow == [edges:   Seq(Node \X Node),
         runWhen: [Node -> {OnSuccess, Always}],
         branch:  SUBSET Node,
         refs:    [Node -> SUBSET Node],
         input:   [Node -> {"none", "root", "path"}]]

Reason == {"dependency_failed", "dependency_skipped", "missing_inputs",
           "not_reachable_after_main_phase", "routed_away_by_branch"}

(* What a node's goroutine sends: outputs = None is a nil result.          *)
Outcome == [kind:    {"pending", "ok", "failed", "missing"},
            outputs: Output,
            targets: SUBSET Node]

NoOutcome == [kind |-> "pending", outputs |-> None, targets |-> {}]
NilError  == [kind |-> "failed", outputs |-> None, targets |-> {}]
MissingInputs == [kind |-> "missing", outputs |-> None, targets |-> {}]

ASSUME NodeAssumption == Node \subseteq Nat \ {0} /\ IsFiniteSet(Node)
ASSUME FlowsAssumption == Flows \subseteq Flow

VARIABLES
  flow,           \* the definition being executed
  phase,          \* "on_success", "always" or "done": which loop is running
  pc,             \* where the scheduler is in that loop
  todo,           \* nodes of the list being iterated that are still to come
  toRun,          \* resolveBlockedAlwaysNodes: blocked nodes to start
  skippedInPass,  \* the `skipped` flag of the pass
  pending,        \* keys of state.remainingInputs
  remaining,      \* values of state.remainingInputs (0 when there is no key)
  allOutputs,     \* state.allOutputs, flow inputs left out
  results,        \* result.ExecutionResults
  reason,         \* the skip reason of a skipped result
  error,          \* result.Error: the node that failed first
  success,        \* result.Success
  failedNodes, skippedNodes, failureCause, deadEdges, routedAway,
  inFlight,       \* the phase scheduler's inFlight set
  task,           \* progress of a node's goroutine
  view,           \* the OutputView a node's goroutine was started with
  outcome,        \* what the goroutine is about to send, or has sent
  startedEvents,  \* NodeStarted events observed, per node
  finishedEvents  \* NodeFinished events observed, per node

loopVars  == <<phase, pc, todo, toRun, skippedInPass>>
countVars == <<pending, remaining>>
resultVars == <<allOutputs, results, reason, error, failedNodes, skippedNodes,
                failureCause, deadEdges, routedAway>>
taskVars  == <<inFlight, task, view, outcome>>
vars == <<flow, loopVars, countVars, resultVars, success, taskVars,
          startedEvents, finishedEvents>>

-----------------------------------------------------------------------------
(* The graph maps NewFlowEngine builds from the definition.                *)

EdgesInto(f, n) == {i \in DOMAIN f.edges : f.edges[i][2] = n}
EdgesBetween(f, m, n) == {i \in DOMAIN f.edges : f.edges[i] = <<m, n>>}
nodeEdgeInput(f, n) == Cardinality(EdgesInto(f, n))
Predecessors(f, n) == {m \in Node : EdgesBetween(f, m, n) # {}}
Successors(f, n) == {m \in Node : EdgesBetween(f, n, m) # {}}

(* Input references, resolved against a view of the outputs.               *)

(* resolveDataRef leaves the reference with the flow input p names.        *)
ResolvesToFlowInput(f, p, v) == v[p] = None /\ f.input[p] # "none"

(* collectMissingInputs, and what makes validateInputs fail.               *)
collectMissingInputs(f, n, v) ==
  {p \in f.refs[n] : IF v[p] # None THEN v[p] # Full ELSE f.input[p] # "path"}

inputsReferenceSkippedNode(n) ==
  \E p \in flow.refs[n] :
     p \in skippedNodes /\ ~ResolvesToFlowInput(flow, p, allOutputs)

-----------------------------------------------------------------------------
(* Why a ready node is skipped instead of started.                         *)

BlockingEdges(n) ==
  {i \in EdgesInto(flow, n) : failureCause[flow.edges[i][1]] # NoNode}

(* Mutant: blocked only when every predecessor carries a failure.          *)
upstreamFailureOfAll(n) ==
  /\ Predecessors(flow, n) # {}
  /\ \A p \in Predecessors(flow, n) : failureCause[p] # NoNode

upstreamFailure(n) == BlockingEdges(n) # {}

isFullyDead(n) ==
  /\ Predecessors(flow, n) # {}
  /\ \A p \in Predecessors(flow, n) :
        <<p, n>> \in deadEdges \/ p \in skippedNodes \/ p \in failedNodes

isRoutedAway(n) ==
  /\ Predecessors(flow, n) # {}
  /\ \A p \in Predecessors(flow, n) : <<p, n>> \in deadEdges \/ p \in routedAway

routedAwayBy(n) ==
  /\ \A p \in Predecessors(flow, n) :
        p \notin failedNodes /\ (<<p, n>> \in deadEdges \/ p \in skippedNodes)
  /\ \E p \in Predecessors(flow, n) : <<p, n>> \in deadEdges

(* Mutant: no default reason.                                              *)
describeSkipCauseNoDefault(n, cause) ==
  IF cause[n] # NoNode THEN "dependency_failed" ELSE ""

(* The reason code.  cause is failureCause as describeSkipCause reads it,  *)
(* with the entry startReadyOnSuccessNodes has just made for n.            *)
describeSkipCause(n, cause) ==
  LET missing == collectMissingInputs(flow, n, allOutputs)
      sources == {p \in missing : ~ResolvesToFlowInput(flow, p, allOutputs)}
  IN IF routedAwayBy(n) THEN "routed_away_by_branch"
     ELSE IF \E p \in sources : cause[p] # NoNode THEN "dependency_failed"
     ELSE IF \E p \in sources : p \in skippedNodes THEN "dependency_skipped"
     ELSE IF missing # {} THEN "missing_inputs"
     ELSE IF cause[n] # NoNode THEN "dependency_failed"
     ELSE "not_reachable_after_main_phase"

-----------------------------------------------------------------------------
Init ==
  /\ flow \in Flows
  /\ phase = OnSuccess /\ pc = "scan"
  /\ todo = {} /\ toRun = {} /\ skippedInPass = FALSE
  /\ pending = Node
  /\ remaining = [n \in Node |-> nodeEdgeInput(flow, n)]
  /\ allOutputs = [n \in Node |-> None]
  /\ results = [n \in Node |-> "none"]
  /\ reason = [n \in Node |-> "none"]
  /\ error = NoNode /\ success = FALSE
  /\ failedNodes = {} /\ skippedNodes = {}
  /\ failureCause = [n \in Node |-> NoNode]
  /\ deadEdges = {} /\ routedAway = {}
  /\ inFlight = {}
  /\ task = [n \in Node |-> "idle"]
  /\ view = [n \in Node |-> [p \in Node |-> None]]
  /\ outcome = [n \in Node |-> NoOutcome]
  /\ startedEvents = [n \in Node |-> 0]
  /\ finishedEvents = [n \in Node |-> 0]

-----------------------------------------------------------------------------
(* Parts of the scheduler's steps.                                         *)

(* Mutant: the node's own entry is not deleted.                            *)
markNodeCompleteNoDelete(n) ==
  /\ remaining' = [m \in Node |->
       remaining[m] - Cardinality(EdgesBetween(flow, n, m))]
  /\ pending' = pending \cup Successors(flow, n)

(* Decrementing a successor that has no entry creates one: Go's map reads  *)
(* zero for a missing key.                                                 *)
markNodeComplete(n) ==
  /\ remaining' = [m \in Node |->
       IF m = n THEN 0
       ELSE remaining[m] - Cardinality(EdgesBetween(flow, n, m))]
  /\ pending' = (pending \cup Successors(flow, n)) \ {n}

recordSkippedNode(n, cause) ==
  /\ results' = [results EXCEPT ![n] = "skipped"]
  /\ reason' = [reason EXCEPT ![n] = describeSkipCause(n, cause)]
  /\ failureCause' = cause
  /\ skippedNodes' = skippedNodes \cup {n}
  /\ routedAway' = IF isRoutedAway(n) THEN routedAway \cup {n} ELSE routedAway
  /\ finishedEvents' = [finishedEvents EXCEPT ![n] = @ + 1]
  /\ markNodeComplete(n)
  /\ UNCHANGED <<flow, allOutputs, error, success, failedNodes, deadEdges,
                 taskVars, startedEvents>>

(* Mutant: the goroutine gets the outputs there were at the beginning.     *)
startWithoutSnapshot(n) ==
  /\ inFlight' = inFlight \cup {n}
  /\ task' = [task EXCEPT ![n] = "spawned"]
  /\ outcome' = [outcome EXCEPT ![n] = NoOutcome]
  /\ UNCHANGED <<flow, countVars, resultVars, success, view, startedEvents,
                 finishedEvents>>

(* phaseScheduler.start: the goroutine's view is a copy taken now.         *)
start(n) ==
  /\ inFlight' = inFlight \cup {n}
  /\ task' = [task EXCEPT ![n] = "spawned"]
  /\ view' = [view EXCEPT ![n] = allOutputs]
  /\ outcome' = [outcome EXCEPT ![n] = NoOutcome]
  /\ UNCHANGED <<flow, countVars, resultVars, success, startedEvents,
                 finishedEvents>>

(* Mutant: ready with one predecessor still to come.                       *)
readyOneEarly(when) ==
  {n \in pending : /\ remaining[n] <= 1
                   /\ flow.runWhen[n] = when
                   /\ n \notin inFlight}

ready(when) ==
  {n \in pending : /\ remaining[n] = 0
                   /\ flow.runWhen[n] = when
                   /\ n \notin inFlight}

First(S, n) == n \in S /\ \A m \in S : n <= m

(* The loop goes on at pc = where, with the list of nodes given.           *)
Goto(where, list) == pc' = where /\ todo' = list

ControlOnly ==
  UNCHANGED <<flow, countVars, resultVars, success, taskVars, startedEvents,
              finishedEvents>>

-----------------------------------------------------------------------------
(* startReadyOnSuccessNodes, one action per decision.  The cause of a skip *)
(* below a failure is that of the first blocking predecessor.              *)

ScanReady ==
  /\ pc = "scan"
  /\ Goto("pass", ready(OnSuccess))
  /\ skippedInPass' = FALSE
  /\ UNCHANGED <<phase, toRun>> /\ ControlOnly

SkipReady(n) ==
  /\ pc = "pass" /\ First(todo, n)
  /\ \/ \E i \in BlockingEdges(n) :
           /\ First(BlockingEdges(n), i)
           /\ recordSkippedNode(n, [failureCause EXCEPT ![n] =
                                      failureCause[flow.edges[i][1]]])
     \/ /\ ~upstreamFailure(n)
        /\ isFullyDead(n) \/ inputsReferenceSkippedNode(n)
        /\ recordSkippedNode(n, failureCause)
  /\ skippedInPass' = TRUE
  /\ Goto("pass", todo \ {n})
  /\ UNCHANGED <<phase, toRun>>

(* Mutant: references to skipped nodes are not looked at.                  *)
StartReadyIgnoringRefs(n) ==
  /\ pc = "pass" /\ First(todo, n)
  /\ ~upstreamFailure(n) /\ ~isFullyDead(n)
  /\ start(n)
  /\ Goto("pass", todo \ {n})
  /\ UNCHANGED <<phase, toRun, skippedInPass>>

StartReady(n) ==
  /\ pc = "pass" /\ First(todo, n)
  /\ ~upstreamFailure(n) /\ ~isFullyDead(n) /\ ~inputsReferenceSkippedNode(n)
  /\ start(n)
  /\ Goto("pass", todo \ {n})
  /\ UNCHANGED <<phase, toRun, skippedInPass>>

(* Mutant: one pass, although its skips made other nodes ready.            *)
EndPassNoRescan ==
  /\ pc = "pass" /\ todo = {}
  /\ \/ phase = OnSuccess /\ Goto("select", {})
     \/ phase = Always /\ Goto("routed", ready(Always))
  /\ skippedInPass' = FALSE
  /\ UNCHANGED <<phase, toRun>> /\ ControlOnly

(* Mutant: another pass whenever something runs, instead of a wait.        *)
EndPassSpins ==
  /\ pc = "pass" /\ todo = {}
  /\ Goto(IF inFlight = {} THEN "select" ELSE "scan", {})
  /\ skippedInPass' = FALSE
  /\ UNCHANGED <<phase, toRun>> /\ ControlOnly

(* No skip in the pass: the on_success loop waits for a result, the always *)
(* loop goes on to its cleanup nodes.                                      *)
EndPass ==
  /\ pc = "pass" /\ todo = {}
  /\ \/ skippedInPass /\ Goto("scan", {})
     \/ ~skippedInPass /\ phase = OnSuccess /\ Goto("select", {})
     \/ ~skippedInPass /\ phase = Always /\ Goto("routed", ready(Always))
  /\ skippedInPass' = FALSE
  /\ UNCHANGED <<phase, toRun>> /\ ControlOnly

-----------------------------------------------------------------------------
(* The always phase: skipRoutedAwayAlwaysNodes, then the cleanup nodes.    *)

SkipRoutedAway(n) ==
  /\ pc = "routed" /\ First(todo, n)
  /\ isRoutedAway(n)
  /\ recordSkippedNode(n, failureCause)
  /\ skippedInPass' = TRUE
  /\ Goto("routed", todo \ {n})
  /\ UNCHANGED <<phase, toRun>>

KeepAlways(n) ==
  /\ pc = "routed" /\ First(todo, n)
  /\ ~isRoutedAway(n)
  /\ Goto("routed", todo \ {n})
  /\ UNCHANGED <<phase, toRun, skippedInPass>> /\ ControlOnly

EndRouted ==
  /\ pc = "routed" /\ todo = {}
  /\ \/ skippedInPass /\ Goto("scan", {})
     \/ ~skippedInPass /\ Goto("startAlways", ready(Always))
  /\ UNCHANGED <<phase, toRun, skippedInPass>> /\ ControlOnly

StartAlways(n) ==
  /\ pc = "startAlways" /\ First(todo, n)
  /\ start(n)
  /\ Goto("startAlways", todo \ {n})
  /\ UNCHANGED <<phase, toRun, skippedInPass>>

EndStartAlways ==
  /\ pc = "startAlways" /\ todo = {}
  /\ Goto("select", {})
  /\ UNCHANGED <<phase, toRun, skippedInPass>> /\ ControlOnly

-----------------------------------------------------------------------------
(* Idle: the on_success phase hands over; the always phase resolves the    *)
(* always nodes that are still blocked, or the execution ends.             *)

hasRemainingAlwaysPredecessor(n) ==
  \E p \in Predecessors(flow, n) :
     p \in pending /\ flow.runWhen[p] = Always

BlockedAlways ==
  {n \in pending : /\ flow.runWhen[n] = Always
                   /\ ~hasRemainingAlwaysPredecessor(n)}

BlockedToRun ==
  {n \in BlockedAlways : /\ ~isRoutedAway(n)
                         /\ collectMissingInputs(flow, n, allOutputs) = {}}

(* Mutant: cleanup begins while on_success nodes still run.                *)
BeginAlwaysPhaseEarly ==
  /\ pc = "select" /\ phase = OnSuccess
  /\ phase' = Always
  /\ Goto("scan", {})
  /\ UNCHANGED <<toRun, skippedInPass>> /\ ControlOnly

BeginAlwaysPhase ==
  /\ pc = "select" /\ inFlight = {} /\ phase = OnSuccess
  /\ phase' = Always
  /\ Goto("scan", {})
  /\ UNCHANGED <<toRun, skippedInPass>> /\ ControlOnly

ResolveBlocked ==
  /\ pc = "select" /\ inFlight = {} /\ phase = Always
  /\ BlockedAlways # {}
  /\ Goto("blockedSkip", BlockedAlways \ BlockedToRun)
  /\ toRun' = BlockedToRun
  /\ UNCHANGED <<phase, skippedInPass>> /\ ControlOnly

SkipBlocked(n) ==
  /\ pc = "blockedSkip" /\ First(todo, n)
  /\ recordSkippedNode(n, failureCause)
  /\ Goto("blockedSkip", todo \ {n})
  /\ UNCHANGED <<phase, toRun, skippedInPass>>

EndSkipBlocked ==
  /\ pc = "blockedSkip" /\ todo = {}
  /\ Goto("blockedRun", toRun)
  /\ toRun' = {}
  /\ UNCHANGED <<phase, skippedInPass>> /\ ControlOnly

StartBlocked(n) ==
  /\ pc = "blockedRun" /\ First(todo, n)
  /\ start(n)
  /\ Goto("blockedRun", todo \ {n})
  /\ UNCHANGED <<phase, toRun, skippedInPass>>

EndStartBlocked ==
  /\ pc = "blockedRun" /\ todo = {}
  /\ Goto("scan", {})
  /\ UNCHANGED <<phase, toRun, skippedInPass>> /\ ControlOnly

(* Mutant: nodes that are still pending are no error.                      *)
finalizeExecutionIgnoringPending ==
  /\ pc = "select" /\ inFlight = {} /\ phase = Always
  /\ BlockedAlways = {}
  /\ phase' = "done"
  /\ Goto("done", {})
  /\ success' = (error = NoNode)
  /\ UNCHANGED <<toRun, skippedInPass, flow, countVars, resultVars, taskVars,
                 startedEvents, finishedEvents>>

finalizeExecution ==
  /\ pc = "select" /\ inFlight = {} /\ phase = Always
  /\ BlockedAlways = {}
  /\ phase' = "done"
  /\ Goto("done", {})
  /\ error' = IF error = NoNode /\ pending # {} THEN CycleError ELSE error
  /\ success' = (error' = NoNode)
  /\ UNCHANGED <<toRun, skippedInPass, flow, countVars, allOutputs, results,
                 reason, failedNodes, skippedNodes, failureCause, deadEdges,
                 routedAway, taskVars, startedEvents, finishedEvents>>

-----------------------------------------------------------------------------
(* scheduler.next and the recording of the result it returns.              *)

(* recordRoutingDecision: the edges of a branch to the nodes it did not    *)
(* route to die.                                                           *)
recordRoutingDecision(n) ==
  IF n \in flow.branch
  THEN deadEdges \cup {<<n, m>> : m \in Successors(flow, n) \ outcome[n].targets}
  ELSE deadEdges

(* Mutant: the skipped result is not reported to the observer.             *)
settleAlwaysSkipSilently(n) ==
  /\ skippedNodes' = skippedNodes \cup {n}
  /\ results' = [results EXCEPT ![n] = "skipped"]
  /\ reason' = [reason EXCEPT ![n] = describeSkipCause(n, failureCause)]
  /\ allOutputs' = [allOutputs EXCEPT ![n] = Empty]
  /\ deadEdges' = recordRoutingDecision(n)
  /\ UNCHANGED <<error, failedNodes, failureCause, finishedEvents>>

(* settleAlwaysSkip: an always node without its inputs becomes a skipped   *)
(* result with empty outputs and no error, which recordAlwaysResults then  *)
(* records: a skipped branch routes to no node, so all its edges die.      *)
settleAlwaysSkip(n) ==
  /\ skippedNodes' = skippedNodes \cup {n}
  /\ results' = [results EXCEPT ![n] = "skipped"]
  /\ reason' = [reason EXCEPT ![n] = describeSkipCause(n, failureCause)]
  /\ finishedEvents' = [finishedEvents EXCEPT ![n] = @ + 1]
  /\ allOutputs' = [allOutputs EXCEPT ![n] = Empty]
  /\ deadEdges' = recordRoutingDecision(n)
  /\ UNCHANGED <<error, failedNodes, failureCause>>

(* Mutant: a failure without a result does not become the flow's error.    *)
recordFailureWithResult(n) ==
  /\ results' = [results EXCEPT ![n] =
                   IF outcome[n].outputs = None THEN "nil" ELSE "failed"]
  /\ error' = IF error = NoNode /\ outcome[n].outputs # None THEN n ELSE error
  /\ failedNodes' = failedNodes \cup {n}
  /\ failureCause' = [failureCause EXCEPT ![n] = n]
  /\ allOutputs' = [allOutputs EXCEPT ![n] =
                      IF outcome[n].outputs = None THEN @ ELSE outcome[n].outputs]
  /\ UNCHANGED <<skippedNodes, reason, deadEdges, finishedEvents>>

recordFailure(n) ==
  /\ results' = [results EXCEPT ![n] =
                   IF outcome[n].outputs = None THEN "nil" ELSE "failed"]
  /\ error' = IF error = NoNode THEN n ELSE error
  /\ failedNodes' = failedNodes \cup {n}
  /\ failureCause' = [failureCause EXCEPT ![n] = n]
  /\ allOutputs' = [allOutputs EXCEPT ![n] =
                      IF outcome[n].outputs = None THEN @ ELSE outcome[n].outputs]
  /\ UNCHANGED <<skippedNodes, reason, deadEdges, finishedEvents>>

recordSuccess(n) ==
  /\ results' = [results EXCEPT ![n] = "ok"]
  /\ allOutputs' = [allOutputs EXCEPT ![n] = outcome[n].outputs]
  /\ deadEdges' = recordRoutingDecision(n)
  /\ UNCHANGED <<skippedNodes, reason, error, failedNodes, failureCause,
                 finishedEvents>>

Receive(n) ==
  /\ pc = "select"
  /\ n \in inFlight /\ task[n] = "sent"
  /\ inFlight' = inFlight \ {n}
  /\ task' = [task EXCEPT ![n] = "idle"]
  /\ \/ outcome[n].kind = "missing" /\ settleAlwaysSkip(n)
     \/ outcome[n].kind = "failed" /\ recordFailure(n)
     \/ outcome[n].kind = "ok" /\ recordSuccess(n)
  /\ markNodeComplete(n)
  /\ Goto("scan", {})
  /\ UNCHANGED <<flow, phase, toRun, skippedInPass, success, routedAway, view,
                 outcome, startedEvents>>

-----------------------------------------------------------------------------
(* A node's goroutine: runNode, then the send on done.                     *)

GoroutineOnly ==
  UNCHANGED <<flow, loopVars, countVars, resultVars, success, inFlight, view>>

validateInputs(n) == collectMissingInputs(flow, n, view[n]) = {}

(* Mutant: NodeStarted is emitted before the inputs are validated.         *)
RejectInputsAfterStarted(n) ==
  /\ task[n] = "spawned" /\ ~validateInputs(n)
  /\ task' = [task EXCEPT ![n] = "reported"]
  /\ outcome' = [outcome EXCEPT ![n] =
                   IF flow.runWhen[n] = Always THEN MissingInputs ELSE NilError]
  /\ startedEvents' = [startedEvents EXCEPT ![n] = @ + 1]
  /\ UNCHANGED finishedEvents /\ GoroutineOnly

(* Input validation fails: no event.  An on_success node fails with a nil  *)
(* result, an always node reports the missing inputs to the scheduler.     *)
RejectInputs(n) ==
  /\ task[n] = "spawned" /\ ~validateInputs(n)
  /\ task' = [task EXCEPT ![n] = "reported"]
  /\ outcome' = [outcome EXCEPT ![n] =
                   IF flow.runWhen[n] = Always THEN MissingInputs ELSE NilError]
  /\ UNCHANGED <<startedEvents, finishedEvents>> /\ GoroutineOnly

NodeStarted(n) ==
  /\ task[n] = "spawned" /\ validateInputs(n)
  /\ task' = [task EXCEPT ![n] = "running"]
  /\ startedEvents' = [startedEvents EXCEPT ![n] = @ + 1]
  /\ UNCHANGED <<outcome, finishedEvents>> /\ GoroutineOnly

(* A branch routes to one of its successors or to none, and never fails.   *)
Routes(n) == {{}} \cup {{m} : m \in Successors(flow, n)}

NodeOutcomes(n) ==
  IF n \in flow.branch
  THEN [kind: {"ok"}, outputs: {Full}, targets: Routes(n)]
  ELSE [kind: {"ok"}, outputs: {Empty, Full}, targets: {{}}]
       \cup [kind: {"failed"}, outputs: Output, targets: {{}}]

(* The executor chain returns and the NodeFinished event is emitted.       *)
NodeFinished(n) ==
  /\ task[n] = "running"
  /\ \E o \in NodeOutcomes(n) : outcome' = [outcome EXCEPT ![n] = o]
  /\ task' = [task EXCEPT ![n] = "reported"]
  /\ finishedEvents' = [finishedEvents EXCEPT ![n] = @ + 1]
  /\ UNCHANGED startedEvents /\ GoroutineOnly

SendDone(n) ==
  /\ task[n] = "reported"
  /\ task' = [task EXCEPT ![n] = "sent"]
  /\ UNCHANGED <<outcome, startedEvents, finishedEvents>> /\ GoroutineOnly

-----------------------------------------------------------------------------
Scheduler ==
  \/ ScanReady
  \/ \E n \in Node : SkipReady(n)
  \/ \E n \in Node : StartReady(n)
  \/ EndPass
  \/ \E n \in Node : SkipRoutedAway(n)
  \/ \E n \in Node : KeepAlways(n)
  \/ EndRouted
  \/ \E n \in Node : StartAlways(n)
  \/ EndStartAlways
  \/ BeginAlwaysPhase
  \/ ResolveBlocked
  \/ \E n \in Node : SkipBlocked(n)
  \/ EndSkipBlocked
  \/ \E n \in Node : StartBlocked(n)
  \/ EndStartBlocked
  \/ finalizeExecution
  \/ \E n \in Node : Receive(n)

Goroutine(n) ==
  RejectInputs(n) \/ NodeStarted(n) \/ NodeFinished(n) \/ SendDone(n)

(* The execution has returned: nothing more happens.                       *)
Terminated == phase = "done" /\ UNCHANGED vars

Next ==
  \/ Scheduler
  \/ \E n \in Node : Goroutine(n)
  \/ Terminated

Spec == Init /\ [][Next]_vars

(* The Go runtime keeps running the scheduler's goroutine and each node's; *)
(* every node kind returns, because its waits are bounded by timeouts.     *)
Fairness ==
  /\ WF_vars(Scheduler)
  /\ \A n \in Node : WF_vars(Goroutine(n))

FairSpec == Spec /\ Fairness

-----------------------------------------------------------------------------
(* Properties.                                                             *)

Ran == {n \in Node : results[n] \in {"ok", "failed", "nil"}}
Settled == {n \in Node : results[n] # "none"}

(* No cycle: every set of nodes has one without a predecessor in the set.  *)
Acyclic(f) ==
  \A S \in (SUBSET Node) \ {{}} :
     \E n \in S : Predecessors(f, n) \cap S = {}

(* The nodes with an edge path to n.                                       *)
Upstream(f, n) ==
  {m \in Node : \A S \in SUBSET Node :
     (\A s \in S \cup {n} : Predecessors(f, s) \subseteq S) => m \in S}

(* The on_success nodes that depend on m through on_success nodes only.    *)
Dependents(f, m) ==
  {n \in Node : \A S \in SUBSET Node :
     (\A s \in S \cup {m} : \A t \in Successors(f, s) :
         f.runWhen[t] = OnSuccess => t \in S) => n \in S}

LoopTypeOK ==
  /\ phase \in {OnSuccess, Always, "done"}
  /\ pc \in {"scan", "pass", "routed", "startAlways", "select", "blockedSkip",
             "blockedRun", "done"}
  /\ todo \subseteq Node /\ toRun \subseteq Node
  /\ skippedInPass \in BOOLEAN

StateTypeOK ==
  /\ flow \in Flows
  /\ pending \subseteq Node
  /\ remaining \in [Node -> Int]
  /\ allOutputs \in [Node -> Output]
  /\ results \in [Node -> {"none", "ok", "failed", "nil", "skipped"}]
  /\ reason \in [Node -> Reason \cup {"none"}]
  /\ error \in Node \cup {NoNode, CycleError}
  /\ success \in BOOLEAN
  /\ failedNodes \subseteq Node /\ skippedNodes \subseteq Node
  /\ failureCause \in [Node -> Node \cup {NoNode}]
  /\ deadEdges \subseteq Node \X Node
  /\ routedAway \subseteq Node

TaskTypeOK ==
  /\ inFlight \subseteq Node
  /\ task \in [Node -> {"idle", "spawned", "running", "reported", "sent"}]
  /\ view \in [Node -> [Node -> Output]]
  /\ outcome \in [Node -> Outcome]
  /\ startedEvents \in [Node -> Nat]
  /\ finishedEvents \in [Node -> Nat]

(* Every variable keeps the shape of the Go value it stands for.           *)
TypeOK == LoopTypeOK /\ StateTypeOK /\ TaskTypeOK

(* A node's goroutine exists only once each of its predecessors has a      *)
(* result: startReadyOnSuccessNodes, runAlwaysPhase and                    *)
(* resolveBlockedAlwaysNodes start nothing earlier.                        *)
StartsAfterPredecessors ==
  \A n \in inFlight : Predecessors(flow, n) \subseteq Settled

(* When the execution returns, every node of an acyclic flow has a result, *)
(* no goroutine is left, and the error is never the "cycle detected" one.  *)
NothingStranded ==
  phase = "done" =>
    /\ Settled = Node /\ pending = {}
    /\ error # CycleError
    /\ \A n \in Node : task[n] = "idle"

(* A step leaves the results of settled nodes alone and starts none again. *)
KeepsSettled ==
  \A n \in Settled : /\ results'[n] = results[n]
                     /\ reason'[n] = reason[n]
                     /\ allOutputs'[n] = allOutputs[n]
                     /\ failureCause'[n] = failureCause[n]
                     /\ n \notin inFlight'

(* A node's result, its published outputs and its failure cause are        *)
(* written once: no later step runs, skips or overwrites a settled node.   *)
ResultsAreFinal == [][KeepsSettled]_vars

(* In a flow without a cycle, what depends on a failed node through        *)
(* on_success nodes never runs; when it is settled it is skipped, and the  *)
(* cause it carries is a failed node it depends on.                        *)
FailureSkipsDependents ==
  Acyclic(flow) => \A m \in failedNodes : \A n \in Dependents(flow, m) :
    /\ n \notin inFlight \cup Ran
    /\ n \in Settled =>
         /\ failureCause[n] \in failedNodes
         /\ n \in Dependents(flow, failureCause[n])

(* The verdict taken when a node became ready is the one its predecessors' *)
(* final states give, whatever finished in the meantime: a node that was   *)
(* started is not blocked, dead or routed away, and a skipped one is.      *)
VerdictsAreStable ==
  \A n \in Node :
    LET on == flow.runWhen[n] = OnSuccess
        excluded == \/ upstreamFailure(n) \/ isFullyDead(n)
                    \/ inputsReferenceSkippedNode(n)
    IN /\ n \in inFlight \cup Ran =>
            IF on THEN ~excluded ELSE ~isRoutedAway(n)
       /\ n \in skippedNodes =>
            IF on THEN excluded
            ELSE isRoutedAway(n) \/ collectMissingInputs(flow, n, view[n]) # {}

(* The snapshot a running node holds has the final outputs of every node   *)
(* upstream of it, so what it reads from them does not depend on timing.   *)
ViewCoversUpstream ==
  \A n \in inFlight : \A p \in Upstream(flow, n) : view[n][p] = allOutputs[p]

(* Observers see a node start only after each predecessor's NodeFinished,  *)
(* except for an on_success predecessor whose inputs were rejected, which  *)
(* reports nothing.                                                        *)
Silent(n) == results[n] = "nil" /\ startedEvents[n] = 0

EventsFollowEdges ==
  \A n \in Node : startedEvents[n] > 0 =>
    \A p \in Predecessors(flow, n) : finishedEvents[p] = 1 \/ Silent(p)

(* When the execution returns, observers have seen exactly one             *)
(* NodeFinished per node (none for a rejected on_success node), and a      *)
(* NodeStarted exactly for the nodes that executed.                        *)
EventsComplete ==
  phase = "done" => \A n \in Node :
    /\ finishedEvents[n] = (IF Silent(n) THEN 0 ELSE 1)
    /\ startedEvents[n] = (IF n \in Ran /\ ~Silent(n) THEN 1 ELSE 0)

(* Success is reported exactly when no node failed, and the error is that  *)
(* of a node that failed.                                                  *)
SuccessMeansNoFailure ==
  phase = "done" => /\ success <=> failedNodes = {}
                    /\ error # NoNode => error \in failedNodes

(* A flow with a cycle is never reported as successful: however the always *)
(* nodes on the cycle are unblocked, some node keeps an entry in           *)
(* remainingInputs, or a node failed.                                      *)
CyclesNeverSucceed == (phase = "done" /\ ~Acyclic(flow)) => ~success

(* Every execution returns, whatever the nodes' outcomes.                  *)
Termination == <>(phase = "done")

(* The scheduler implements the abstract executor on acyclic flows.        *)
Executor == INSTANCE DagExecutor WITH
  preds    <- [n \in Node |-> Predecessors(flow, n)],
  cleanup  <- {n \in Node : flow.runWhen[n] = Always},
  status   <- [n \in Node |-> IF n \notin pending THEN "settled"
                             ELSE IF n \in inFlight THEN "running"
                             ELSE "waiting"],
  returned <- (phase = "done")

(* The edges into n whose source still has an entry in remainingInputs:    *)
(* what remaining[n] counts.                                               *)
OpenEdges(f, P, n) == {i \in EdgesInto(f, n) : f.edges[i][1] \in P}

(* remainingInputs holds exactly the unsettled nodes and counts their open *)
(* edges; what is running or about to be decided has no pending            *)
(* predecessor, and nothing settled has one.                               *)
CountInv ==
  /\ pending = Node \ Settled
  /\ \A n \in pending : remaining[n] = Cardinality(OpenEdges(flow, pending, n))
  /\ \A n \in (Node \ pending) \cup inFlight \cup todo :
        Predecessors(flow, n) \cap pending = {}
  /\ inFlight \cup todo \subseteq pending /\ inFlight \cap todo = {}
  /\ \A n \in Node : n \in inFlight <=> task[n] # "idle"

(* The loop loses no ready node: when it is about to block or to change    *)
(* phase, every ready node of the phase has been started or skipped.       *)
LoopInv ==
  /\ pc = "pass" => skippedInPass \/ ready(OnSuccess) \subseteq todo
  /\ pc = "routed" => skippedInPass \/ ready(OnSuccess) = {}
  /\ pc = "startAlways" => ready(OnSuccess) = {} /\ ready(Always) \subseteq todo
  /\ pc = "select" => /\ ready(OnSuccess) = {}
                      /\ phase = Always => ready(Always) = {}
  /\ pc \in {"scan", "select", "done"} => todo = {}
  /\ pc \in {"routed", "startAlways"} => phase = Always
  /\ pc \notin {"blockedSkip", "blockedRun"} /\ toRun = {}
  /\ pc = "done" <=> phase = "done"

(* Cleanup nodes come after the main part of the flow, and the execution   *)
(* returns with nothing pending.                                           *)
PhaseInv ==
  /\ phase = OnSuccess =>
       \A n \in inFlight \cup todo : flow.runWhen[n] = OnSuccess
  /\ phase # OnSuccess =>
       \A M \in SUBSET Node : Executor!MainPart(M) => M \cap pending = {}
  /\ phase = "done" => pending = {}
  /\ error # CycleError

(* The inductive invariant of the scheduler on acyclic flows.              *)
SchedulerInv == CountInv /\ LoopInv /\ PhaseInv

(* Every step of the engine is a step the executor allows or leaves its    *)
(* state alone.                                                            *)
ExecutorOrder == Executor!Safety
=============================================================================
