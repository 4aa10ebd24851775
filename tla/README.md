# Verification of echopoint-runner

TLA+ models of the parts of echopoint-runner in which order, concurrency and
failure matter, the TLC runs that check them on small instances, and TLAPS proofs
of the main guarantees of each part for every value of the constants.

## The system

A *flow* is a directed graph of test steps (HTTP requests, waits, branches, loops,
modules). The live code executes it in three layers:

| Layer | Code | State | Operations |
| --- | --- | --- | --- |
| Runner runtime | `internal/runtime/runtime.go` | slot channel, `active` and `rejected` jobs, worker group | claim a job, run it in a worker, renew leases, cancel a rejected job, complete, shut down |
| Event reporter | `internal/runtime/event_reporter.go` | sequence counter, pending queue and its size, flush lock, ticker | enqueue, flush (worker and ticker), put back, close |
| Flow engine | `pkg/engine/execution.go`, `skipped.go`, `engine.go` | open-edge counters, outputs, failures, skips, dead edges, running nodes | start, skip or receive a node, run the cleanup phase, finish |
| Request and SSE nodes | `pkg/node/request_*.go`, `sse_node.go`, `response_*.go` | response budget and reservations, stream state | prepare, send, read, assess, release |
| HTTP calls | `pkg/httpcall`, `pkg/node/http_calls.go` | pacing instant and gate, call records, call limit | wait, reserve, record |
| Webhook wait | `pkg/node/webhook_*.go` | listener: first sightings, settle window, outcomes | poll, assign, judge, time out |
| Nested flows | `pkg/node/module_node.go`, `loop_node.go`, `poll_node.go`, `pkg/engine/module_cycle_validation.go` | call stack, iteration and attempt counts | validate the module graph, call the engine, collect, retry |
| Redaction | `pkg/redact`, `pkg/runner/runner.go` | learned values, withheld outputs, masked results | learn, withhold, mask |
| Flow files | `pkg/flowdsl` | parsed graphs, visit states and stack, diagnostics | parse, resolve, lint, lower, fill, decompile |

The runtime's worker parses the definition and calls the engine through
`pkg/runner`; the engine starts one goroutine per ready node and hands it a copy of
the outputs; nodes that hold a flow of their own (module, loop, poll) call the
engine again. Observer events go from the engine (serialised by
`synchronizedObserver`) through the redactor to the event reporter, which sends
them to the control plane. The heartbeat loop acts on a running job only through
its cancel function and the `rejected` set.

### What is hard

* Nodes finish in any order, and a skip, a failure or a branch's decision changes
  what other nodes are allowed to do. A pass that misses one node strands the run.
* Cleanup (`always`) nodes run after failures, may reference nodes that never ran,
  and may sit above ordinary nodes.
* The reporter has two flushers and a producer, and its requests fail, arrive late
  or are accepted in part.
* A lease can be rejected at any point of a job's life, and a shutdown can happen at
  any point of all of them.
* Response bodies are read while other nodes hold what is left of the memory budget.
* A wait, a poll and a request each have a deadline that can fall between any two of
  their steps.
* Secrets become known while events about other nodes are being written.
* Modules are resolved across files, bodies and stored flows, and the same references
  are followed again at run time.

The list of hazards, each at its line, is in `PROJECT.json`.

## Modules

| Module | Models | Composes |
| --- | --- | --- |
| `DagExecutor` | abstract: what an executor of a dependency graph promises | |
| `FlowEngine` | the scheduler, the node goroutines and the events they emit | refines `DagExecutor` |
| `MCFlowEngine` | sets of flow definitions for the runs | `FlowEngine` |
| `FlowEngineProofs` | type correctness and cyclic flows; the order in which nodes run and the refinement of `DagExecutor`; what nodes and observers see and an execution reports | `FlowEngine` |
| `EventReporter`, `MCEventReporter` | one job's reporter, its worker and ticker, the network | |
| `Runtime`, `MCRuntime` | claim loop, workers, heartbeat loop, shutdown | |
| `HttpNodes`, `MCHttpNodes` | request and SSE nodes with what they share: budget, pacer, call limit; retry and timeout middleware | composes nodes, `httpcall` and the response budget |
| `WebhookWait`, `MCWebhookWait` | one webhook wait and the control plane that captures requests | |
| `NestedFlows`, `MCNestedFlows` | executions inside executions: module, loop and poll nodes, the module executor and module graph validation | |
| `Redaction`, `MCRedaction` | the redactor under concurrent nodes, the events and the flow result | |
| `FlowDsl`, `MCFlowDsl` | the flow-file compiler and decompiler | |
| `EventReporterProofs`, `RuntimeProofs`, `HttpNodesProofs`, `WebhookWaitProofs`, `NestedFlowsProofs`, `RedactionProofs` | the theorems about each component | the component |
| `FoldLemmas` | loops over sequences and sums over sets, for the proofs | |

### FlowEngine

One scheduler goroutine owns the state; `pc` says where it is in
`startReadyOnSuccessNodes`, `runAlwaysPhase` or `resolveBlockedAlwaysNodes`, and
`todo` holds what is left of the list it iterates. Each decision for one node is one
action (`SkipReady`, `StartReady`, `SkipRoutedAway`, `StartAlways`, `SkipBlocked`,
`StartBlocked`), and each result is committed by one `Receive`. Between any two of
them the goroutines take their steps: `RejectInputs` or `NodeStarted`, then
`NodeFinished`, then `SendDone`.

`pending` and `remaining` are the keys and values of the map `remainingInputs`; as in
Go, decrementing a deleted key creates it again. A node is its position in
`flow.Nodes`, which is the order in which ready nodes are looked at. An output is
reduced to what an input reference can see of it: nothing, an entry without the
referenced path, or an entry with it. `Execute`, the middleware around it, assertions
and output extraction are one choice among all outcomes: success with either kind of
outputs, or failure with or without a result. A branch chooses one successor or none
and does not fail. A cleanup node that is skipped for missing inputs comes back from its
goroutine as a result without an error: a branch among them makes a routing decision
without a target (`recordAlwaysResults`), and all its edges die.

Left out: messages, durations, logging, `executedCount` (only logged), and the
parsing of references. Flow inputs appear in `flow.input`, because a reference to a
node's name may resolve to a flow input of that name instead.

### EventReporter

The worker's part of `executeClaimedJob` and the ticker goroutine share the queue.
Whoever holds `flushMu` goes through drain, send and answer; the worker can enqueue
between any two of these. A failed request goes to `late` and may be applied by the
control plane at any later time, or never; this covers lost requests, lost answers
and timeouts. The control plane accepts any prefix of a batch that leaves no gap.

### Runtime

Claims are numbered, so that two workers for the same job can be told apart. The two
halves of `cancelOnRejection`, the check and the sending of a completion, and the
deferred `removeActiveJob` and `releaseSlot` are separate steps; the heartbeat loop's
snapshot, the control plane's answer and its application, one job at a time, are
too. When `Run` has returned the process exits and no goroutine moves any more.

### HttpNodes

Each node is a goroutine that prepares its request, waits for the pacer, is counted
against the limit, sends, follows redirects, and reads the body under the budget. A
body is its length in units; `read` is what is kept of it, `held` the reservation,
`grant` what the semaphore handed to a waiter that has not run yet. The semaphore is
external: it serves its waiters in order, and a waiter that gives up returns what it
was handed. Reads grow the reservation in the two steps of the code, first read and
then the rest, so that a node really waits while it holds. `Retry` starts a failed
node again, `Timeout` ends an attempt's context and `Cancel` the whole execution's, at
any point. Time is what has passed since the last start, capped at the interval: the
pacer reads nothing else.

### WebhookWait

A request is the set of groups it satisfies, those it satisfies in part, and whether
it passes the checks on every event. `assignRequests` is the code's pass over the
list; `Feasible`, the property's reference, asks only whether some assignment exists.
The listener's memory is a variable each, a fetch lists what is captured at that
moment, fails, or fails for good, and a tick may pass between any two steps. The context
of the wait is derived from that of the node, so `CtxDone` is the wait's own timeout or
`cancelled`: the run was cancelled, the timeout middleware's deadline or an enclosing poll's
passed. The code does not tell them apart, and neither does the model. `Overrun` bounds the
ticks that may pass after the timeout. It is 0 in the run, where the steps a wait still takes
after its timeout happen at that instant; the theorems hold for every value.

### NestedFlows

The state is the stack of `ExecuteFlowDefinition` calls of one chain. Inside a frame
nodes run one after the other and the first failure ends the flow, since the order
within a flow is the subject of `FlowEngine`. Loops and polls push their node id with
`#iter` or `#poll`, modules the flow id, as in the code. The definition inside a loop or a
poll is named by a key of the job's table of bodies, so that a definition is a plain
record and the walk of `validateModuleGraph` a recursive function over call chains. A poll's timeout may pass at
any time and marks its frame; every context below it is then done.

### Redaction

A value has a length, a JSON type and the values its text contains; a report is a set
of places that carry a value: outputs, inputs and a module's child outputs under their
reference, the body, the compared values of assertions, other detail, and the error
message. A place shows the value, the mask, a fragment, or nothing. Learning, loading the
snapshot and sending the event are separate steps of each node.

A node ends in one of five ways (`failed`). One that fails in an assertion or in the
validation of its outputs keeps the outputs its response yields, which cleanup nodes may
read and the flow's outputs include; one that fails otherwise has none; a module fails with
its flow and repeats its error, or because its flow did not produce what an output is bound
to. `message` names the outputs whose values the error text carries: for an assertion what
it compared, from the response or from what the node read; for other errors what the
request was made of; for a module the text of the child's error. The flow's own error is
that of one of its failed nodes. The message stays in the report of a sealed node, and is
masked as text wherever it is.

What the redactor promises therefore has two exceptions, which `Hidden` states: a withheld
value, which is not masked by value, in an error message, and a learned number that `fmt`
wrote in exponent form there. Both are among the disagreements below.

Abstractions: a failed assertion's text carries every value it may have compared, and the
available outputs of a failed node are all of its outputs, which are the cases with most to
hide. A node that fails before it has a response has nothing of its own to hide and is not
modelled apart from one that fails with it. A module that fails before its flow starts is an error whose flow reported
nothing. An output bound to an output is followed one level. Secret inputs are text
(`SetupAssumption`), which leaves out a number that is equal in text to one: the redactor
masks strings, so such a number stays.

### FlowDsl

The file parser, the linter, lowering and decompilation are operators; resolution is a
state machine over `stack`, one frame per file or body, as `visit` recurses. A text is
a name of which only its class matters to the compiler (a numeral, a text with spaces,
a path without `$`), a template is the output it refers to, a diagnostic what it is
about. The yaml encoder writes a scalar plain unless `quoteString` asks for quotes.
Description and tags pass through unchanged and are left out, and so is the trimming
of ids and paths. Stored flows are ones the parser's rules accept: an assert without a
check, a zero delay or timeout and a branch without a case decompile to files that do
not compile. An empty module output binding is left out too: the linter accepts
references to it while lowering drops it. An empty request method is written back as it
is, the other empty texts are dropped.

`RoundTrip` compares a stored flow with its compiled file up to what
`roundtrip_test.go` normalises before it compares: empty pairs, the outputs of a set node,
the order of edges, an empty value of an operator that takes none, and the type of a text
operator's value, which the runner compares as text. The types of `between` bounds, of
ordering values and of branch cases are compared too. A flow file has no types there: a
numeral bound is read as a number, everything else as text. `RoundTrip` says that compiling
the file gives the stored flow with these types (`FileTyped`), so it is the same flow when
the stored one has them, and differs in nothing else when it has not: one of the
disagreements below.

## Runs

| Run | Instance | Shows |
| --- | --- | --- |
| `engine_small` | all acyclic edge lists of three nodes up to renaming (a duplicate edge and a reverse chain among them), every choice of always nodes, branches and one reference | order, snapshots, skips, events and success (below), the inductive invariant used by the proofs, and the steps of the abstract executor |
| `engine_shapes` | four-node diamonds with branches, create-test-delete chains, a failure meeting a branch, one cleanup of two cases; cycles of one, two and three nodes entered from a fourth, with always nodes on them | every execution returns; a failure skips its dependents; a cycle is never a success |
| `reporter` | 3 events of sizes 1, 4, 5 against batches of 2 events and 4 bytes, 2 attempts | the event stream stays whole, the size account right, requests within limits, and the worker gets through to the end |
| `runtime` | 2 jobs, 2 slots, 2 claims (of two jobs, or of one handed out twice), 2 completion attempts | slots, renewals, rejection and draining |
| `runtime_live` | 1 job, handed out up to 2 times, 2 slots | workers end, shutdown returns |
| `runtime_heartbeat` | as `runtime`, with a grace period | a disagreement, below |
| `http_nodes` | two requests, a request beside a stream, or one node with a retry and a redirect; bodies of 0, 2 and 3 units against a limit of 2 and a budget of 4 at weight 2; 2 calls | memory, call counts, spacing, and that every node ends |
| `webhook` | two overlapping groups, maxima, forbidden events, settle windows shorter than and equal to the timeout, invalid data; up to 3 requests; cancelled at any point | a pass is justified, credits are kept, the wait ends |
| `nested` | modules of modules, cycles direct and through bodies, loops in polls, polls in loops and in polls, and each definition that fails | nesting is bounded, a late body decides nothing, the execution returns |
| `nested_cycle` | a loop whose module has a loop of the same id | a disagreement, below |
| `redaction` | two secret outputs, a reader, a bystander that echoes one, a module bound to a secret output, a cleanup node; each may fail in every way; values below the learned length, contained in one another, and numbers of six and of eight digits; 2 of them fit the limit | events and result hide secrets, with two exceptions |
| `flow_dsl` | every way three files use one another, at the top or in bodies, compiled whole or for one file; one file for each problem; one stored flow for each kind, and for each type a check's value can have | cycles are reported, bindings lead to outputs, decompiling and compiling gives the flow back |

Three nodes are enough for a join, a fork, a chain and every mix of phases on them;
what needs two paths of different length to meet is in the four-node shapes. Three
events with batches of two make a partly accepted batch meet a queue that grows while
it is in flight. Two claims are two concurrent workers, of one job or of two. Two
request nodes whose bodies need the whole budget each are enough to wait for one
another; a limit of two calls is reached by a retry with a redirect. Three requests
fill two groups and leave one to break or to settle them. Three files are enough for
a binding inferred through an inferred one and for a cycle that the compiled file
only leads to.

The properties of the engine: a node starts after its predecessors
(`StartsAfterPredecessors`); a returned run has settled everything
(`NothingStranded`); results are written once (`ResultsAreFinal`); a failure skips
exactly what depends on it and names a cause it depends on
(`FailureSkipsDependents`); the verdict on a node does not depend on when it was taken
(`VerdictsAreStable`); a snapshot has every upstream output (`ViewCoversUpstream`);
events respect the edges and are complete (`EventsFollowEdges`, `EventsComplete`).

The properties of the other parts:

* `MemoryBounded`: body bytes kept fit the budget, or one node alone keeps any (a body
  larger than the budget reserves all of it); nothing stays reserved after an attempt.
  `CallsAccounted`: what the limit counted is in a node's report or in flight, once.
  `StartsSpaced`: two starts are an interval apart, whoever gave up in between.
* `PassIsJustified`: a wait that passed has an assignment of requests to groups within
  every minimum and maximum, and was judged after its window; without a window it needs
  no event and its context is done. `CreditsAreKept`: what a
  poll credited to a group stays there, though every poll assigns from the start.
* `NestingBounded`: no deeper than there are ids of flows and bodies, though module
  cycles through bodies are invisible before the run. (A loop and a poll may share a node
  id and still nest in each other: it is the id with `#iter` or `#poll` that counts.) `DeadlineDiscards`: a poll whose time
  is over does not succeed with the body it was running.
* `EventsHideSecrets`, `ResultHidesSecrets`: a secret output is masked under its name,
  in its own node's report except in the error message, and everywhere once it is learned
  by value except as a number in exponent form; the flow result, its error included, masks
  results again that were reported before.
* `CyclesReported`, `OutputsTrace`, `RoundTrip`: each against a reading of the files
  that does not use the compiler's resolution.

### Where the code and its documentation disagree

Two of these end in a counterexample of a run; `PROJECT.json` quotes the sentence.

| Run | What happens |
| --- | --- |
| `nested_cycle` | `ExecuteModule` compares node ids of loops and polls (`l#iter`) as if they were flow ids: a module with a loop of the same id as the loop that calls it is refused as a module cycle |
| `runtime_heartbeat` | heartbeats stop at a shutdown while claimed jobs still run |

The models also have the following behaviours, which the text beside the code excludes:

| Code | Text | What the model does |
| --- | --- | --- |
| `pkg/engine/skipped.go:118` | `docs/parallel-execution-model.md:76-77` "Every on_success node downstream of the failed node is skipped with `dependency_failed`" | a join below both a failed step and a branch that routed away carries `routed_away_by_branch` |
| `pkg/engine/execution.go:855` | `execution.go:848-850` "every one of their predecessors finished (ran, failed, or was skipped)" | an always node on a cycle starts before its predecessor finished |
| `pkg/engine/execution.go:269` | `docs/parallel-execution-model.md:86-87` "skips the others with the reason that names the missing producer" | a cleanup node that missed an input is explained with outputs that arrived later, and its reason names no producer |
| `internal/runtime/event_reporter.go:236` | `event_reporter.go:190` "Flush sends every pending event in batches the control plane accepts" | a flush whose batch was accepted in part returns no error and leaves events pending |
| `internal/runtime/runtime.go:297` | `docs/technical/architecture.md:7` "A rejected Job sends no completion." | a rejection applied after the check does not stop the completion |
| `pkg/node/webhook_expectations.go:94` | `webhook_expectations.go:171-173` "When no group needs an event and there is no settle window, it listens until the timeout." | a wait that needs no event passes before its timeout when the run is cancelled or a deadline around the node passes |
| `pkg/redact/redact.go:425` | `redact.go:73-74` "Their reports keep only the fields that cannot carry it." | the error message of a sealed node is kept, and that of a failed assertion has the expected and the actual value (`pkg/node/assertion_eval.go:49-52`), which are masked by value only |
| `pkg/node/assertion_eval.go:50` | `pkg/redact/redact_test.go:539-540` "fmt writes a float64 of seven or more digits in exponent form, which no report contains" | a failed assertion's message has the number in that form, and masking looks for the form JSON writes |
| `pkg/flowdsl/decompile.go:546` | `decompile.go:28-29` "Compiling that file produces the same create request the API would accept for this flow."; `roundtrip_test.go:598-600` "the one bool in the library is the only value whose JSON type changes" | a stored text bound `"5"` comes back as the number 5, a number given to an ordering operator or in a branch case as text |
| `pkg/node/webhook_expectations.go:284` | `docs/technical/webhook-wait.md:16` "passes only if no forbidden event arrived in that window" | a forbidden event captured after the last poll is not seen before the wait passes |

## Fairness

* Engine: the scheduler's goroutine and each node's keep running (weak fairness). A
  node's own wait is bounded by its timeouts, so its execution ends.
* Reporter: a request ends by its timeout; `sync.Mutex` hands itself to a starving
  waiter, and Go's `select` picks at random among ready channels, so taking the lock
  and seeing the stop channel are strongly fair. No answer is ever assumed.
* Runtime: goroutines keep running, requests and runs end; the heartbeat loop's
  `select` does not pass over the cancelled context for ever. Neither a shutdown nor
  the end of a lease nor a successful answer is assumed.
* HTTP nodes: goroutines run, time passes, deadlines come, and an exchange whose context
  is done fails, as `net/http` promises. No answer is assumed, and no grant of memory.
* Webhook wait and nested flows: the node's goroutine runs and its calls return (a fetch
  carries the wait's context; a node without a body ends by its own timeouts). No
  cancellation is assumed.

## Proofs

The theorems hold for every value of the constants that satisfies the named
assumptions of the modules. Each safety property follows from an inductive invariant,
which TLC checked on the instances of the runs before it was proved.

| Module | Theorems | Inductive invariant |
| --- | --- | --- |
| `FlowEngineProofs`, part 1 | `TypeCorrect`, `CyclesSafe` | `TypeOK`, `CycleInv` |
| part 2 | `SchedulerCorrect`, `PredecessorsFirst`, `NothingLeftBehind`, `SettledOnce`, `EngineImplementsExecutor` | `SchedulerInv` |
| part 3 | `ExecutionCorrect`, `ViewsSafe`, `EventOrderSafe`, `EventsCompleteSafe`, `SuccessSafe`, `FailureSafe`, `VerdictsSafe` | `ExecutionInv`, `VerdictInv` |
| `EventReporterProofs` | `ReporterCorrect`, `TypesSafe`, `EventsSafe`, `BytesSafe`, `BatchesSafe` | `ReporterInv` |
| `RuntimeProofs` | `RuntimeCorrect`, `SlotsSafe`, `RenewedUntilDecided`, `RejectionSafe`, `DrainsSafe` | `RuntimeInv` |
| `HttpNodesProofs` | `HttpCorrect`, `StartsSafe`, `CallsSafe`, `MemorySafe` | `HttpInv` |
| `WebhookWaitProofs` | `WaitCorrect`, `PassSafe`, `CreditsSafe` | `WaitInv` |
| `NestedFlowsProofs` | `StackCorrect`, `NestingSafe`, `DeadlineSafe` | `StackInv` |
| `RedactionProofs` | `RedactionCorrect`, `SecretEventsSafe`, `SecretResultSafe` | `RedactionInv` |
| `FoldLemmas` | lemmas about folds and sums | |

### The flow engine

`TypeCorrect` and `CyclesSafe` hold for all flows. The others assume that the flows are
acyclic (`AcyclicFlows`), which the code does not check before it runs one:
`PredecessorsFirst` is false without it, because an always node on a cycle is started
while its predecessor is pending.

`SchedulerInv` has three parts:

* `CountInv` relates the counters to the graph: `remainingInputs` has exactly the
  unsettled nodes, each with the number of its edges from unsettled nodes, and nothing
  that is settled, running or about to be decided has an unsettled predecessor.
  Without the last part a zero counter would say nothing about nodes already taken
  from the ready list.
* `LoopInv` says that the loop loses no ready node: whenever it is about to block, the
  ready nodes of the phase have all been started or skipped. This is what makes an idle
  scheduler mean that nothing is left, by acyclicity: among pending nodes one has no
  pending predecessor, hence a zero counter, hence is ready.
* `PhaseInv` says that in the cleanup phase no main-part node is pending.

From it follow `PredecessorsFirst`, `NothingLeftBehind`, `SettledOnce` and
`EngineImplementsExecutor`: every step of the engine is a step of `DagExecutor` or
leaves its state unchanged.

`ExecutionInv` adds what is recorded about each node: the events its goroutine sent by
the stage it is in (`EventInv`), its result and its membership in the failed, skipped and
settled sets (`ResultInv`, `ListInv`), the cause of a skip (`CauseInv`) and
`ViewCoversUpstream`. The argument is the same throughout: a node is decided on when its
predecessors are settled, and no step writes anything about a settled node (`StepWrites`),
so the facts a decision used are still there afterwards.

`VerdictsSafe` also needs `RefsAreUpstream`: a reference of an on_success node leads
upstream, or to a flow input whose name is not that of a cleanup node with references.
Without it TLC refutes `VerdictsAreStable`: `settleAlwaysSkip` gives a cleanup node that is
skipped empty outputs, and from then on they hide the flow input of the same name from a
node that was already started with it. The flows of both engine runs satisfy the two
hypotheses.

`CyclesSafe` needs no hypothesis. A cycle through several nodes contains a smallest set in
which each node has a predecessor in the set (`Ring`); a step that takes one of them out of
`remainingInputs` makes the decrement re-enter the next one, so the map is never empty and
the execution ends with the cycle error. If every cycle is an edge from a node to itself,
take one whose other predecessors are reached without a cycle (`Stuck`): its count stays
above zero, and `resolveBlockedAlwaysNodes` passes it over because it waits for itself.

### The reporter

`NoEventLost` is inductive together with the stages of the flush that holds `flushMu`:
between the drain and the put-back the batch is neither queued nor accepted, and the answer
it is compared with is not ahead of what the control plane accepted. The loops over the
batch are folds, so what they compute for every length is proved in `FoldLemmas`.

### The runtime

`SlotsAreAccounted`, `ActiveUntilDecided` and `RejectionStopsRun` rest on which claims there
are (`ClaimInv`), on what `active`, `rejected` and an outstanding heartbeat may name
(`JobInv`) and on what the claim loop may still do while `Run` drains (`DrainInv`).

### The HTTP nodes

`PaceInv`, `CallInv` and `MemoryInv` are inductive one by one, given the types. A step
changes a sum over the nodes by what one node changes; `notifyWaiters` serves several nodes
in one step, and `SettleKeeps` shows that what it hands out adds up to what it counts. The
queue of waiters names each node once and only nodes that wait, which is what lets a waiter
give up without leaving tokens behind.

### The webhook wait

Every poll assigns the whole list anew, so nothing in the code remembers which request was
credited where. The assignment depends only on the part of the list it has seen
(`Assigns`), the list of a poll begins with that of the poll before (`ListInv`), and so the
claims of the longer list extend those of the shorter (`ClaimsExtend`): that is
`CreditsSafe`. `CreditInv` says that the outcomes the listener holds are the judgement of
such an assignment; between a fetch and its judgement they are still those of the earlier,
shorter list, which is why it speaks of a prefix. `PassInv` and `WindowInv` add when a wait
may pass: judged at or after the end of the settle window, or, if it needs no event, with a
context that is done; a context that is done stays so, whether the time or a cancellation
ended it. From an assignment in which every group passed, `PassSafe` builds the witness of
`PassIsJustified`; each request is in the claims of one group only (`Sound`).
`SetupAssumption` gives the groups their types and leaves the bounds free, contradictory
ones included.

### Nested flows

`StackInv` says that the ids of the executions below the first are pairwise distinct and
belong to the job. `ExecuteModule` compares the id it pushes with exactly these; the first
execution has no id on the call stack, hence the one more in `NestingBounded`. The ids are
finitely many because a job has finitely many flows and bodies (`SetupAssumption`), and an
injection of the stack into them bounds its depth. The proof showed that counting flows and
bodies by node id alone is wrong, and the bound and the instances were corrected.

Each step does one of five things to the stack (`StepShape`), and only one of them moves
the innermost execution on to its next node; for a poll this needs a context that is alive.
`DeadlineSafe` follows for polls at every depth: the outer ones are not moved at all.

### Redaction

Masks only grow (`StepGrows`), but that does not make a report safe: the value could be
shown in an event and learned afterwards. `RedactionInv` therefore says of each secret
output already dealt with that it is masked by value, or that it is masked by name and can
never be learned any more, being too short or past the limit (`Unlearnable`). With
`OrderInv`, that a node runs after everything it reads from was dealt with, the snapshot a
node loads hides all it reports (`StateHides`). `MessageInv` says that an error text only
carries outputs the node produced itself, outputs that were available to it and values it
echoes, so that the order applies to messages, a module's repeated one included, as to the
rest. `CacheInv` says that a cached result with
the current snapshot's number is what this snapshot would show, so reuse is harmless.

The setups are assumed to have secret inputs that are text (`SetupAssumption`): a JSON
number that is equal in text to a secret input counts as known and is not learned, while
numbers are compared with learned values only.

### Technique

The provers have no induction over data. Where a sum or a loop over a sequence is needed
for every length, the lemma is stated with a function whose values satisfy the recursion,
and the claim is proved by its least counterexample, with `WFMin` of the well-founded
induction library or the finite-set theorems. A run whose module extends the module with an
`ASSUME` evaluates it on the instance.

### Only model-checked

* `Termination`, `Closes`, `ShutdownReturns`, `WorkersEnd`, `NodesEnd`, `WaitEnds` and
  `NestedEnds`: liveness is out of the prover's reach.
* `CyclesReported`, `OutputsTrace` and `RoundTrip` of `FlowDsl`. Files and stored flows
  nest to any depth, and parsing, lowering and decompilation follow that nesting with
  recursive operators. What they compute for every file is an induction over the data,
  which the prover does not have, and a module with recursive operators loses its SMT
  backend.
* What `validateModuleGraph` finds. `StackInv` does not depend on it: the check at each
  call alone bounds the nesting.
* The properties of the two runs that expect a violation, which the code refutes.

## Status

All planned modules are written: `FlowEngine` with `DagExecutor`, `EventReporter`,
`Runtime`, `HttpNodes`, `WebhookWait`, `NestedFlows`, `Redaction` and `FlowDsl`. Every
safety property of a passing run outside `FlowDsl` is also a theorem.

## Not modelled

* Templates, dynamic variables, extractors, operators and the wire types are pure
  conversions; the models have their outcomes.
* Reference validation of a definition (`pkg/flow/validation.go`) is a check without
  state; the instances contain the flows it accepts.
* `RunOne`, the one-shot and the ephemeral run are the worker's steps and a heartbeat loop
  of their own, without a claim loop or slots.
* The grouping of recorded calls for the report, request error classification, logging,
  configuration, the command line and the dialer's address policy.
* `pkg/core`, a rewrite that no live code uses.
