------------------------------ MODULE NestedFlows ------------------------------
(***************************************************************************)
(* Flows inside flows: module, loop and poll nodes (pkg/node) and the      *)
(* module executor and module graph validation of pkg/engine they run      *)
(* their bodies with.  The model is the stack of nested executions of one  *)
(* top-level node's chain of calls; a frame is one ExecuteFlowDefinition.  *)
(*                                                                         *)
(* Abstractions.  Inside a frame the nodes run one after the other and the *)
(* first failure ends the flow: the order the engine runs them in is       *)
(* FlowEngine's subject.  A final output is the id of the node that made   *)
(* it; inputs and templates are the outcome of resolving them.             *)
(***************************************************************************)
EXTENDS Integers, Sequences, SequencesExt, FiniteSetsExt, Relation

CONSTANTS Setups   \* a flow, the referenced flows of the job, and their bodies

(* A definition is [valid, nodes]: whether ParseFromJSONWithOptions        *)
(* accepts it, and its nodes.  The definition inside a loop or a poll node *)
(* is named by a key of bodies.                                            *)
Unresolved == -1   \* the items of a loop do not resolve
NoBody == ""
NoFlow == ""       \* a module without a flow_id

LeafData == [kind : {"leaf"}, id : STRING]   \* any node that runs no flow
ModuleData == [kind : {"module"}, id : STRING,
               flow : STRING,               \* flow_id, or NoFlow
               binds : BOOLEAN,             \* its inputs resolve
               exports : SUBSET STRING]     \* output_bindings
LoopData(keys) == [kind : {"loop"}, id : STRING, body : keys \cup {NoBody},
                   items : Nat \cup {Unresolved},
                   max : Nat,               \* 0: none
                   goOn : BOOLEAN]
PollData(keys) == [kind : {"poll"}, id : STRING, body : keys \cup {NoBody}, tries : Nat,
                   timeout : BOOLEAN,       \* it has one
                   condition : {"resolved", "unresolved", "none"}]
NodeData(keys) == LeafData \cup ModuleData \cup LoopData(keys) \cup PollData(keys)
Definition(keys) == [valid : BOOLEAN, nodes : Seq(NodeData(keys))]

ASSUME SetupAssumption ==
  \A s \in Setups :
    /\ s.root \in DOMAIN s.flows /\ NoFlow \notin DOMAIN s.flows
    /\ IsFiniteSet(DOMAIN s.flows) /\ IsFiniteSet(DOMAIN s.bodies)
    /\ \A id \in DOMAIN s.flows : s.flows[id] \in Definition(DOMAIN s.bodies)
    /\ \A key \in DOMAIN s.bodies : s.bodies[key] \in Definition(DOMAIN s.bodies)

VARIABLES
  setup,
  cancelled,  \* the context of the run is done
  stack,      \* the nested executions, outermost first
  ret,        \* what the execution that ended last returned
  ended       \* how the top-level flow ended

vars == <<setup, cancelled, stack, ret, ended>>

(* A frame: the flow id pushed for it, the nodes, which one runs, the      *)
(* final outputs, and of that node: the iterations or attempts begun, the  *)
(* results collected, whether its timeout passed, and what it waits for.   *)
Frame(id, flow) ==
  [id |-> id, nodes |-> flow.nodes, at |-> 1, outputs |-> {},
   count |-> 0, results |-> <<>>, late |-> FALSE, phase |-> "begin"]

NoReturn == [ok |-> FALSE, code |-> "none", outputs |-> {}]
Returned(code, outs) == [ok |-> code = "ok", code |-> code, outputs |-> outs]

Depth == Len(stack)
Top == stack[Depth]
Running == Top.nodes[Top.at]
(* ModuleCallStack: options.ModuleCallStack, empty for a run, then ids.    *)
CallStack == [d \in 1..Depth - 1 |-> stack[d + 1].id]

(* The contexts: a frame runs on its caller's, a body of a poll on the     *)
(* poll's, which ends with its timeout too.                                *)
CtxDone(d) == cancelled \/ \E e \in 1..d - 1 : stack[e].late
NodeCtxDone == CtxDone(Depth)
PollCtxDone == NodeCtxDone \/ Top.late

Init == /\ setup \in Setups /\ cancelled = FALSE
        /\ stack = <<[Frame(setup.root, setup.flows[setup.root]) EXCEPT !.phase = "start"]>>
        /\ ret = NoReturn /\ ended = "none"

---------------------------------------------------------------------------
(* validateModuleGraph: from a flow, depth first through its module nodes, *)
(* not through the bodies of loops and polls.  The first fault is returned. *)

IsModule(n) == n.kind = "module" /\ n.flow # NoFlow
NoResolver == DOMAIN setup.flows = {setup.root}

(* What referencing a flow from the chain of calls c finds, under[c] being *)
(* what its last call finds.                                               *)
Reference(flow, c, under) ==
  IF Contains(c, flow) THEN "cycle"                        \* detectModuleCycle
  ELSE IF flow \notin DOMAIN setup.flows THEN "missing"    \* resolveModuleFlow
  ELSE IF ~setup.flows[flow].valid THEN "parse" ELSE under[Append(c, flow)]

FirstFault(nodes, c, under) ==
  LET faults == {k \in DOMAIN nodes : /\ IsModule(nodes[k])
                                      /\ Reference(nodes[k].flow, c, under) # "none"}
  IN IF faults = {} THEN "none" ELSE Reference(nodes[Min(faults)].flow, c, under)

validateModuleReferences(nodes, calls) ==
  LET under[c \in Seq(STRING)] == FirstFault(setup.flows[Last(c)].nodes, c, under)
  IN FirstFault(nodes, calls, under)

validateModuleGraph(nodes, calls) ==
  IF NoResolver THEN "none" ELSE validateModuleReferences(nodes, calls)

(* ExecuteFlowDefinition of the flow of the job itself.                    *)
Start ==
  /\ Depth = 1 /\ Top.phase = "start"
  /\ IF validateModuleGraph(Top.nodes, <<>>) = "none" /\ Top.nodes # <<>>
     THEN stack' = <<[Top EXCEPT !.phase = "begin"]>> /\ UNCHANGED ended
     ELSE stack' = <<>> /\ ended' = "validation failed"
  /\ UNCHANGED <<setup, cancelled, ret>>

---------------------------------------------------------------------------
(* Ends of nodes and of flows.                                             *)

Replace(frame) == [stack EXCEPT ![Depth] = frame]

(* The node that runs succeeded: the next one runs, or the flow is done.   *)
NodeDone == stack' = Replace([Top EXCEPT !.at = @ + 1, !.outputs = @ \cup {Running.id},
                                         !.count = 0, !.results = <<>>, !.late = FALSE,
                                         !.phase = "begin"])

(* The node failed, and with it the flow; the caller sees the code.        *)
Leave(code, outs) ==
  /\ ret' = Returned(code, outs)
  /\ stack' = Front(stack)
  /\ ended' = IF Depth = 1 THEN code ELSE ended
NodeFails(code) == Leave(code, Top.outputs)

FlowDone ==
  /\ Depth > 0 /\ Top.at > Len(Top.nodes) /\ Top.phase = "begin"
  /\ Leave("ok", Top.outputs) /\ UNCHANGED <<setup, cancelled>>

On(kind, phase) == /\ Depth > 0 /\ Top.at <= Len(Top.nodes)
                   /\ Running.kind = kind /\ Top.phase = phase

Leaf ==
  /\ On("leaf", "begin")
  /\ \/ NodeDone /\ UNCHANGED <<ret, ended>>
     \/ NodeFails("node failed")
  /\ UNCHANGED <<setup, cancelled>>

---------------------------------------------------------------------------
(* ExecuteModule of the module executor, and the head of                   *)
(* ExecuteFlowDefinition: what it refuses, or the frame it starts.         *)

(* Mutant: only the flow that calls is compared with the one called.       *)
RefusesLast(id, flow) ==
  IF Depth > 1 /\ Last(CallStack) = id THEN "cycle"
  ELSE IF ~flow.valid THEN "parse" ELSE "none"

Refusal(id, flow) ==
  IF Contains(CallStack, id) THEN "cycle"
  ELSE IF ~flow.valid THEN "parse"
  ELSE LET fault == validateModuleGraph(flow.nodes, Append(CallStack, id))
       IN IF fault # "none" THEN fault ELSE IF flow.nodes = <<>> THEN "no nodes" ELSE "none"

(* A refused call returns at once, an accepted one pushes its frame; the   *)
(* node goes on when it has returned.                                      *)
ExecuteModule(id, flow, frame) ==
  LET waiting == [frame EXCEPT !.phase = "returned"]
      fault == Refusal(id, flow)
  IN IF fault = "none"
     THEN /\ stack' = Append(Replace([frame EXCEPT !.phase = "called"]), Frame(id, flow))
          /\ ret' = NoReturn
     ELSE stack' = Replace(waiting) /\ ret' = Returned(fault, {})

(* The call returned to the node that made it.                             *)
Return ==
  /\ Depth > 0 /\ Top.phase = "called" /\ ret # NoReturn
  /\ stack' = Replace([Top EXCEPT !.phase = "returned"])
  /\ UNCHANGED <<setup, cancelled, ret, ended>>

---------------------------------------------------------------------------
(* ModuleNode.Execute                                                      *)

ModuleCalls ==
  /\ On("module", "begin")
  /\ IF Running.flow \in DOMAIN setup.flows \ (IF NoResolver THEN {setup.root} ELSE {})
        /\ Running.binds
     THEN ExecuteModule(Running.flow, setup.flows[Running.flow], Top) /\ UNCHANGED ended
     ELSE NodeFails("module failed")
  /\ UNCHANGED <<setup, cancelled>>

ModuleReturns ==
  /\ On("module", "returned")
  /\ IF ret.ok /\ Running.exports \subseteq ret.outputs    \* exportOutputs
     THEN NodeDone /\ UNCHANGED <<ret, ended>>
     ELSE NodeFails(IF ret.ok THEN "module failed" ELSE ret.code)
  /\ UNCHANGED <<setup, cancelled>>

---------------------------------------------------------------------------
(* LoopNode.Execute                                                        *)

Iterations == IF Running.max > 0 THEN Min({Running.items, Running.max}) ELSE Running.items
BodyId(n) == n.id \o (IF n.kind = "loop" THEN "#iter" ELSE "#poll")

LoopIterates ==
  /\ On("loop", "begin")
  /\ IF Running.body = NoBody \/ Running.items = Unresolved THEN NodeFails("loop failed")
     ELSE IF Top.count = Iterations THEN NodeDone /\ UNCHANGED <<ret, ended>>
     ELSE IF NodeCtxDone THEN NodeFails("cancelled")
     ELSE ExecuteModule(BodyId(Running), setup.bodies[Running.body], [Top EXCEPT !.count = @ + 1]) /\ UNCHANGED ended
  /\ UNCHANGED <<setup, cancelled>>

LoopReturns ==
  /\ On("loop", "returned")
  /\ IF ret.ok \/ Running.goOn
     THEN /\ stack' = Replace([Top EXCEPT !.results = Append(@, ret.code), !.phase = "begin"])
          /\ UNCHANGED <<ret, ended>>
     ELSE NodeFails(ret.code)
  /\ UNCHANGED <<setup, cancelled>>

---------------------------------------------------------------------------
(* PollNode.Execute                                                        *)

(* Mutant: the attempts are counted anew after each sleep.                 *)
PollForgets ==
  /\ On("poll", "begin")
  /\ IF Running.body = NoBody \/ Running.condition # "resolved" THEN NodeFails("poll failed")
     ELSE IF PollCtxDone THEN NodeFails("cancelled")
     ELSE ExecuteModule(BodyId(Running), setup.bodies[Running.body], [Top EXCEPT !.count = 1]) /\ UNCHANGED ended
  /\ UNCHANGED <<setup, cancelled>>

(* Before an attempt: the poll's context is done, or the body is called.   *)
PollAttempts ==
  /\ On("poll", "begin")
  /\ IF Running.body = NoBody \/ Running.condition # "resolved" THEN NodeFails("poll failed")
     ELSE IF PollCtxDone THEN NodeFails("cancelled")
     ELSE ExecuteModule(BodyId(Running), setup.bodies[Running.body], [Top EXCEPT !.count = @ + 1]) /\ UNCHANGED ended
  /\ UNCHANGED <<setup, cancelled>>

(* Mutant: only a failed body is compared with the context.                *)
PollTrustsBody ==
  /\ On("poll", "returned")
  /\ IF ~ret.ok THEN NodeFails(IF PollCtxDone THEN "cancelled" ELSE ret.code)
     ELSE \/ NodeDone /\ UNCHANGED <<ret, ended>>
          \/ IF Top.count < Running.tries
             THEN stack' = Replace([Top EXCEPT !.phase = "sleep"]) /\ UNCHANGED <<ret, ended>>
             ELSE NodeFails("condition not met")
  /\ UNCHANGED <<setup, cancelled>>

(* After it: what it returned counts only while the context is alive.      *)
PollReturns ==
  /\ On("poll", "returned")
  /\ IF PollCtxDone THEN NodeFails("cancelled")
     ELSE IF ~ret.ok THEN NodeFails(ret.code)
     ELSE \/ NodeDone /\ UNCHANGED <<ret, ended>>                    \* every assertion passed
          \/ IF Top.count < Running.tries
             THEN stack' = Replace([Top EXCEPT !.phase = "sleep"]) /\ UNCHANGED <<ret, ended>>
             ELSE NodeFails("condition not met")
  /\ UNCHANGED <<setup, cancelled>>

(* sleepCtx: the interval passed, or the context was done first.           *)
PollWakes ==
  /\ On("poll", "sleep")
  /\ \/ stack' = Replace([Top EXCEPT !.phase = "begin"]) /\ UNCHANGED <<ret, ended>>
     \/ PollCtxDone /\ NodeFails("cancelled")
  /\ UNCHANGED <<setup, cancelled>>

(* The timeout of a poll that has begun, at any depth.                     *)
PollTimesOut ==
  \E d \in 1..Depth :
    /\ stack[d].at <= Len(stack[d].nodes)
    /\ LET n == stack[d].nodes[stack[d].at]
       IN n.kind = "poll" /\ n.timeout /\ ~stack[d].late
    /\ stack' = [stack EXCEPT ![d].late = TRUE]
    /\ UNCHANGED <<setup, cancelled, ret, ended>>

Cancel == /\ Depth > 0 /\ ~cancelled /\ cancelled' = TRUE
          /\ UNCHANGED <<setup, stack, ret, ended>>
Ended == Depth = 0 /\ UNCHANGED vars

NodeStep == \/ Start \/ FlowDone \/ Leaf \/ Return \/ ModuleCalls \/ ModuleReturns
            \/ LoopIterates \/ LoopReturns \/ PollAttempts \/ PollReturns \/ PollWakes

Next == NodeStep \/ PollTimesOut \/ Cancel \/ Ended
Spec == Init /\ [][Next]_vars
(* The goroutine of the node is scheduled, and its leaves end.             *)
FairSpec == Spec /\ WF_vars(NodeStep)

---------------------------------------------------------------------------
(* Properties.                                                             *)

(* The nodes of the flows and of the bodies in them, and the ids under     *)
(* which executions are pushed.                                            *)
Definitions == {setup.flows[id] : id \in DOMAIN setup.flows}
               \cup {setup.bodies[key] : key \in DOMAIN setup.bodies}
Nodes == UNION {ToSet(def.nodes) : def \in Definitions}
HasBody(n) == n.kind \in {"loop", "poll"}
CallIds == DOMAIN setup.flows \cup {BodyId(n) : n \in {m \in Nodes : HasBody(m)}}

(* Executions nest no deeper than there are flows and bodies, though a     *)
(* cycle of modules that runs through the body of a loop or a poll is      *)
(* invisible to validateModuleGraph.                                       *)
NestingBounded == Depth <= 1 + Cardinality(CallIds)

(* A poll whose timeout has passed, or whose run was cancelled, does not   *)
(* succeed any more, whatever the body running at that moment returns.     *)
DeadlineDiscards ==
  [][\A d \in 1..Depth :
       /\ stack[d].at <= Len(stack[d].nodes)
       /\ stack[d].nodes[stack[d].at].kind = "poll"
       /\ CtxDone(d) \/ stack[d].late
       => Len(stack') < d \/ stack'[d].at = stack[d].at]_vars

(* The nested execution ends: every loop, poll and chain of modules does.  *)
NestedEnds == <>(stack = <<>>)

(* engine.go on ExecuteModule: a failure it returns is caused by the       *)
(* definition of the referenced flow.  A module cycle is reported only     *)
(* when some flow calls itself through its modules and bodies.             *)
CycleMeansCycle ==
  ret.code = "cycle" =>
    LET keys == DOMAIN setup.flows \cup DOMAIN setup.bodies
        In(key) == ToSet((IF key \in DOMAIN setup.flows THEN setup.flows[key]
                          ELSE setup.bodies[key]).nodes)
        Runs(n) == IF IsModule(n) THEN {n.flow} ELSE IF HasBody(n) THEN {n.body} ELSE {}
        calls == [x, y \in keys |-> \E n \in In(x) : y \in Runs(n)]
    IN \E x \in DOMAIN setup.flows : TransitiveClosure(calls, keys)[x, x]
=============================================================================
