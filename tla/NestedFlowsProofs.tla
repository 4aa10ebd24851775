--------------------------- MODULE NestedFlowsProofs ---------------------------
(***************************************************************************)
(* What holds of nested executions for every job: any number of flows and  *)
(* bodies that refer to each other in any way.                             *)
(*                                                                         *)
(* The ids of the executions below the first are pairwise distinct         *)
(* (StackInv): ExecuteModule compares the id it pushes with all of them.   *)
(* There are finitely many ids, so nesting is bounded.  A step changes     *)
(* which node runs only in the innermost execution, and only a success of  *)
(* that node does (StepShape).                                             *)
(***************************************************************************)
EXTENDS NestedFlows, FiniteSetTheorems, TLAPS

(* The nodes and ids of a job, with the job as a parameter.                *)
DefinitionsOf(s) == {s.flows[id] : id \in DOMAIN s.flows}
                    \cup {s.bodies[key] : key \in DOMAIN s.bodies}
NodesOf(s) == UNION {ToSet(def.nodes) : def \in DefinitionsOf(s)}
IdsOf(s) == DOMAIN s.flows \cup {BodyId(n) : n \in {m \in NodesOf(s) : HasBody(m)}}

FrameFields == {"id", "nodes", "at", "outputs", "count", "results", "late", "phase"}
IsFrame(s, f) ==
  DOMAIN f = FrameFields /\ f.nodes \in Seq(NodesOf(s)) /\ f.at \in Nat \ {0}

StackInv ==
  /\ setup \in Setups
  /\ stack \in Seq(ToSet(stack))
  /\ \A d \in 1..Depth : IsFrame(setup, stack[d])
  /\ \A d \in 2..Depth : stack[d].id \in IdsOf(setup)
  /\ \A d, e \in 2..Depth : stack[d].id = stack[e].id => d = e

-----------------------------------------------------------------------------
(* Sequences and finite sets.                                              *)

(* A sequence is one of its own elements.                                  *)
LEMMA OwnElements ==
  ASSUME NEW S, NEW s \in Seq(S)
  PROVE  /\ s \in Seq(ToSet(s)) /\ DOMAIN s = 1..Len(s) /\ Len(s) \in Nat
         /\ ToSet(s) \in SUBSET S
<1>1. DOMAIN s = 1..Len(s) /\ Len(s) \in Nat  OBVIOUS
<1>2. \A k \in 1..Len(s) : s[k] \in ToSet(s)  BY <1>1 DEF ToSet
<1>3. ToSet(s) \in SUBSET S  BY <1>1 DEF ToSet
<1>4. s \in [1..Len(s) -> ToSet(s)]  BY <1>1, <1>2
<1> QED BY <1>1, <1>3, <1>4

(* One frame replaced.                                                     *)
Replacing(s, n, f) == [s EXCEPT ![n] = f]

(* A replaced frame leaves the others alone.                               *)
LEMMA Replaced ==
  ASSUME NEW s, s \in Seq(ToSet(s)), NEW n \in 1..Len(s), NEW f,
         NEW t, t = Replacing(s, n, f)
  PROVE  /\ t \in Seq(ToSet(t)) /\ Len(t) = Len(s) /\ t[n] = f
         /\ \A k \in 1..Len(s) : k # n => t[k] = s[k]
<1> DEFINE S == ToSet(s) \cup {f}
<1>1. DOMAIN s = 1..Len(s) /\ Len(s) \in Nat /\ \A k \in 1..Len(s) : s[k] \in S
  OBVIOUS
<1>2. DOMAIN t = 1..Len(s) /\ t[n] = f /\ \A k \in 1..Len(s) : k # n => t[k] = s[k]
  BY <1>1 DEF Replacing
<1>3. t = [k \in 1..Len(s) |-> t[k]] /\ \A k \in 1..Len(s) : t[k] \in S
  BY <1>1, <1>2 DEF Replacing
<1> HIDE DEF S
<1>4. t \in Seq(S) /\ Len(t) = Len(s)  BY <1>1, <1>3
<1>5. t \in Seq(ToSet(t))  BY <1>4, OwnElements
<1> QED BY <1>2, <1>4, <1>5

(* One frame pushed.                                                       *)
LEMMA Pushed ==
  ASSUME NEW s, s \in Seq(ToSet(s)), NEW f
  PROVE  LET t == Append(s, f)
         IN  /\ t \in Seq(ToSet(t)) /\ Len(t) = Len(s) + 1 /\ t[Len(s) + 1] = f
             /\ \A k \in 1..Len(s) : t[k] = s[k]
<1> DEFINE t == Append(s, f)
           S == ToSet(s) \cup {f}
<1>1. s \in Seq(S) /\ f \in S
  <2>1. ToSet(s) \in SUBSET S  OBVIOUS
  <2> HIDE DEF S
  <2>2. s \in Seq(S)  BY <2>1
  <2> QED BY <2>2 DEF S
<1> HIDE DEF S
<1>2. /\ t \in Seq(S) /\ Len(t) = Len(s) + 1 /\ t[Len(s) + 1] = f
      /\ \A k \in 1..Len(s) : t[k] = s[k]
  BY <1>1
<1> HIDE DEF t
<1>3. t \in Seq(ToSet(t))  BY <1>2, OwnElements
<1> QED BY <1>2, <1>3 DEF t

(* The innermost frame left.                                               *)
LEMMA Popped ==
  ASSUME NEW s, s \in Seq(ToSet(s)), Len(s) > 0
  PROVE  LET t == Front(s)
         IN  /\ t \in Seq(ToSet(t)) /\ Len(t) = Len(s) - 1
             /\ \A k \in 1..(Len(s) - 1) : t[k] = s[k]
<1> DEFINE t == Front(s)
           S == ToSet(s)
           n == Len(s) - 1
<1>1. t = SubSeq(s, 1, n) /\ n \in Nat /\ n <= Len(s) /\ s \in Seq(S)  BY DEF Front
<1> HIDE DEF t, S, n
<1>2. t \in Seq(S) /\ Len(t) = n /\ \A k \in 1..n : t[k] = s[k]  BY <1>1
<1>3. t \in Seq(ToSet(t))  BY <1>2, OwnElements
<1> QED BY <1>2, <1>3 DEF t, n

(* The values of a function on a finite set are finitely many.             *)
LEMMA FiniteValues ==
  ASSUME NEW S, IsFiniteSet(S), NEW f, DOMAIN f = S
  PROVE  IsFiniteSet({f[x] : x \in S})
<1> DEFINE T == {f[x] : x \in S}
           g == [x \in S |-> f[x]]
<1>1. g \in Surjection(S, T)
  <2>1. g \in [S -> T] /\ \A y \in T : \E x \in S : g[x] = y  OBVIOUS
  <2> HIDE DEF g, T
  <2> QED BY <2>1 DEF Surjection
<1> HIDE DEF g, T
<1>2. IsFiniteSet(T)  BY <1>1, FS_Surjection
<1> QED BY <1>2 DEF T

(* The ids under which executions can be pushed are finitely many.         *)
LEMMA IdsFinite ==
  ASSUME NEW s \in Setups
  PROVE  IsFiniteSet(IdsOf(s))
<1>1. /\ IsFiniteSet(DOMAIN s.flows) /\ IsFiniteSet(DOMAIN s.bodies)
      /\ \A id \in DOMAIN s.flows : s.flows[id] \in Definition(DOMAIN s.bodies)
      /\ \A key \in DOMAIN s.bodies : s.bodies[key] \in Definition(DOMAIN s.bodies)
  BY SetupAssumption
<1>2. IsFiniteSet(DefinitionsOf(s))
  <2>1. IsFiniteSet({s.flows[id] : id \in DOMAIN s.flows})  BY <1>1, FiniteValues
  <2>2. IsFiniteSet({s.bodies[key] : key \in DOMAIN s.bodies})  BY <1>1, FiniteValues
  <2> QED BY <2>1, <2>2, FS_Union DEF DefinitionsOf
<1>3. \A def \in DefinitionsOf(s) : IsFiniteSet(ToSet(def.nodes))
  <2> TAKE def \in DefinitionsOf(s)
  <2>1. def \in Definition(DOMAIN s.bodies)  BY <1>1 DEF DefinitionsOf
  <2> DEFINE l == def.nodes
  <2>2. l \in Seq(NodeData(DOMAIN s.bodies))  BY <2>1 DEF Definition
  <2> HIDE DEF l
  <2>3. DOMAIN l = 1..Len(l) /\ Len(l) \in Nat  BY <2>2
  <2>4. IsFiniteSet(DOMAIN l)  BY <2>3, FS_Interval
  <2>5. IsFiniteSet({l[k] : k \in DOMAIN l})  BY <2>4, FiniteValues
  <2> QED BY <2>5 DEF ToSet, l
<1>4. IsFiniteSet(NodesOf(s))
  <2> DEFINE D == DefinitionsOf(s)
             f == [def \in D |-> ToSet(def.nodes)]
             F == {f[def] : def \in D}
  <2>1. IsFiniteSet(D) /\ DOMAIN f = D  BY <1>2
  <2>2. F = {ToSet(def.nodes) : def \in D} /\ \A T \in F : IsFiniteSet(T)  BY <1>3
  <2>3. IsFiniteSet(F)
    <3> HIDE DEF f, D
    <3> QED BY <2>1, FiniteValues
  <2> HIDE DEF F
  <2>4. IsFiniteSet(UNION F)  BY <2>2, <2>3, FS_UNION
  <2> QED BY <2>2, <2>4 DEF NodesOf
<1>5. IsFiniteSet({BodyId(n) : n \in {m \in NodesOf(s) : HasBody(m)}})
  <2> DEFINE N == {m \in NodesOf(s) : HasBody(m)}
             f == [n \in N |-> BodyId(n)]
  <2>1. N \in SUBSET NodesOf(s)  OBVIOUS
  <2>2. {f[n] : n \in N} = {BodyId(n) : n \in N} /\ DOMAIN f = N  OBVIOUS
  <2> HIDE DEF N, f
  <2>3. IsFiniteSet(N)  BY <1>4, <2>1, FS_Subset
  <2>4. IsFiniteSet({f[n] : n \in N})  BY <2>2, <2>3, FiniteValues
  <2> QED BY <2>2, <2>4 DEF N
<1> QED BY <1>1, <1>5, FS_Union DEF IdsOf

(* The definitions of a job and the nodes of a definition.                 *)
LEMMA DefinitionNodes ==
  ASSUME NEW s \in Setups, NEW def \in DefinitionsOf(s)
  PROVE  def.nodes \in Seq(NodesOf(s))
<1>1. def \in Definition(DOMAIN s.bodies)  BY SetupAssumption DEF DefinitionsOf
<1> DEFINE l == def.nodes
<1>2. l \in Seq(NodeData(DOMAIN s.bodies))  BY <1>1 DEF Definition
<1>3. ToSet(l) \in SUBSET NodesOf(s)  BY DEF NodesOf
<1> HIDE DEF l
<1>4. l \in Seq(ToSet(l))  BY <1>2, OwnElements
<1>5. l \in Seq(NodesOf(s))  BY <1>3, <1>4
<1> QED BY <1>5 DEF l

-----------------------------------------------------------------------------
(* What a step does to the stack.                                          *)

(* The innermost execution goes on with frame f: the same node runs, or it *)
(* has succeeded, a poll only while its context was alive.                 *)
Continues(f) ==
  /\ f.id = Top.id /\ IsFrame(setup, f)
  /\ f.at = Top.at \/ Running.kind # "poll" \/ ~PollCtxDone

StepShape ==
  \/ stack' = stack
  \/ Depth > 0 /\ \E f : Continues(f) /\ stack' = Replace(f)
  \/ /\ Depth > 0
     /\ \E f, id, flow : /\ Continues(f) /\ f.at = Top.at
                         /\ ~Contains(CallStack, id) /\ id \in IdsOf(setup)
                         /\ flow \in DefinitionsOf(setup)
                         /\ stack' = Append(Replace(f), Frame(id, flow))
  \/ Depth > 0 /\ stack' = Front(stack)
  \/ \E d \in 1..Depth : stack' = [stack EXCEPT ![d].late = TRUE]

(* The innermost frame and the node that runs in it.                       *)
LEMMA TopFrame ==
  ASSUME StackInv, Depth > 0
  PROVE  /\ IsFrame(setup, Top) /\ Depth \in Nat /\ Depth \in 1..Depth
         /\ Top.at <= Len(Top.nodes) => Running \in NodesOf(setup)
<1>1. Depth \in Nat /\ Depth \in 1..Depth  BY DEF StackInv, Depth
<1>2. IsFrame(setup, Top)  BY <1>1 DEF StackInv, Top
<1>3. ASSUME Top.at <= Len(Top.nodes) PROVE Running \in NodesOf(setup)
  <2>1. Top.nodes \in Seq(NodesOf(setup)) /\ Top.at \in Nat \ {0}  BY <1>2 DEF IsFrame
  <2> QED BY <1>3, <2>1 DEF Running
<1> QED BY <1>1, <1>2, <1>3

(* A frame that keeps its node goes on.                                    *)
LEMMA SameNode ==
  ASSUME StackInv, Depth > 0, NEW f, DOMAIN f = FrameFields,
         f.id = Top.id, f.nodes = Top.nodes, f.at = Top.at
  PROVE  Continues(f)
<1>1. IsFrame(setup, Top)  BY TopFrame
<1> QED BY <1>1 DEF Continues, IsFrame

(* The changes of a frame that keep its node.                              *)
LEMMA FrameChanges ==
  ASSUME StackInv, Depth > 0
  PROVE  /\ \A p : Continues([Top EXCEPT !.phase = p])
         /\ \A c : LET f == [Top EXCEPT !.count = c]
                   IN \A p : /\ Continues([f EXCEPT !.phase = p])
                             /\ [f EXCEPT !.phase = p].at = Top.at
         /\ \A p : [Top EXCEPT !.phase = p].at = Top.at
         /\ \A r, p : Continues([Top EXCEPT !.results = r, !.phase = p])
<1>0. DOMAIN Top = FrameFields  BY TopFrame DEF IsFrame
<1>1. ASSUME NEW p PROVE Continues([Top EXCEPT !.phase = p]) /\ [Top EXCEPT !.phase = p].at = Top.at
  <2> DEFINE f == [Top EXCEPT !.phase = p]
  <2>1. DOMAIN f = FrameFields /\ f.id = Top.id /\ f.nodes = Top.nodes /\ f.at = Top.at
    BY <1>0 DEF FrameFields
  <2> HIDE DEF f
  <2>2. Continues(f)  BY <2>1, SameNode
  <2> QED BY <2>1, <2>2 DEF f
<1>2. ASSUME NEW c, NEW p
      PROVE  LET f == [Top EXCEPT !.count = c]
             IN  Continues([f EXCEPT !.phase = p]) /\ [f EXCEPT !.phase = p].at = Top.at
  <2> DEFINE e == [Top EXCEPT !.count = c]
             f == [e EXCEPT !.phase = p]
  <2>1. DOMAIN e = FrameFields /\ e.id = Top.id /\ e.nodes = Top.nodes /\ e.at = Top.at
    BY <1>0 DEF FrameFields
  <2> HIDE DEF e
  <2>2. DOMAIN f = FrameFields /\ f.id = Top.id /\ f.nodes = Top.nodes /\ f.at = Top.at
    BY <2>1 DEF FrameFields
  <2> HIDE DEF f
  <2>3. Continues(f)  BY <2>2, SameNode
  <2> QED BY <2>2, <2>3 DEF e, f
<1>3. ASSUME NEW r, NEW p PROVE Continues([Top EXCEPT !.results = r, !.phase = p])
  <2> DEFINE f == [Top EXCEPT !.results = r, !.phase = p]
  <2>1. DOMAIN f = FrameFields /\ f.id = Top.id /\ f.nodes = Top.nodes /\ f.at = Top.at
    BY <1>0 DEF FrameFields
  <2> HIDE DEF f
  <2>2. Continues(f)  BY <2>1, SameNode
  <2> QED BY <2>2 DEF f
<1> QED BY <1>1, <1>2, <1>3

(* The node that runs has succeeded.                                       *)
LEMMA DoneShape ==
  ASSUME StackInv, Depth > 0, NodeDone, Running.kind # "poll" \/ ~PollCtxDone
  PROVE  StepShape
<1> DEFINE f == [Top EXCEPT !.at = @ + 1, !.outputs = @ \cup {Running.id},
                            !.count = 0, !.results = <<>>, !.late = FALSE,
                            !.phase = "begin"]
<1>1. stack' = Replace(f)  BY DEF NodeDone
<1>2. IsFrame(setup, Top)  BY TopFrame
<1>3. DOMAIN f = FrameFields /\ f.id = Top.id /\ f.nodes = Top.nodes /\ f.at = Top.at + 1
  BY <1>2 DEF IsFrame, FrameFields
<1> HIDE DEF f
<1>4. Continues(f)  BY <1>2, <1>3 DEF Continues, IsFrame
<1> QED BY <1>1, <1>4 DEF StepShape

(* A call that is refused or pushed.                                       *)
LEMMA CallShape ==
  ASSUME StackInv, Depth > 0, NEW id \in IdsOf(setup), NEW flow \in DefinitionsOf(setup),
         NEW c, ExecuteModule(id, flow, c),
         Continues([c EXCEPT !.phase = "called"]), Continues([c EXCEPT !.phase = "returned"]),
         [c EXCEPT !.phase = "called"].at = Top.at
  PROVE  StepShape
<1>1. CASE Refusal(id, flow) = "none"
  <2>1. stack' = Append(Replace([c EXCEPT !.phase = "called"]), Frame(id, flow))
    BY <1>1 DEF ExecuteModule
  <2>2. ~Contains(CallStack, id)  BY <1>1 DEF Refusal
  <2> QED BY <2>1, <2>2 DEF StepShape
<1>2. CASE Refusal(id, flow) # "none"
  <2>1. stack' = Replace([c EXCEPT !.phase = "returned"])  BY <1>2 DEF ExecuteModule
  <2> QED BY <2>1 DEF StepShape
<1> QED BY <1>1, <1>2


(* A node of a job has the data of its kind.                               *)
LEMMA NodeFields ==
  ASSUME NEW s \in Setups, NEW n \in NodesOf(s)
  PROVE  /\ n.kind \in {"loop", "poll"} => n.body \in DOMAIN s.bodies \cup {NoBody}
         /\ n.kind \in {"loop", "poll"} => BodyId(n) \in IdsOf(s)
<1>1. PICK def \in DefinitionsOf(s) : n \in ToSet(def.nodes)  BY DEF NodesOf
<1>2. def \in Definition(DOMAIN s.bodies)  BY SetupAssumption DEF DefinitionsOf
<1> DEFINE l == def.nodes
           N == NodeData(DOMAIN s.bodies)
<1>3. l \in Seq(N)  BY <1>2 DEF Definition
<1> HIDE DEF l, N
<1>4. ToSet(l) \in SUBSET N  BY <1>3, OwnElements
<1>5. n \in N  BY <1>1, <1>4 DEF l
<1>6. n.kind \in {"loop", "poll"} => n.body \in DOMAIN s.bodies \cup {NoBody}
  <2>1. CASE n \in LeafData \/ n \in ModuleData  BY <2>1 DEF LeafData, ModuleData
  <2>2. CASE n \in LoopData(DOMAIN s.bodies)  BY <2>2 DEF LoopData
  <2>3. CASE n \in PollData(DOMAIN s.bodies)  BY <2>3 DEF PollData
  <2> QED BY <1>5, <2>1, <2>2, <2>3 DEF N, NodeData
<1>7. n.kind \in {"loop", "poll"} => BodyId(n) \in IdsOf(s)  BY DEF IdsOf, HasBody
<1> QED BY <1>6, <1>7

(* The body of the running loop or poll is a definition of the job.        *)
LEMMA RunningBody ==
  ASSUME StackInv, On("loop", "begin") \/ On("poll", "begin"), Running.body # NoBody
  PROVE  /\ Depth > 0 /\ BodyId(Running) \in IdsOf(setup)
         /\ setup.bodies[Running.body] \in DefinitionsOf(setup)
<1>1. /\ Depth > 0 /\ Top.at <= Len(Top.nodes) /\ Running.kind \in {"loop", "poll"}
  BY DEF On
<1>2. Running \in NodesOf(setup) /\ setup \in Setups  BY <1>1, TopFrame DEF StackInv
<1> DEFINE n == Running
<1> HIDE DEF n
<1>3. n \in NodesOf(setup) /\ n.kind \in {"loop", "poll"}  BY <1>1, <1>2 DEF n
<1>4. n.body \in DOMAIN setup.bodies \cup {NoBody} /\ BodyId(n) \in IdsOf(setup)
  BY <1>2, <1>3, NodeFields
<1>5. n.body \in DOMAIN setup.bodies  BY <1>4 DEF n
<1>6. setup.bodies[n.body] \in DefinitionsOf(setup)  BY <1>5 DEF DefinitionsOf
<1> QED BY <1>1, <1>4, <1>6 DEF n

(* The steps of the flow itself and of nodes that run no flow.             *)
LEMMA FlowShape ==
  ASSUME StackInv, Start \/ FlowDone \/ Leaf \/ Return
  PROVE  StepShape
<1>1. CASE Start
  <2>0. Depth = 1  BY <1>1 DEF Start
  <2>1. Depth = 1 /\ Depth > 0  BY <2>0
  <2>2. Len(stack) = 1 /\ stack \in Seq(ToSet(stack))  BY <2>1 DEF Depth, StackInv
  <2>3. CASE stack' = <<[Top EXCEPT !.phase = "begin"]>>
    <3> DEFINE f == [Top EXCEPT !.phase = "begin"]
    <3>1. Continues(f)  BY <2>1, FrameChanges
    <3> HIDE DEF f
    <3>2. Replace(f) = <<f>>
      <4>1. DOMAIN stack = {1}  BY <2>2
      <4> QED BY <2>1, <2>2, <4>1 DEF Replace
    <3>3. stack' = Replace(f)  BY <2>3, <3>2 DEF f
    <3> QED BY <2>1, <3>1, <3>3 DEF StepShape
  <2>4. CASE stack' = <<>>
    <3>1. Front(stack) = <<>>
      <4> DEFINE t == Front(stack)
      <4>1. t \in Seq(ToSet(t)) /\ Len(t) = 0  BY <2>2, Popped
      <4> HIDE DEF t
      <4>2. t = <<>>  BY <4>1
      <4> QED BY <4>2 DEF t
    <3> QED BY <2>1, <2>4, <3>1 DEF StepShape
  <2> QED BY <1>1, <2>3, <2>4 DEF Start
<1>2. CASE FlowDone  BY <1>2 DEF FlowDone, Leave, StepShape
<1>3. CASE Leaf
  <2>1. Depth > 0 /\ Running.kind # "poll"  BY <1>3 DEF Leaf, On
  <2>2. NodeDone => StepShape  BY <2>1, DoneShape
  <2>3. NodeFails("node failed") => StepShape  BY <2>1 DEF NodeFails, Leave, StepShape
  <2> QED BY <1>3, <2>2, <2>3 DEF Leaf
<1>4. CASE Return
  <2>1. Depth > 0 /\ stack' = Replace([Top EXCEPT !.phase = "returned"])  BY <1>4 DEF Return
  <2> QED BY <2>1, FrameChanges DEF StepShape
<1> QED BY <1>1, <1>2, <1>3, <1>4

(* The steps of module nodes.                                              *)
LEMMA ModuleShape ==
  ASSUME StackInv, ModuleCalls \/ ModuleReturns
  PROVE  StepShape
<1>1. CASE ModuleCalls
  <2>1. Depth > 0  BY <1>1 DEF ModuleCalls, On
  <2>2. CASE NodeFails("module failed")  BY <2>1, <2>2 DEF NodeFails, Leave, StepShape
  <2>3. CASE ~NodeFails("module failed")
    <3> DEFINE id == Running.flow
               flow == setup.flows[Running.flow]
               c == Top
    <3>1. id \in DOMAIN setup.flows /\ ExecuteModule(id, flow, c)
      BY <1>1, <2>3 DEF ModuleCalls
    <3>2. id \in IdsOf(setup) /\ flow \in DefinitionsOf(setup)
      BY <3>1 DEF IdsOf, DefinitionsOf
    <3>3. /\ Continues([c EXCEPT !.phase = "called"]) /\ Continues([c EXCEPT !.phase = "returned"])
          /\ [c EXCEPT !.phase = "called"].at = Top.at
      BY <2>1, FrameChanges
    <3> HIDE DEF id, flow, c
    <3> QED BY <2>1, <3>1, <3>2, <3>3, CallShape
  <2> QED BY <2>2, <2>3
<1>2. CASE ModuleReturns
  <2>1. Depth > 0 /\ Running.kind # "poll"  BY <1>2 DEF ModuleReturns, On
  <2>2. NodeDone => StepShape  BY <2>1, DoneShape
  <2>3. (\E code : NodeFails(code)) => StepShape  BY <2>1 DEF NodeFails, Leave, StepShape
  <2> QED BY <1>2, <2>2, <2>3 DEF ModuleReturns
<1> QED BY <1>1, <1>2

(* The steps of loop nodes.                                                *)
LEMMA LoopShape ==
  ASSUME StackInv, LoopIterates \/ LoopReturns
  PROVE  StepShape
<1>0. Depth > 0 /\ Running.kind # "poll"  BY DEF LoopIterates, LoopReturns, On
<1>1. NodeDone => StepShape  BY <1>0, DoneShape
<1>2. (\E code : NodeFails(code)) => StepShape  BY <1>0 DEF NodeFails, Leave, StepShape
<1>3. CASE LoopIterates
  <2> DEFINE id == BodyId(Running)
             flow == setup.bodies[Running.body]
             c == [Top EXCEPT !.count = @ + 1]
  <2>1. CASE Running.body # NoBody /\ ExecuteModule(id, flow, c)
    <3>1. id \in IdsOf(setup) /\ flow \in DefinitionsOf(setup)
      BY <1>3, <2>1, RunningBody DEF LoopIterates
    <3>2. /\ Continues([c EXCEPT !.phase = "called"]) /\ Continues([c EXCEPT !.phase = "returned"])
          /\ [c EXCEPT !.phase = "called"].at = Top.at
      BY <1>0, FrameChanges
    <3>3. ExecuteModule(id, flow, c)  BY <2>1
    <3> HIDE DEF id, flow, c
    <3> QED BY <1>0, <3>1, <3>2, <3>3, CallShape
  <2> QED BY <1>1, <1>2, <1>3, <2>1 DEF LoopIterates
<1>4. CASE LoopReturns
  <2>1. CASE ret.ok \/ Running.goOn
    <3> DEFINE r == Append(Top.results, ret.code)
               f == [Top EXCEPT !.results = r, !.phase = "begin"]
    <3>1. stack' = Replace(f)  BY <1>4, <2>1 DEF LoopReturns
    <3>2. Continues(f)
      <4> HIDE DEF r
      <4> QED BY <1>0, FrameChanges
    <3> HIDE DEF f
    <3> QED BY <1>0, <3>1, <3>2 DEF StepShape
  <2>2. CASE ~(ret.ok \/ Running.goOn)  BY <1>2, <1>4, <2>2 DEF LoopReturns
  <2> QED BY <2>1, <2>2
<1> QED BY <1>3, <1>4

(* The steps of poll nodes.                                                *)
LEMMA PollShape ==
  ASSUME StackInv, PollAttempts \/ PollReturns \/ PollWakes
  PROVE  StepShape
<1>0. Depth > 0  BY DEF PollAttempts, PollReturns, PollWakes, On
<1>1. NodeDone /\ ~PollCtxDone => StepShape  BY <1>0, DoneShape
<1>2. (\E code : NodeFails(code)) => StepShape  BY <1>0 DEF NodeFails, Leave, StepShape
<1>3. (\E p : stack' = Replace([Top EXCEPT !.phase = p])) => StepShape
  BY <1>0, FrameChanges DEF StepShape
<1>4. CASE PollAttempts
  <2> DEFINE id == BodyId(Running)
             flow == setup.bodies[Running.body]
             c == [Top EXCEPT !.count = @ + 1]
  <2>1. CASE Running.body # NoBody /\ ExecuteModule(id, flow, c)
    <3>1. id \in IdsOf(setup) /\ flow \in DefinitionsOf(setup)
      BY <1>4, <2>1, RunningBody DEF PollAttempts
    <3>2. /\ Continues([c EXCEPT !.phase = "called"]) /\ Continues([c EXCEPT !.phase = "returned"])
          /\ [c EXCEPT !.phase = "called"].at = Top.at
      BY <1>0, FrameChanges
    <3>3. ExecuteModule(id, flow, c)  BY <2>1
    <3> HIDE DEF id, flow, c
    <3> QED BY <1>0, <3>1, <3>2, <3>3, CallShape
  <2> QED BY <1>2, <1>4, <2>1 DEF PollAttempts
<1>5. CASE PollReturns
  <2>1. \/ \E code : NodeFails(code)
        \/ NodeDone /\ ~PollCtxDone
        \/ \E p : stack' = Replace([Top EXCEPT !.phase = p])
    BY <1>5 DEF PollReturns
  <2> QED BY <1>1, <1>2, <1>3, <2>1
<1>6. CASE PollWakes
  <2>1. (\E code : NodeFails(code)) \/ (\E p : stack' = Replace([Top EXCEPT !.phase = p]))
    BY <1>6 DEF PollWakes
  <2> QED BY <1>2, <1>3, <2>1
<1> QED BY <1>4, <1>5, <1>6

(* Every step has one of the shapes and leaves the job alone.              *)
LEMMA Shapes ==
  ASSUME StackInv, [Next]_vars
  PROVE  StepShape /\ setup' = setup
<1>1. CASE NodeStep
  <2>1. StepShape  BY <1>1, FlowShape, ModuleShape, LoopShape, PollShape DEF NodeStep
  <2>2. setup' = setup
    BY <1>1 DEF NodeStep, Start, FlowDone, Leaf, Return, ModuleCalls, ModuleReturns,
                LoopIterates, LoopReturns, PollAttempts, PollReturns, PollWakes
  <2> QED BY <2>1, <2>2
<1>2. CASE PollTimesOut  BY <1>2 DEF PollTimesOut, StepShape
<1>3. CASE Cancel \/ Ended \/ UNCHANGED vars  BY <1>3 DEF Cancel, Ended, vars, StepShape
<1> QED BY <1>1, <1>2, <1>3 DEF Next


-----------------------------------------------------------------------------
(* The inductive invariant.                                                *)

(* The first frame.                                                        *)
LEMMA InitStack == Init => StackInv
<1> SUFFICES ASSUME Init PROVE StackInv  OBVIOUS
<1> DEFINE g == Frame(setup.root, setup.flows[setup.root])
           f == [g EXCEPT !.phase = "start"]
<1>1. setup \in Setups /\ stack = <<f>>  BY DEF Init
<1>2. setup.flows[setup.root] \in DefinitionsOf(setup)
  BY <1>1, SetupAssumption DEF DefinitionsOf
<1>3. g.nodes \in Seq(NodesOf(setup)) /\ DOMAIN g = FrameFields /\ g.at = 1
  <2>1. setup.flows[setup.root].nodes \in Seq(NodesOf(setup))  BY <1>1, <1>2, DefinitionNodes
  <2> QED BY <2>1 DEF Frame, FrameFields
<1>4. IsFrame(setup, f)
  <2> HIDE DEF g
  <2> QED BY <1>3 DEF IsFrame, FrameFields
<1> HIDE DEF f
<1>5. stack \in Seq(ToSet(stack)) /\ Len(stack) = 1 /\ stack[1] = f
  <2>1. <<f>> \in Seq({f}) /\ Len(<<f>>) = 1  OBVIOUS
  <2>2. <<f>> \in Seq(ToSet(<<f>>))  BY <2>1, OwnElements
  <2> QED BY <1>1, <2>1, <2>2
<1> QED BY <1>1, <1>4, <1>5 DEF StackInv, Depth

(* A stack whose frames are those of the old one, up to what their node    *)
(* collects.                                                               *)
LEMMA KeepsStack ==
  ASSUME StackInv, setup' = setup, stack' \in Seq(ToSet(stack')), Len(stack') <= Depth,
         \A d \in 1..Len(stack') : IsFrame(setup, stack'[d]) /\ stack'[d].id = stack[d].id
  PROVE  StackInv'
<1>1. Len(stack') \in Nat /\ Len(stack) \in Nat /\ Depth = Len(stack) /\ Depth' = Len(stack')
  BY DEF StackInv, Depth
<1>2. \A d \in 2..Len(stack') : d \in 2..Len(stack) /\ d \in 1..Len(stack')  BY <1>1
<1> QED BY <1>1, <1>2 DEF StackInv

(* Every step keeps the ids distinct.                                      *)
LEMMA StepStack == StackInv /\ [Next]_vars => StackInv'
<1> SUFFICES ASSUME StackInv, [Next]_vars PROVE StackInv'  OBVIOUS
<1>0. /\ StepShape /\ setup' = setup /\ setup \in Setups
      /\ stack \in Seq(ToSet(stack)) /\ Depth = Len(stack) /\ Len(stack) \in Nat
      /\ \A d \in 1..Len(stack) : IsFrame(setup, stack[d])
  BY Shapes DEF StackInv, Depth
<1>1. CASE stack' = stack  BY <1>0, <1>1, KeepsStack
<1>2. CASE Depth > 0 /\ \E f : Continues(f) /\ stack' = Replace(f)
  <2>1. PICK f : Continues(f) /\ stack' = Replace(f)  BY <1>2
  <2>2. Depth \in 1..Len(stack)  BY <1>0, <1>2
  <2>3. /\ stack' \in Seq(ToSet(stack')) /\ Len(stack') = Len(stack) /\ stack'[Depth] = f
        /\ \A k \in 1..Len(stack) : k # Depth => stack'[k] = stack[k]
    <3>1. stack' = Replacing(stack, Depth, f)  BY <2>1 DEF Replace, Replacing
    <3> QED BY <1>0, <2>2, <3>1, Replaced
  <2>4. IsFrame(setup, f) /\ f.id = stack[Depth].id  BY <2>1 DEF Continues, Top
  <2> QED BY <1>0, <2>2, <2>3, <2>4, KeepsStack
<1>3. CASE /\ Depth > 0
           /\ \E f, id, flow : /\ Continues(f) /\ f.at = Top.at
                               /\ ~Contains(CallStack, id) /\ id \in IdsOf(setup)
                               /\ flow \in DefinitionsOf(setup)
                               /\ stack' = Append(Replace(f), Frame(id, flow))
  <2>1. PICK f, id, flow : /\ Continues(f) /\ f.at = Top.at
                           /\ ~Contains(CallStack, id) /\ id \in IdsOf(setup)
                           /\ flow \in DefinitionsOf(setup)
                           /\ stack' = Append(Replace(f), Frame(id, flow))
    BY <1>3
  <2>2. Depth \in 1..Len(stack)  BY <1>0, <1>3
  <2> DEFINE mid == Replace(f)
             new == Frame(id, flow)
             n == Len(stack)
  <2>3. /\ mid \in Seq(ToSet(mid)) /\ Len(mid) = n /\ mid[Depth] = f
        /\ \A k \in 1..n : k # Depth => mid[k] = stack[k]
    <3>1. mid = Replacing(stack, Depth, f)  BY DEF Replace, Replacing
    <3> HIDE DEF mid
    <3> QED BY <1>0, <2>2, <3>1, Replaced
  <2>4. IsFrame(setup, f) /\ f.id = stack[Depth].id  BY <2>1 DEF Continues, Top
  <2>5. IsFrame(setup, new) /\ new.id = id
    <3>1. flow.nodes \in Seq(NodesOf(setup))  BY <1>0, <2>1, DefinitionNodes
    <3> QED BY <3>1 DEF IsFrame, Frame, FrameFields
  <2>6. stack' = Append(mid, new)  BY <2>1
  <2> HIDE DEF mid, new
  <2>7. /\ stack' \in Seq(ToSet(stack')) /\ Len(stack') = n + 1 /\ stack'[n + 1] = new
        /\ \A k \in 1..n : stack'[k] = mid[k]
    BY <2>3, <2>6, Pushed
  <2>8. \A k \in 1..n : IsFrame(setup, stack'[k]) /\ stack'[k].id = stack[k].id
    BY <1>0, <2>2, <2>3, <2>4, <2>7
  <2>9. \A d \in 2..n : stack[d].id # id
    <3> SUFFICES ASSUME NEW d \in 2..n, stack[d].id = id PROVE FALSE  OBVIOUS
    <3>1. n \in Nat /\ n - 1 \in Nat /\ d - 1 \in 1..(n - 1) /\ (d - 1) + 1 = d  BY <1>0
    <3> DEFINE cs == [e \in 1..(n - 1) |-> stack[e + 1].id]
    <3>2. CallStack = cs  BY <1>0 DEF CallStack
    <3>3. Len(cs) = n - 1 /\ cs[d - 1] = id  BY <3>1
    <3> HIDE DEF cs
    <3>4. Contains(cs, id)  BY <3>1, <3>3 DEF Contains
    <3> QED BY <2>1, <3>2, <3>4
  <2>10. \A k \in 1..(n + 1) : k \in 1..n \/ k = n + 1  BY <1>0
  <2>11. \A k \in 2..(n + 1) : k \in 2..n \/ k = n + 1  BY <1>0
  <2>12. \A d \in 2..(n + 1) : stack'[d].id \in IdsOf(setup)
    <3>1. \A d \in 2..n : d \in 1..n /\ stack[d].id \in IdsOf(setup)  BY <1>0 DEF StackInv
    <3> QED BY <2>1, <2>5, <2>7, <2>8, <2>11, <3>1
  <2>13. \A d, e \in 2..(n + 1) : stack'[d].id = stack'[e].id => d = e
    <3>1. \A d, e \in 2..n : stack[d].id = stack[e].id => d = e  BY <1>0 DEF StackInv
    <3>2. \A d \in 2..n : stack'[d].id = stack[d].id
      <4>1. \A d \in 2..n : d \in 1..n  OBVIOUS
      <4> QED BY <2>8, <4>1
    <3>3. stack'[n + 1].id = id  BY <2>5, <2>7
    <3> QED BY <2>9, <2>11, <3>1, <3>2, <3>3
  <2>14. \A d \in 1..(n + 1) : IsFrame(setup, stack'[d])  BY <2>5, <2>7, <2>8, <2>10
  <2> QED BY <1>0, <2>7, <2>12, <2>13, <2>14 DEF StackInv, Depth
<1>4. CASE Depth > 0 /\ stack' = Front(stack)
  <2>1. /\ stack' \in Seq(ToSet(stack')) /\ Len(stack') = Len(stack) - 1
        /\ \A k \in 1..(Len(stack) - 1) : stack'[k] = stack[k]
    BY <1>0, <1>4, Popped
  <2>2. \A k \in 1..(Len(stack) - 1) : k \in 1..Len(stack)  BY <1>0
  <2> QED BY <1>0, <2>1, <2>2, KeepsStack
<1>5. CASE \E d \in 1..Depth : stack' = [stack EXCEPT ![d].late = TRUE]
  <2>1. PICK d \in 1..Depth : stack' = [stack EXCEPT ![d].late = TRUE]  BY <1>5
  <2> DEFINE f == [stack[d] EXCEPT !.late = TRUE]
  <2>2. stack' = Replacing(stack, d, f) /\ d \in 1..Len(stack)  BY <1>0, <2>1 DEF Replacing
  <2>3. IsFrame(setup, f) /\ f.id = stack[d].id
    <3>1. IsFrame(setup, stack[d])  BY <1>0, <2>2
    <3> QED BY <3>1 DEF IsFrame, FrameFields
  <2> HIDE DEF f
  <2>4. /\ stack' \in Seq(ToSet(stack')) /\ Len(stack') = Len(stack) /\ stack'[d] = f
        /\ \A k \in 1..Len(stack) : k # d => stack'[k] = stack[k]
    BY <1>0, <2>2, Replaced
  <2> QED BY <1>0, <2>2, <2>3, <2>4, KeepsStack
<1> QED BY <1>0, <1>1, <1>2, <1>3, <1>4, <1>5 DEF StepShape

-----------------------------------------------------------------------------
(* The results.                                                            *)

(* In every state the ids of the executions below the first are distinct   *)
(* and name flows and bodies of the job.                                   *)
THEOREM StackCorrect == Spec => []StackInv
BY InitStack, StepStack, PTL DEF Spec

(* Executions nest no deeper than one more than there are ids of flows and *)
(* bodies, for every job, cycles through bodies included.                  *)
THEOREM NestingSafe == Spec => []NestingBounded
<1>1. StackInv => NestingBounded
  <2> SUFFICES ASSUME StackInv PROVE Depth <= 1 + Cardinality(CallIds)
    BY DEF NestingBounded
  <2>1. CallIds = IdsOf(setup)
    BY DEF CallIds, IdsOf, Nodes, NodesOf, Definitions, DefinitionsOf
  <2> DEFINE C == IdsOf(setup)
             f == [d \in 2..Depth |-> stack[d].id]
             D == 2..Depth
  <2>2. Depth \in Nat  BY DEF StackInv, Depth
  <2>3. IsFiniteSet(C)  BY IdsFinite DEF StackInv
  <2>4. f \in Injection(D, C)
    <3>1. f \in [D -> C] /\ \A d, e \in D : f[d] = f[e] => d = e  BY DEF StackInv
    <3> HIDE DEF f, C, D
    <3> QED BY <3>1 DEF Injection, IsInjective
  <2> HIDE DEF f, C
  <2>5. Cardinality(D) <= Cardinality(C) /\ Cardinality(C) \in Nat
    BY <2>3, <2>4, FS_Injection, FS_CardinalityType
  <2>6. Cardinality(D) = IF 2 > Depth THEN 0 ELSE Depth - 2 + 1
    BY <2>2, FS_Interval
  <2>7. Depth <= 1 + Cardinality(C)  BY <2>2, <2>5, <2>6
  <2> QED BY <2>1, <2>7 DEF C
<1> QED BY <1>1, StackCorrect, PTL

(* Once the timeout of a poll has passed or its run was cancelled, no step *)
(* makes it succeed, whatever its body returns afterwards.                 *)
THEOREM DeadlineSafe == Spec => DeadlineDiscards
<1>1. StackInv /\ [Next]_vars =>
        [\A d \in 1..Depth :
           /\ stack[d].at <= Len(stack[d].nodes)
           /\ stack[d].nodes[stack[d].at].kind = "poll"
           /\ CtxDone(d) \/ stack[d].late
           => Len(stack') < d \/ stack'[d].at = stack[d].at]_vars
  <2> SUFFICES ASSUME StackInv, [Next]_vars, NEW d \in 1..Depth,
                      stack[d].nodes[stack[d].at].kind = "poll",
                      CtxDone(d) \/ stack[d].late
               PROVE  Len(stack') < d \/ stack'[d].at = stack[d].at
    OBVIOUS
  <2>0. /\ StepShape /\ setup' = setup
        /\ stack \in Seq(ToSet(stack)) /\ Depth = Len(stack) /\ Len(stack) \in Nat
        /\ \A e \in 1..Len(stack) : IsFrame(setup, stack[e])
    BY Shapes DEF StackInv, Depth
  <2>1. CASE stack' = stack  BY <2>1
  <2>2. CASE Depth > 0 /\ \E f : Continues(f) /\ stack' = Replace(f)
    <3>1. PICK f : Continues(f) /\ stack' = Replace(f)  BY <2>2
    <3>2. Depth \in 1..Len(stack)  BY <2>0, <2>2
    <3>3. /\ stack'[Depth] = f /\ \A k \in 1..Len(stack) : k # Depth => stack'[k] = stack[k]
      <4>1. stack' = Replacing(stack, Depth, f)  BY <3>1 DEF Replace, Replacing
      <4> QED BY <2>0, <3>2, <4>1, Replaced
    <3>4. CASE d # Depth  BY <2>0, <3>3, <3>4
    <3>5. CASE d = Depth
      <4>1. Running.kind = "poll" /\ PollCtxDone
        BY <3>5 DEF Running, Top, PollCtxDone, NodeCtxDone
      <4>2. f.at = stack[d].at  BY <3>1, <3>5, <4>1 DEF Continues, Top
      <4> QED BY <3>3, <3>5, <4>2
    <3> QED BY <3>4, <3>5
  <2>3. CASE /\ Depth > 0
             /\ \E f, id, flow : /\ Continues(f) /\ f.at = Top.at
                                 /\ ~Contains(CallStack, id) /\ id \in IdsOf(setup)
                                 /\ flow \in DefinitionsOf(setup)
                                 /\ stack' = Append(Replace(f), Frame(id, flow))
    <3>1. PICK f, id, flow : f.at = Top.at /\ stack' = Append(Replace(f), Frame(id, flow))
      BY <2>3
    <3>2. Depth \in 1..Len(stack)  BY <2>0, <2>3
    <3> DEFINE mid == Replace(f)
               new == Frame(id, flow)
    <3>3. /\ mid \in Seq(ToSet(mid)) /\ Len(mid) = Len(stack) /\ mid[Depth] = f
          /\ \A k \in 1..Len(stack) : k # Depth => mid[k] = stack[k]
      <4>1. mid = Replacing(stack, Depth, f)  BY DEF Replace, Replacing
      <4> HIDE DEF mid
      <4> QED BY <2>0, <3>2, <4>1, Replaced
    <3>4. stack' = Append(mid, new)  BY <3>1
    <3> HIDE DEF mid, new
    <3>5. \A k \in 1..Len(stack) : stack'[k] = mid[k]  BY <3>3, <3>4, Pushed
    <3>6. CASE d # Depth  BY <2>0, <3>3, <3>5, <3>6
    <3>7. CASE d = Depth  BY <2>0, <3>1, <3>3, <3>5, <3>7 DEF Top
    <3> QED BY <3>6, <3>7
  <2>4. CASE Depth > 0 /\ stack' = Front(stack)
    <3>1. /\ Len(stack') = Len(stack) - 1
          /\ \A k \in 1..(Len(stack) - 1) : stack'[k] = stack[k]
      BY <2>0, <2>4, Popped
    <3>2. d = Len(stack) \/ d \in 1..(Len(stack) - 1)  BY <2>0
    <3>3. d = Len(stack) => Len(stack') < d  BY <2>0, <3>1
    <3> QED BY <3>1, <3>2, <3>3
  <2>5. CASE \E e \in 1..Depth : stack' = [stack EXCEPT ![e].late = TRUE]
    <3>1. PICK e \in 1..Depth : stack' = [stack EXCEPT ![e].late = TRUE]  BY <2>5
    <3>2. IsFrame(setup, stack[e]) /\ e \in DOMAIN stack /\ d \in DOMAIN stack  BY <2>0
    <3>3. [stack[e] EXCEPT !.late = TRUE].at = stack[e].at
      BY <3>2 DEF IsFrame, FrameFields
    <3> QED BY <3>1, <3>2, <3>3
  <2> QED BY <2>0, <2>1, <2>2, <2>3, <2>4, <2>5 DEF StepShape
<1> QED BY <1>1, StackCorrect, PTL DEF Spec, DeadlineDiscards

=============================================================================
