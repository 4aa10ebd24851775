--------------------------- MODULE FlowEngineProofs ---------------------------
(***************************************************************************)
(* What holds of the flow engine for every set of nodes and every set of   *)
(* flow definitions.  Three parts:                                         *)
(*   1. the types, and that a flow with a cycle is never reported as       *)
(*      successful, for all definitions, cyclic ones included;             *)
(*   2. the order in which the engine runs an acyclic flow (SchedulerInv); *)
(*   3. what the nodes of an acyclic flow see, what observers see and what *)
(*      the execution reports, on top of SchedulerInv.                     *)
(***************************************************************************)
EXTENDS FlowEngine, FiniteSetTheorems, TLAPS

-----------------------------------------------------------------------------
(* Part 1: types and cycles.                                               *)
(*                                                                         *)
(* A cycle through several nodes has a ring, and a step that takes one     *)
(* node of a ring out of remainingInputs makes an entry for the next one.  *)
(* Without a ring the cycle is a node with an edge to itself; of the first *)
(* such node, everything it depends on runs as in an acyclic flow, its own *)
(* count never reaches zero, and resolveBlockedAlwaysNodes passes it over. *)

(* The positions of a flow's edges form a finite set of natural numbers.   *)
LEMMA EdgesFinite ==
  ASSUME NEW f \in Flow
  PROVE  /\ IsFiniteSet(DOMAIN f.edges)
         /\ DOMAIN f.edges \subseteq Nat
         /\ \A i \in DOMAIN f.edges : f.edges[i] \in Node \X Node
<1>1. f.edges \in Seq(Node \X Node)  BY DEF Flow
<1>2. DOMAIN f.edges = 1..Len(f.edges) /\ Len(f.edges) \in Nat  BY <1>1
<1>3. IsFiniteSet(1..Len(f.edges))  BY <1>2, FS_Interval
<1> QED BY <1>1, <1>2, <1>3

(* Taking m out of the pending nodes closes exactly the edges from m to n. *)
LEMMA CloseEdges ==
  ASSUME NEW f \in Flow, NEW P \in SUBSET Node, NEW m \in P, NEW n \in Node
  PROVE  /\ Cardinality(OpenEdges(f, P \ {m}, n)) =
              Cardinality(OpenEdges(f, P, n)) - Cardinality(EdgesBetween(f, m, n))
         /\ Cardinality(OpenEdges(f, P, n)) \in Nat
         /\ Cardinality(EdgesBetween(f, m, n)) \in Nat
<1>1. IsFiniteSet(OpenEdges(f, P, n)) /\ IsFiniteSet(EdgesBetween(f, m, n))
  <2>1. /\ OpenEdges(f, P, n) \in SUBSET DOMAIN f.edges
        /\ EdgesBetween(f, m, n) \in SUBSET DOMAIN f.edges
    BY DEF OpenEdges, EdgesInto, EdgesBetween
  <2> QED BY <2>1, EdgesFinite, FS_Subset
<1>2. OpenEdges(f, P, n) \cap EdgesBetween(f, m, n) = EdgesBetween(f, m, n)
  BY EdgesFinite DEF OpenEdges, EdgesInto, EdgesBetween
<1>3. OpenEdges(f, P \ {m}, n) = OpenEdges(f, P, n) \ EdgesBetween(f, m, n)
  BY EdgesFinite DEF OpenEdges, EdgesInto, EdgesBetween
<1> QED BY <1>1, <1>2, <1>3, FS_Difference, FS_CardinalityType

(* A node is counted down to zero exactly when no predecessor is pending.  *)
LEMMA ZeroMeansNoPendingPredecessor ==
  ASSUME NEW f \in Flow, NEW P \in SUBSET Node, NEW n \in Node
  PROVE  Cardinality(OpenEdges(f, P, n)) = 0 <=> Predecessors(f, n) \cap P = {}
<1>1. IsFiniteSet(OpenEdges(f, P, n))
  <2>1. OpenEdges(f, P, n) \in SUBSET DOMAIN f.edges
    BY DEF OpenEdges, EdgesInto
  <2> QED BY <2>1, EdgesFinite, FS_Subset
<1>2. OpenEdges(f, P, n) = {} <=> Predecessors(f, n) \cap P = {}
  BY EdgesFinite DEF OpenEdges, EdgesInto, EdgesBetween, Predecessors
<1> QED BY <1>1, <1>2, FS_EmptySet

-----------------------------------------------------------------------------
(* Type correctness.                                                       *)

(* A skip reason is one of the five codes.                                 *)
LEMMA ReasonType ==
  \A n, cause : describeSkipCause(n, cause) \in Reason
BY DEF describeSkipCause, Reason

(* recordSkippedNode keeps the state's types.                              *)
LEMMA SkipType ==
  ASSUME StateTypeOK, TaskTypeOK, NEW n \in Node,
         NEW cause \in [Node -> Node \cup {NoNode}],
         recordSkippedNode(n, cause)
  PROVE  StateTypeOK' /\ TaskTypeOK'
<1> USE FlowsAssumption
<1> USE DEF recordSkippedNode, taskVars
<1>1. flow \in Flow /\ flow' = flow  BY DEF StateTypeOK
<1>2. remaining' \in [Node -> Int] /\ pending' \subseteq Node
  <2>1. \A m \in Node : Cardinality(EdgesBetween(flow, n, m)) \in Nat
    <3> TAKE m \in Node
    <3>1. EdgesBetween(flow, n, m) \in SUBSET DOMAIN flow.edges
      BY DEF EdgesBetween
    <3> QED BY <1>1, <3>1, EdgesFinite, FS_Subset, FS_CardinalityType
  <2> QED BY <2>1 DEF markNodeComplete, StateTypeOK, Successors
<1>3. reason' \in [Node -> Reason \cup {"none"}]
  BY ReasonType DEF StateTypeOK
<1>4. StateTypeOK'
  BY <1>1, <1>2, <1>3 DEF StateTypeOK
<1>5. TaskTypeOK'
  BY DEF TaskTypeOK
<1> QED BY <1>4, <1>5

(* phaseScheduler.start keeps the state's types.                           *)
LEMMA StartType ==
  ASSUME StateTypeOK, TaskTypeOK, NEW n \in Node, start(n)
  PROVE  StateTypeOK' /\ TaskTypeOK'
<1>1. StateTypeOK'
  BY DEF StateTypeOK, start, countVars, resultVars
<1>2. NoOutcome \in Outcome
  BY DEF NoOutcome, Outcome, Output, None
<1>3. TaskTypeOK'
  BY <1>2 DEF TaskTypeOK, StateTypeOK, start
<1> QED BY <1>1, <1>3

(* A step that only moves the loop along keeps the state's types.          *)
LEMMA ControlType ==
  ASSUME StateTypeOK, TaskTypeOK, ControlOnly
  PROVE  StateTypeOK' /\ TaskTypeOK'
BY DEF StateTypeOK, TaskTypeOK, ControlOnly, countVars, resultVars, taskVars

(* Receiving a result keeps the state's types.                             *)
LEMMA ReceiveType ==
  ASSUME StateTypeOK, TaskTypeOK, NEW n \in Node, Receive(n)
  PROVE  StateTypeOK' /\ TaskTypeOK'
<1> USE FlowsAssumption
<1>1. flow \in Flow /\ flow' = flow /\ success' = success /\ routedAway' = routedAway
  BY DEF StateTypeOK, Receive
<1>2. remaining' \in [Node -> Int] /\ pending' \subseteq Node
  <2>1. \A m \in Node : Cardinality(EdgesBetween(flow, n, m)) \in Nat
    <3> TAKE m \in Node
    <3>1. EdgesBetween(flow, n, m) \in SUBSET DOMAIN flow.edges
      BY DEF EdgesBetween
    <3> QED BY <1>1, <3>1, EdgesFinite, FS_Subset, FS_CardinalityType
  <2> QED BY <2>1 DEF Receive, markNodeComplete, StateTypeOK, Successors
<1>3. outcome[n].outputs \in Output
  BY DEF TaskTypeOK, Outcome
<1>4. CASE settleAlwaysSkip(n)
  <2>1. reason' \in [Node -> Reason \cup {"none"}]
    BY <1>4, ReasonType DEF StateTypeOK, settleAlwaysSkip
  <2>2. deadEdges' \subseteq Node \X Node
    BY <1>4 DEF StateTypeOK, settleAlwaysSkip, recordRoutingDecision, Successors
  <2>3. StateTypeOK'
    BY <1>1, <1>2, <1>4, <2>1, <2>2 DEF StateTypeOK, settleAlwaysSkip, Output, Empty
  <2>4. TaskTypeOK'
    BY <1>4 DEF TaskTypeOK, settleAlwaysSkip, Receive
  <2> QED BY <2>3, <2>4
<1>5. CASE recordFailure(n)
  <2>1. StateTypeOK'
    BY <1>1, <1>2, <1>3, <1>5 DEF StateTypeOK, recordFailure
  <2>2. TaskTypeOK'
    BY <1>5 DEF TaskTypeOK, recordFailure, Receive
  <2> QED BY <2>1, <2>2
<1>6. CASE recordSuccess(n)
  <2>1. deadEdges' \subseteq Node \X Node
    BY <1>6 DEF StateTypeOK, recordSuccess, recordRoutingDecision, Successors
  <2>2. StateTypeOK'
    BY <1>1, <1>2, <1>3, <1>6, <2>1 DEF StateTypeOK, recordSuccess
  <2>3. TaskTypeOK'
    BY <1>6 DEF TaskTypeOK, recordSuccess, Receive
  <2> QED BY <2>2, <2>3
<1> QED BY <1>4, <1>5, <1>6 DEF Receive

(* A goroutine's step keeps the state's types.                             *)
LEMMA GoroutineType ==
  ASSUME StateTypeOK, TaskTypeOK, NEW n \in Node, Goroutine(n)
  PROVE  LoopTypeOK' = LoopTypeOK /\ StateTypeOK' /\ TaskTypeOK'
<1>1. GoroutineOnly
  BY DEF Goroutine, RejectInputs, NodeStarted, NodeFinished, SendDone
<1>2. (LoopTypeOK' = LoopTypeOK) /\ StateTypeOK'
  BY <1>1 DEF GoroutineOnly, LoopTypeOK, StateTypeOK, loopVars, countVars, resultVars
<1>3. CASE RejectInputs(n)
  <2>1. MissingInputs \in Outcome /\ NilError \in Outcome
    BY DEF MissingInputs, NilError, Outcome, Output, None
  <2> QED BY <1>1, <1>2, <1>3, <2>1 DEF RejectInputs, TaskTypeOK, GoroutineOnly
<1>4. CASE NodeStarted(n)
  BY <1>1, <1>2, <1>4 DEF NodeStarted, TaskTypeOK, GoroutineOnly
<1>5. CASE NodeFinished(n)
  <2>1. NodeOutcomes(n) \subseteq Outcome
    BY DEF NodeOutcomes, Outcome, Output, Full, Empty, Routes, Successors
  <2> QED BY <1>1, <1>2, <1>5, <2>1 DEF NodeFinished, TaskTypeOK, GoroutineOnly
<1>6. CASE SendDone(n)
  BY <1>1, <1>2, <1>6 DEF SendDone, TaskTypeOK, GoroutineOnly
<1> QED BY <1>3, <1>4, <1>5, <1>6 DEF Goroutine

(* Initially every variable has its type.                                  *)
LEMMA InitType == Init => TypeOK
<1> SUFFICES ASSUME Init PROVE TypeOK  OBVIOUS
<1> USE FlowsAssumption
<1>1. \A n \in Node : nodeEdgeInput(flow, n) \in Nat
  <2> TAKE n \in Node
  <2>1. flow \in Flow  BY DEF Init
  <2>2. EdgesInto(flow, n) \in SUBSET DOMAIN flow.edges  BY DEF EdgesInto
  <2> QED BY <2>1, <2>2, EdgesFinite, FS_Subset, FS_CardinalityType
          DEF nodeEdgeInput
<1>2. LoopTypeOK  BY DEF Init, LoopTypeOK
<1>3. StateTypeOK
  <2>1. remaining \in [Node -> Int]  BY <1>1 DEF Init
  <2>2. allOutputs \in [Node -> Output]  BY DEF Init, Output
  <2>3. failureCause \in [Node -> Node \cup {NoNode}]  BY DEF Init
  <2>4. /\ results \in [Node -> {"none", "ok", "failed", "nil", "skipped"}]
        /\ reason \in [Node -> Reason \cup {"none"}]
    BY DEF Init
  <2> QED BY <2>1, <2>2, <2>3, <2>4 DEF Init, StateTypeOK
<1>4. TaskTypeOK
  BY DEF Init, TaskTypeOK, NoOutcome, Outcome, Output, None
<1> QED BY <1>2, <1>3, <1>4 DEF TypeOK

(* Every variable keeps the shape of the Go value it stands for, for every *)
(* set of nodes and of flow definitions, cyclic ones included.             *)
THEOREM TypeCorrect == Spec => []TypeOK
<1>1. TypeOK /\ [Next]_vars => TypeOK'
  <2> SUFFICES ASSUME TypeOK, [Next]_vars PROVE TypeOK'  OBVIOUS
  <2> USE DEF TypeOK
  <2> USE DEF Goto
  <2>1. CASE ScanReady
    BY <2>1, ControlType DEF ScanReady, LoopTypeOK, ready, StateTypeOK
  <2>2. ASSUME NEW n \in Node, SkipReady(n) PROVE TypeOK'
    <3>1. LoopTypeOK'  BY <2>2 DEF SkipReady, LoopTypeOK
    <3>2. CASE recordSkippedNode(n, failureCause)
      BY <3>1, <3>2, SkipType DEF StateTypeOK
    <3>3. ASSUME NEW i \in BlockingEdges(n),
                 recordSkippedNode(n, [failureCause EXCEPT ![n] =
                                         failureCause[flow.edges[i][1]]])
          PROVE  TypeOK'
      <4>1. flow.edges[i][1] \in Node
        BY FlowsAssumption, EdgesFinite DEF BlockingEdges, EdgesInto, StateTypeOK
      <4>2. [failureCause EXCEPT ![n] = failureCause[flow.edges[i][1]]]
              \in [Node -> Node \cup {NoNode}]
        BY <4>1 DEF StateTypeOK
      <4> QED BY <3>1, <3>3, <4>2, SkipType
    <3> QED BY <2>2, <3>2, <3>3 DEF SkipReady
  <2>3. ASSUME NEW n \in Node, StartReady(n) PROVE TypeOK'
    BY <2>3, StartType DEF StartReady, LoopTypeOK
  <2>4. CASE EndPass
    BY <2>4, ControlType DEF EndPass, LoopTypeOK, ready, StateTypeOK
  <2>5. ASSUME NEW n \in Node, SkipRoutedAway(n) PROVE TypeOK'
    BY <2>5, SkipType DEF SkipRoutedAway, LoopTypeOK, StateTypeOK
  <2>6. ASSUME NEW n \in Node, KeepAlways(n) PROVE TypeOK'
    BY <2>6, ControlType DEF KeepAlways, LoopTypeOK
  <2>7. CASE EndRouted
    BY <2>7, ControlType DEF EndRouted, LoopTypeOK, ready, StateTypeOK
  <2>8. ASSUME NEW n \in Node, StartAlways(n) PROVE TypeOK'
    BY <2>8, StartType DEF StartAlways, LoopTypeOK
  <2>9. CASE EndStartAlways
    BY <2>9, ControlType DEF EndStartAlways, LoopTypeOK
  <2>10. CASE BeginAlwaysPhase
    BY <2>10, ControlType DEF BeginAlwaysPhase, LoopTypeOK
  <2>11. CASE ResolveBlocked
    BY <2>11, ControlType
       DEF ResolveBlocked, BlockedAlways, BlockedToRun, LoopTypeOK, StateTypeOK
  <2>12. ASSUME NEW n \in Node, SkipBlocked(n) PROVE TypeOK'
    BY <2>12, SkipType DEF SkipBlocked, LoopTypeOK, StateTypeOK
  <2>13. CASE EndSkipBlocked
    BY <2>13, ControlType DEF EndSkipBlocked, LoopTypeOK
  <2>14. ASSUME NEW n \in Node, StartBlocked(n) PROVE TypeOK'
    BY <2>14, StartType DEF StartBlocked, LoopTypeOK
  <2>15. CASE EndStartBlocked
    BY <2>15, ControlType DEF EndStartBlocked, LoopTypeOK
  <2>16. CASE finalizeExecution
    <3>1. LoopTypeOK' /\ TaskTypeOK'
      BY <2>16 DEF finalizeExecution, LoopTypeOK, TaskTypeOK, taskVars
    <3>2. success' \in BOOLEAN /\ error' \in Node \cup {NoNode, CycleError}
      BY <2>16 DEF finalizeExecution, StateTypeOK
    <3>3. StateTypeOK'
      BY <2>16, <3>2 DEF finalizeExecution, StateTypeOK, countVars
    <3> QED BY <3>1, <3>3
  <2>17. ASSUME NEW n \in Node, Receive(n) PROVE TypeOK'
    BY <2>17, ReceiveType DEF Receive, LoopTypeOK
  <2>18. ASSUME NEW n \in Node, Goroutine(n) PROVE TypeOK'
    BY <2>18, GoroutineType
  <2>19. CASE UNCHANGED vars
    BY <2>19 DEF vars, loopVars, countVars, resultVars, taskVars, LoopTypeOK,
                 StateTypeOK, TaskTypeOK
  <2> QED BY <2>1, <2>2, <2>3, <2>4, <2>5, <2>6, <2>7, <2>8, <2>9, <2>10, <2>11,
             <2>12, <2>13, <2>14, <2>15, <2>16, <2>17, <2>18, <2>19
          DEF Next, Scheduler, Terminated
<1> QED BY <1>1, InitType, PTL DEF Spec
-----------------------------------------------------------------------------
(* Flows with a cycle.                                                     *)

(* A set of nodes each of which has another one of the set as successor.   *)
Ring(f, C) == C # {} /\ \A n \in C : Successors(f, n) \cap (C \ {n}) # {}

(* A node s with an edge to itself, and an acyclic part W of the flow that *)
(* has all that s depends on.                                              *)
Stuck(f, W, s) ==
  /\ s \notin W /\ s \in Predecessors(f, s) /\ Predecessors(f, s) \subseteq W \cup {s}
  /\ \A n \in W : Predecessors(f, n) \subseteq W
  /\ \A S \in (SUBSET W) \ {{}} : \E n \in S : Predecessors(f, n) \cap S = {}

(* A set in which everyone has another one as predecessor has a ring in    *)
(* it: the smallest such set.                                              *)
LEMMA SmallestIsRing ==
  ASSUME NEW f, NEW B \in SUBSET Node, B # {},
         \A n \in B : Predecessors(f, n) \cap (B \ {n}) # {}
  PROVE  \E C \in SUBSET Node : Ring(f, C)
<1> DEFINE Chained(C) == C # {} /\ \A n \in C : Predecessors(f, n) \cap (C \ {n}) # {}
           T == {C \in SUBSET Node : Chained(C)}
           R == StrictSubsetOrdering(Node)
<1>1. IsWellFoundedOn(R, SUBSET Node)
  BY NodeAssumption, FS_FiniteSubsetsOfFinite, FS_StrictSubsetOrderingWellFounded
<1>2. T # {} /\ T \subseteq SUBSET Node  OBVIOUS
<1>3. PICK C \in T : \A S \in T : <<S, C>> \notin R
  <2> HIDE DEF T, R
  <2> QED BY <1>1, <1>2, WFMin
<1>4. ASSUME NEW n \in C, Successors(f, n) \cap (C \ {n}) = {} PROVE FALSE
  <2>1. C \ {n} # {}  BY <1>3
  <2>2. ASSUME NEW m \in C \ {n} PROVE Predecessors(f, m) \cap ((C \ {n}) \ {m}) # {}
    <3>1. PICK p \in C \ {m} : p \in Predecessors(f, m)  BY <1>3
    <3>2. p # n
      <4>1. m \notin Successors(f, n) /\ m \in Node  BY <1>3, <1>4
      <4> QED BY <3>1, <4>1 DEF Successors, Predecessors
    <3> QED BY <3>1, <3>2
  <2>3. C \ {n} \in T  BY <1>3, <2>1, <2>2
  <2>4. <<C \ {n}, C>> \in R  BY <1>3 DEF StrictSubsetOrdering
  <2> QED BY <1>3, <2>3, <2>4
<1>5. Ring(f, C)  BY <1>3, <1>4 DEF Ring
<1> QED BY <1>3, <1>5

(* A flow with a cycle has a ring or a stuck node: without a ring the      *)
(* cycle is an edge from a node to itself, and the first such node is      *)
(* stuck.                                                                  *)
LEMMA RingOrStuck ==
  ASSUME NEW f, ~Acyclic(f)
  PROVE  \/ \E C \in SUBSET Node : Ring(f, C)
         \/ \E W \in SUBSET Node, s \in Node : Stuck(f, W, s)
<1>1. CASE \E B \in SUBSET Node :
             B # {} /\ \A n \in B : Predecessors(f, n) \cap (B \ {n}) # {}
  BY <1>1, SmallestIsRing
<1>2. CASE \A B \in (SUBSET Node) \ {{}} :
             \E n \in B : Predecessors(f, n) \cap (B \ {n}) = {}
  <2> DEFINE L == {n \in Node : n \in Predecessors(f, n)}
             Below(T) == L \subseteq T /\ \A n \in T : Successors(f, n) \subseteq T
             D == {n \in Node : \A T \in SUBSET Node : Below(T) => n \in T}
             W == Node \ D
  <2>1. L # {}
    <3>1. PICK S \in (SUBSET Node) \ {{}} : \A n \in S : Predecessors(f, n) \cap S # {}
      BY DEF Acyclic
    <3>2. PICK n \in S : Predecessors(f, n) \cap (S \ {n}) = {}  BY <1>2
    <3> QED BY <3>1, <3>2
  <2>2. L \subseteq D /\ D \subseteq Node  OBVIOUS
  <2>3. ASSUME NEW n \in D PROVE Successors(f, n) \subseteq D
    BY DEF Successors
  <2>4. PICK s \in D : Predecessors(f, s) \cap (D \ {s}) = {}
    <3>1. D \in (SUBSET Node) \ {{}}  BY <2>1, <2>2
    <3> HIDE DEF D
    <3> QED BY <1>2, <3>1
  <2>5. s \in L
    <3> SUFFICES ASSUME s \notin L PROVE FALSE  OBVIOUS
    <3>1. ASSUME NEW n \in D \ {s} PROVE Successors(f, n) \subseteq D \ {s}
      <4>1. s \notin Successors(f, n)
        BY <2>2, <2>4 DEF Successors, Predecessors
      <4> QED BY <2>3, <4>1
    <3>2. Below(D \ {s}) /\ D \ {s} \in SUBSET Node  BY <2>2, <3>1
    <3> HIDE DEF Below
    <3> QED BY <3>2
  <2>6. ASSUME NEW n \in W PROVE Predecessors(f, n) \subseteq W
    <3> SUFFICES ASSUME NEW p \in Predecessors(f, n), p \in D PROVE FALSE
      BY DEF Predecessors
    <3>1. n \in Successors(f, p)  BY DEF Predecessors, Successors
    <3> HIDE DEF D
    <3> QED BY <2>3, <3>1
  <2>7. Predecessors(f, s) \subseteq W \cup {s} /\ s \in Predecessors(f, s) /\ s \notin W
    BY <2>4, <2>5 DEF Predecessors
  <2>8. ASSUME NEW S \in (SUBSET W) \ {{}} PROVE \E n \in S : Predecessors(f, n) \cap S = {}
    <3>1. PICK n \in S : Predecessors(f, n) \cap (S \ {n}) = {}
      <4>1. S \in (SUBSET Node) \ {{}}  OBVIOUS
      <4> QED BY <1>2, <4>1
    <3>2. n \notin L  BY <2>2, <3>1
    <3> QED BY <3>1, <3>2
  <2>9. Stuck(f, W, s)
    <3> HIDE DEF W
    <3> QED BY <2>6, <2>7, <2>8 DEF Stuck
  <2>10. W \in SUBSET Node /\ s \in Node  BY <2>2
  <2> QED BY <2>9, <2>10
<1> QED BY <1>1, <1>2

(* A step takes at most one node out of remainingInputs, with              *)
(* markNodeComplete.                                                       *)
LEMMA CompletesOne ==
  ASSUME [Next]_vars
  PROVE  /\ flow' = flow
         /\ pending' = pending \/ \E n \in Node : markNodeComplete(n)
<1> DEFINE P == flow' = flow /\ (pending' = pending \/ \E n \in Node : markNodeComplete(n))
<1>1. ASSUME NEW n \in Node, NEW cause, recordSkippedNode(n, cause) PROVE P
  BY <1>1 DEF recordSkippedNode
<1>2. ASSUME NEW n \in Node, SkipReady(n) \/ SkipRoutedAway(n) \/ SkipBlocked(n) PROVE P
  <2>1. \E cause : recordSkippedNode(n, cause)
    BY <1>2 DEF SkipReady, SkipRoutedAway, SkipBlocked
  <2> QED BY <1>1, <2>1
<1>3. ASSUME NEW n \in Node, Receive(n) PROVE P
  BY <1>3 DEF Receive
<1>4. ASSUME NEW n \in Node, \/ StartReady(n) \/ StartAlways(n) \/ StartBlocked(n)
                             \/ KeepAlways(n) \/ Goroutine(n)
      PROVE  P
  BY <1>4 DEF StartReady, StartAlways, StartBlocked, start, KeepAlways, ControlOnly,
              Goroutine, RejectInputs, NodeStarted, NodeFinished, SendDone, GoroutineOnly,
              countVars
<1>5. CASE \/ ScanReady \/ EndPass \/ EndRouted \/ EndStartAlways \/ BeginAlwaysPhase
           \/ ResolveBlocked \/ EndSkipBlocked \/ EndStartBlocked
  BY <1>5 DEF ScanReady, EndPass, EndRouted, EndStartAlways, BeginAlwaysPhase,
              ResolveBlocked, EndSkipBlocked, EndStartBlocked, ControlOnly, countVars
<1>6. CASE finalizeExecution \/ UNCHANGED vars
  BY <1>6 DEF finalizeExecution, vars, countVars
<1> QED BY <1>2, <1>3, <1>4, <1>5, <1>6 DEF Next, Scheduler, Terminated

(* Something of a ring is always pending: completing a node of it makes an *)
(* entry for the next.                                                     *)
LEMMA RingStep ==
  ASSUME [Next]_vars, NEW C \in SUBSET Node, Ring(flow, C), C \cap pending # {}
  PROVE  Ring(flow', C) /\ C \cap pending' # {}
<1>1. flow' = flow /\ (pending' = pending \/ \E n \in Node : markNodeComplete(n))
  BY CompletesOne
<1>2. ASSUME NEW n \in Node, markNodeComplete(n) PROVE C \cap pending' # {}
  <2>1. pending' = (pending \cup Successors(flow, n)) \ {n}
    BY <1>2 DEF markNodeComplete
  <2>2. CASE n \in C
    <3>1. PICK m \in C \ {n} : m \in Successors(flow, n)  BY <2>2 DEF Ring
    <3> QED BY <2>1, <3>1
  <2>3. CASE n \notin C  BY <2>1, <2>3
  <2> QED BY <2>2, <2>3
<1> QED BY <1>1, <1>2

-----------------------------------------------------------------------------
(* A stuck node keeps its entry.  On the part W of the flow that it        *)
(* depends on, remainingInputs counts the open edges as in an acyclic      *)
(* flow, and the loop loses no ready node of W.                            *)

StuckCounts(W, s) ==
  /\ s \in pending /\ s \notin inFlight \cup todo \cup toRun
  /\ \A n \in W \cup {s} : n \in pending =>
       remaining[n] = Cardinality(OpenEdges(flow, pending, n))
  /\ \A n \in W : n \notin pending \/ n \in inFlight \cup todo =>
       Predecessors(flow, n) \cap pending = {}
  /\ W \cap (inFlight \cup todo) \subseteq pending
  /\ W \cap inFlight \cap todo = {} /\ W \cap toRun = {}

StuckLoop(W) ==
  /\ pc = "pass" => skippedInPass \/ W \cap ready(OnSuccess) \subseteq todo
  /\ pc = "routed" => skippedInPass \/ W \cap ready(OnSuccess) = {}
  /\ pc = "startAlways" => /\ W \cap ready(OnSuccess) = {}
                           /\ W \cap ready(Always) \subseteq todo
  /\ pc = "select" => /\ W \cap ready(OnSuccess) = {}
                      /\ phase = Always => W \cap ready(Always) = {}
  /\ pc \in {"blockedSkip", "blockedRun"} => W \cap pending = {}

StuckInv(W, s) == Stuck(flow, W, s) /\ StuckCounts(W, s) /\ StuckLoop(W)

(* The nodes of W that are ready are those without a pending predecessor;  *)
(* the stuck node is not ready, nor one that resolveBlockedAlwaysNodes     *)
(* takes.                                                                  *)
LEMMA StuckReady ==
  ASSUME StateTypeOK, NEW W \in SUBSET Node, NEW s \in Node,
         Stuck(flow, W, s), StuckCounts(W, s)
  PROVE  /\ \A n \in W \cap pending :
              remaining[n] = 0 <=> Predecessors(flow, n) \cap pending = {}
         /\ s \notin ready(OnSuccess) /\ s \notin ready(Always) /\ s \notin BlockedAlways
<1>1. flow \in Flow /\ pending \in SUBSET Node  BY FlowsAssumption DEF StateTypeOK
<1>2. \A n \in W \cap pending :
        remaining[n] = 0 <=> Predecessors(flow, n) \cap pending = {}
  BY <1>1, ZeroMeansNoPendingPredecessor DEF StuckCounts
<1>3. remaining[s] # 0
  BY <1>1, ZeroMeansNoPendingPredecessor DEF StuckCounts, Stuck
<1>4. s \notin BlockedAlways
  BY DEF BlockedAlways, hasRemainingAlwaysPredecessor, Stuck, StuckCounts
<1> QED BY <1>2, <1>3, <1>4 DEF ready

(* Completing a node other than the stuck one.                             *)
LEMMA StuckComplete ==
  ASSUME StateTypeOK, NEW W \in SUBSET Node, NEW s \in Node,
         Stuck(flow, W, s), StuckCounts(W, s), NEW n \in Node \ {s},
         n \in W => n \in pending /\ Predecessors(flow, n) \cap pending = {},
         markNodeComplete(n), flow' = flow
  PROVE  /\ s \in pending' /\ W \cap pending' = (W \cap pending) \ {n}
         /\ \A m \in W \cup {s} : m \in pending' =>
              remaining'[m] = Cardinality(OpenEdges(flow', pending', m))
<1>1. flow \in Flow /\ pending \in SUBSET Node  BY FlowsAssumption DEF StateTypeOK
<1>2. pending' = (pending \cup Successors(flow, n)) \ {n}  BY DEF markNodeComplete
<1>3. ASSUME NEW m \in W \cap Successors(flow, n), m # n PROVE m \in pending
  <2>1. n \in Predecessors(flow, m)  BY DEF Successors, Predecessors
  <2>2. n \in W  BY <2>1 DEF Stuck
  <2> QED BY <2>1, <2>2 DEF StuckCounts
<1>4. s \in pending' /\ W \cap pending' = (W \cap pending) \ {n}
  BY <1>2, <1>3 DEF StuckCounts
<1>5. ASSUME NEW m \in W \cup {s}, m \in pending'
      PROVE  remaining'[m] = Cardinality(OpenEdges(flow', pending', m))
  <2>1. m \in Node /\ m \in pending /\ m # n
    BY <1>2, <1>4, <1>5 DEF StuckCounts
  <2>2. remaining'[m] = remaining[m] - Cardinality(EdgesBetween(flow, n, m))
    BY <2>1 DEF markNodeComplete
  <2>3. remaining[m] = Cardinality(OpenEdges(flow, pending, m))
    BY <2>1 DEF StuckCounts
  <2>4. \A i \in EdgesInto(flow, m) : flow.edges[i][1] \in Predecessors(flow, m)
    <3> TAKE i \in EdgesInto(flow, m)
    <3>1. i \in DOMAIN flow.edges /\ flow.edges[i] \in Node \X Node /\ flow.edges[i][2] = m
      BY <1>1, EdgesFinite DEF EdgesInto
    <3>2. flow.edges[i] = <<flow.edges[i][1], m>>  BY <3>1
    <3> QED BY <3>1, <3>2 DEF Predecessors, EdgesBetween
  <2>5. Predecessors(flow, m) \subseteq W \cup {s}  BY DEF Stuck
  <2>6. CASE n \in W
    <3>1. OpenEdges(flow, pending', m) = OpenEdges(flow, pending \ {n}, m)
      <4>1. \A p \in W \cup {s} : p \in pending' <=> p \in pending \ {n}
        BY <1>4 DEF StuckCounts
      <4> QED BY <2>4, <2>5, <4>1 DEF OpenEdges
    <3>2. Cardinality(OpenEdges(flow, pending \ {n}, m)) =
            Cardinality(OpenEdges(flow, pending, m)) - Cardinality(EdgesBetween(flow, n, m))
      BY <1>1, <2>1, <2>6, CloseEdges
    <3> QED BY <2>2, <2>3, <3>1, <3>2
  <2>7. CASE n \notin W
    <3>1. n \notin Predecessors(flow, m)  BY <2>5, <2>7
    <3>2. EdgesBetween(flow, n, m) = {}  BY <3>1 DEF Predecessors
    <3>3. OpenEdges(flow, pending', m) = OpenEdges(flow, pending, m)
      <4>1. \A p \in W \cup {s} : p \in pending' <=> p \in pending
        BY <1>4, <2>7 DEF StuckCounts
      <4> QED BY <2>4, <2>5, <4>1 DEF OpenEdges
    <3>4. Cardinality({}) = 0  BY FS_EmptySet
    <3>5. remaining[m] \in Int  BY <2>1 DEF StateTypeOK
    <3> QED BY <2>2, <2>3, <3>2, <3>3, <3>4, <3>5
  <2> QED BY <2>6, <2>7
<1> QED BY <1>4, <1>5

(* Settling a node at hand or a running one.                               *)
LEMMA StuckSettle ==
  ASSUME StateTypeOK, TaskTypeOK, LoopTypeOK, NEW W \in SUBSET Node, NEW s \in Node,
         Stuck(flow, W, s), StuckCounts(W, s), NEW n \in inFlight \cup todo,
         markNodeComplete(n), flow' = flow, inFlight' \subseteq inFlight, todo' \subseteq todo,
         n \in W => n \notin inFlight' \cup todo', toRun' = toRun
  PROVE  /\ Stuck(flow', W, s) /\ StuckCounts(W, s)'
         /\ W \cap pending' = (W \cap pending) \ {n}
<1>1. n \in Node \ {s}  BY DEF StuckCounts, LoopTypeOK, TaskTypeOK
<1>2. n \in W => n \in pending /\ Predecessors(flow, n) \cap pending = {}
  BY DEF StuckCounts
<1>3. /\ s \in pending' /\ W \cap pending' = (W \cap pending) \ {n}
      /\ \A m \in W \cup {s} : m \in pending' =>
           remaining'[m] = Cardinality(OpenEdges(flow', pending', m))
  BY <1>1, <1>2, StuckComplete
<1>4. ASSUME NEW m \in W, m \notin pending' \/ m \in inFlight' \cup todo'
      PROVE  Predecessors(flow', m) \cap pending' = {}
  <2>1. Predecessors(flow, m) \subseteq W  BY DEF Stuck
  <2>2. Predecessors(flow, m) \cap pending = {}
    BY <1>2, <1>3, <1>4 DEF StuckCounts
  <2> QED BY <1>3, <2>1, <2>2
<1>5. s \notin inFlight' \cup todo' \cup toRun'  BY DEF StuckCounts
<1>6. W \cap (inFlight' \cup todo') \subseteq pending'
  BY <1>3 DEF StuckCounts
<1>7. W \cap inFlight' \cap todo' = {} /\ W \cap toRun' = {}  BY DEF StuckCounts
<1> QED BY <1>3, <1>4, <1>5, <1>6, <1>7 DEF StuckCounts

(* Steps that leave the counts and the running nodes alone.                *)
LEMMA StuckControl ==
  ASSUME NEW W \in SUBSET Node, NEW s \in Node, Stuck(flow, W, s), StuckCounts(W, s),
         UNCHANGED <<flow, pending, remaining, inFlight>>,
         s \notin todo' \cup toRun', W \cap toRun' = {},
         \A n \in W \cap todo' : /\ n \in pending \ inFlight
                                 /\ Predecessors(flow, n) \cap pending = {}
  PROVE  /\ Stuck(flow', W, s) /\ StuckCounts(W, s)'
         /\ ready(OnSuccess)' = ready(OnSuccess) /\ ready(Always)' = ready(Always)
<1>1. ready(OnSuccess)' = ready(OnSuccess) /\ ready(Always)' = ready(Always)
  BY DEF ready, OnSuccess, Always
<1>2. s \in pending' /\ s \notin inFlight' \cup todo' \cup toRun'
  BY DEF StuckCounts
<1>3. \A n \in W \cup {s} : n \in pending' =>
        remaining'[n] = Cardinality(OpenEdges(flow', pending', n))
  BY DEF StuckCounts
<1>4. \A n \in W : n \notin pending' \/ n \in inFlight' \cup todo' =>
        Predecessors(flow', n) \cap pending' = {}
  BY DEF StuckCounts
<1>5. /\ W \cap (inFlight' \cup todo') \subseteq pending'
      /\ W \cap inFlight' \cap todo' = {} /\ W \cap toRun' = {}
  BY DEF StuckCounts
<1> QED BY <1>1, <1>2, <1>3, <1>4, <1>5 DEF StuckCounts

(* Starting the node at hand.                                              *)
LEMMA StuckStart ==
  ASSUME NEW W \in SUBSET Node, NEW s \in Node, Stuck(flow, W, s), StuckCounts(W, s),
         NEW n \in todo, start(n), todo' = todo \ {n}, toRun' = toRun
  PROVE  /\ Stuck(flow', W, s) /\ StuckCounts(W, s)' /\ pending' = pending
         /\ ready(OnSuccess)' = ready(OnSuccess) \ {n} /\ ready(Always)' = ready(Always) \ {n}
<1>1. UNCHANGED <<flow, pending, remaining>> /\ inFlight' = inFlight \cup {n}
  BY DEF start, countVars
<1>2. ready(OnSuccess)' = ready(OnSuccess) \ {n} /\ ready(Always)' = ready(Always) \ {n}
  BY <1>1 DEF ready, OnSuccess, Always
<1>3. s \in pending' /\ s \notin inFlight' \cup todo' \cup toRun'
  BY <1>1 DEF StuckCounts
<1>4. \A m \in W \cup {s} : m \in pending' =>
        remaining'[m] = Cardinality(OpenEdges(flow', pending', m))
  BY <1>1 DEF StuckCounts
<1>5. \A m \in W : m \notin pending' \/ m \in inFlight' \cup todo' =>
        Predecessors(flow', m) \cap pending' = {}
  BY <1>1 DEF StuckCounts
<1>6. /\ W \cap (inFlight' \cup todo') \subseteq pending'
      /\ W \cap inFlight' \cap todo' = {} /\ W \cap toRun' = {}
  BY <1>1 DEF StuckCounts
<1> QED BY <1>1, <1>2, <1>3, <1>4, <1>5, <1>6 DEF StuckCounts

(* Nothing of W is pending when the always loop has nothing to start.      *)
LEMMA StuckIdle ==
  ASSUME StateTypeOK, NEW W \in SUBSET Node, NEW s \in Node,
         Stuck(flow, W, s), StuckCounts(W, s), inFlight = {},
         W \cap ready(OnSuccess) = {}, W \cap ready(Always) = {}
  PROVE  W \cap pending = {}
<1> SUFFICES ASSUME W \cap pending # {} PROVE FALSE  OBVIOUS
<1>1. PICK n \in W \cap pending : Predecessors(flow, n) \cap (W \cap pending) = {}
  BY DEF Stuck
<1>2. Predecessors(flow, n) \cap pending = {}  BY <1>1 DEF Stuck
<1>3. remaining[n] = 0  BY <1>2, StuckReady
<1>4. flow.runWhen[n] \in {OnSuccess, Always}
  BY FlowsAssumption DEF StateTypeOK, Flow
<1> QED BY <1>3, <1>4 DEF ready

(* StuckInv is inductive: one step per action.                             *)
LEMMA StuckStep ==
  ASSUME TypeOK, NEW W \in SUBSET Node, NEW s \in Node, StuckInv(W, s), [Next]_vars
  PROVE  StuckInv(W, s)'
<1> USE DEF TypeOK
<1>a. Stuck(flow, W, s) /\ StuckCounts(W, s) /\ StuckLoop(W)  BY DEF StuckInv
<1>b. /\ \A n \in W \cap ready(OnSuccess) : Predecessors(flow, n) \cap pending = {}
      /\ \A n \in W \cap ready(Always) : Predecessors(flow, n) \cap pending = {}
      /\ s \notin ready(OnSuccess) /\ s \notin ready(Always) /\ s \notin BlockedAlways
      /\ \A n \in ready(OnSuccess) \cup ready(Always) : n \in pending \ inFlight
  BY <1>a, StuckReady DEF ready
<1>c. /\ s \notin todo \cup toRun /\ W \cap toRun = {}
      /\ \A n \in W \cap todo : /\ n \in pending \ inFlight
                                /\ Predecessors(flow, n) \cap pending = {}
  BY <1>a DEF StuckCounts
<1>d. ASSUME ControlOnly PROVE UNCHANGED <<flow, pending, remaining, inFlight>>
  BY <1>d DEF ControlOnly, countVars, taskVars
<1>1. CASE ScanReady
  <2>1. ControlOnly /\ pc' = "pass" /\ todo' = ready(OnSuccess) /\ toRun' = toRun
    BY <1>1 DEF ScanReady, Goto
  <2>2. /\ Stuck(flow', W, s) /\ StuckCounts(W, s)'
        /\ ready(OnSuccess)' = ready(OnSuccess) /\ ready(Always)' = ready(Always)
    BY <1>a, <1>b, <1>c, <1>d, <2>1, StuckControl
  <2>3. StuckLoop(W)'  BY <2>1, <2>2 DEF StuckLoop
  <2> QED BY <2>2, <2>3 DEF StuckInv
<1>2. ASSUME NEW n \in Node, SkipReady(n) \/ SkipRoutedAway(n) \/ SkipBlocked(n)
      PROVE  StuckInv(W, s)'
  <2>1. /\ n \in todo /\ todo' = todo \ {n} /\ toRun' = toRun /\ pc' = pc
        /\ \/ pc \in {"pass", "routed"} /\ skippedInPass' = TRUE
           \/ pc = "blockedSkip"
    BY <1>2 DEF SkipReady, SkipRoutedAway, SkipBlocked, Goto, First
  <2>2. \E cause : recordSkippedNode(n, cause)
    BY <1>2 DEF SkipReady, SkipRoutedAway, SkipBlocked
  <2>3. markNodeComplete(n) /\ UNCHANGED <<flow, inFlight>>
    BY <2>2 DEF recordSkippedNode, taskVars
  <2>4. n \in W => n \notin inFlight' \cup todo'  BY <1>c, <2>1, <2>3
  <2>5. /\ Stuck(flow', W, s) /\ StuckCounts(W, s)'
        /\ W \cap pending' = (W \cap pending) \ {n}
    BY <1>a, <2>1, <2>3, <2>4, StuckSettle
  <2>6. StuckLoop(W)'  BY <1>a, <2>1, <2>5 DEF StuckLoop
  <2> QED BY <2>5, <2>6 DEF StuckInv
<1>3. ASSUME NEW n \in Node, StartReady(n) \/ StartAlways(n) \/ StartBlocked(n)
      PROVE  StuckInv(W, s)'
  <2>1. /\ n \in todo /\ todo' = todo \ {n} /\ start(n)
        /\ UNCHANGED <<toRun, pc, phase, skippedInPass>>
        /\ pc \in {"pass", "startAlways", "blockedRun"}
    BY <1>3 DEF StartReady, StartAlways, StartBlocked, Goto, First
  <2>2. /\ Stuck(flow', W, s) /\ StuckCounts(W, s)' /\ pending' = pending
        /\ ready(OnSuccess)' = ready(OnSuccess) \ {n} /\ ready(Always)' = ready(Always) \ {n}
    BY <1>a, <2>1, StuckStart
  <2>3. StuckLoop(W)'  BY <1>a, <2>1, <2>2 DEF StuckLoop
  <2> QED BY <2>2, <2>3 DEF StuckInv
<1>4. CASE EndPass
  <2>1. /\ ControlOnly /\ toRun' = toRun /\ phase' = phase /\ pc = "pass" /\ todo = {}
        /\ \/ pc' = "scan" /\ todo' = {}
           \/ ~skippedInPass /\ phase = OnSuccess /\ pc' = "select" /\ todo' = {}
           \/ ~skippedInPass /\ pc' = "routed" /\ todo' = ready(Always)
    BY <1>4 DEF EndPass, Goto
  <2>2. /\ Stuck(flow', W, s) /\ StuckCounts(W, s)'
        /\ ready(OnSuccess)' = ready(OnSuccess) /\ ready(Always)' = ready(Always)
    BY <1>a, <1>b, <1>c, <1>d, <2>1, StuckControl
  <2>3. StuckLoop(W)'  BY <1>a, <2>1, <2>2 DEF StuckLoop, OnSuccess, Always
  <2> QED BY <2>2, <2>3 DEF StuckInv
<1>5. ASSUME NEW n \in Node, KeepAlways(n) PROVE StuckInv(W, s)'
  <2>1. /\ ControlOnly /\ todo' = todo \ {n} /\ pc = "routed"
        /\ UNCHANGED <<toRun, pc, skippedInPass>>
    BY <1>5 DEF KeepAlways, Goto
  <2>2. /\ Stuck(flow', W, s) /\ StuckCounts(W, s)'
        /\ ready(OnSuccess)' = ready(OnSuccess) /\ ready(Always)' = ready(Always)
    BY <1>a, <1>c, <1>d, <2>1, StuckControl
  <2>3. StuckLoop(W)'  BY <1>a, <2>1, <2>2 DEF StuckLoop
  <2> QED BY <2>2, <2>3 DEF StuckInv
<1>6. CASE EndRouted
  <2>1. /\ ControlOnly /\ toRun' = toRun /\ pc = "routed"
        /\ \/ pc' = "scan" /\ todo' = {}
           \/ ~skippedInPass /\ pc' = "startAlways" /\ todo' = ready(Always)
    BY <1>6 DEF EndRouted, Goto
  <2>2. /\ Stuck(flow', W, s) /\ StuckCounts(W, s)'
        /\ ready(OnSuccess)' = ready(OnSuccess) /\ ready(Always)' = ready(Always)
    BY <1>a, <1>b, <1>c, <1>d, <2>1, StuckControl
  <2>3. StuckLoop(W)'  BY <1>a, <2>1, <2>2 DEF StuckLoop
  <2> QED BY <2>2, <2>3 DEF StuckInv
<1>7. CASE EndStartAlways \/ BeginAlwaysPhase
  <2>1. /\ ControlOnly /\ toRun' = toRun /\ todo' = {}
        /\ \/ pc' = "scan"
           \/ pc' = "select" /\ pc = "startAlways" /\ todo = {}
    BY <1>7 DEF EndStartAlways, BeginAlwaysPhase, Goto
  <2>2. /\ Stuck(flow', W, s) /\ StuckCounts(W, s)'
        /\ ready(OnSuccess)' = ready(OnSuccess) /\ ready(Always)' = ready(Always)
    BY <1>a, <1>c, <1>d, <2>1, StuckControl
  <2>3. StuckLoop(W)'  BY <1>a, <2>1, <2>2 DEF StuckLoop
  <2> QED BY <2>2, <2>3 DEF StuckInv
<1>8. CASE ResolveBlocked
  <2>1. /\ ControlOnly /\ pc = "select" /\ inFlight = {} /\ phase = Always
        /\ pc' = "blockedSkip" /\ todo' \subseteq BlockedAlways /\ toRun' \subseteq BlockedAlways
    BY <1>8 DEF ResolveBlocked, Goto, BlockedToRun
  <2>2. W \cap pending = {}  BY <1>a, <2>1, StuckIdle DEF StuckLoop
  <2>3. W \cap todo' = {} /\ W \cap toRun' = {} /\ s \notin todo' \cup toRun'
    BY <1>b, <2>1, <2>2 DEF BlockedAlways
  <2>4. /\ Stuck(flow', W, s) /\ StuckCounts(W, s)'
    BY <1>a, <1>d, <2>1, <2>3, StuckControl
  <2>5. StuckLoop(W)'  BY <1>d, <2>1, <2>2 DEF StuckLoop
  <2> QED BY <2>4, <2>5 DEF StuckInv
<1>9. CASE EndSkipBlocked \/ EndStartBlocked
  <2>1. /\ ControlOnly /\ todo' \subseteq toRun /\ toRun' \subseteq toRun
        /\ pc \in {"blockedSkip", "blockedRun"} /\ pc' \in {"blockedRun", "scan"}
    BY <1>9 DEF EndSkipBlocked, EndStartBlocked, Goto
  <2>2. /\ Stuck(flow', W, s) /\ StuckCounts(W, s)'
    BY <1>a, <1>c, <1>d, <2>1, StuckControl
  <2>3. StuckLoop(W)'  BY <1>a, <1>d, <2>1 DEF StuckLoop
  <2> QED BY <2>2, <2>3 DEF StuckInv
<1>10. ASSUME NEW n \in Node, Receive(n) PROVE StuckInv(W, s)'
  <2>1. /\ n \in inFlight /\ inFlight' = inFlight \ {n} /\ markNodeComplete(n)
        /\ pc' = "scan" /\ todo' = {} /\ UNCHANGED <<flow, toRun>>
    BY <1>10 DEF Receive, Goto
  <2>2. Stuck(flow', W, s) /\ StuckCounts(W, s)'  BY <1>a, <2>1, StuckSettle
  <2>3. StuckLoop(W)'  BY <2>1 DEF StuckLoop
  <2> QED BY <2>2, <2>3 DEF StuckInv
<1>11. ASSUME UNCHANGED <<flow, loopVars, countVars, inFlight>> PROVE StuckInv(W, s)'
  <2>1. UNCHANGED <<flow, pending, remaining, inFlight, todo, toRun, pc, phase, skippedInPass>>
    BY <1>11 DEF loopVars, countVars
  <2>2. /\ Stuck(flow', W, s) /\ StuckCounts(W, s)'
        /\ ready(OnSuccess)' = ready(OnSuccess) /\ ready(Always)' = ready(Always)
    BY <1>a, <1>c, <2>1, StuckControl
  <2>3. StuckLoop(W)'  BY <1>a, <2>1, <2>2 DEF StuckLoop
  <2> QED BY <2>2, <2>3 DEF StuckInv
<1>12. ASSUME NEW n \in Node, Goroutine(n) PROVE StuckInv(W, s)'
  BY <1>11, <1>12 DEF Goroutine, RejectInputs, NodeStarted, NodeFinished, SendDone,
                      GoroutineOnly
<1>13. CASE finalizeExecution
  <2>1. /\ UNCHANGED <<flow, pending, remaining, inFlight, toRun>> /\ todo' = {} /\ pc' = "done"
    BY <1>13 DEF finalizeExecution, Goto, countVars, taskVars
  <2>2. Stuck(flow', W, s) /\ StuckCounts(W, s)'
    BY <1>a, <1>c, <2>1, StuckControl
  <2>3. StuckLoop(W)'  BY <2>1 DEF StuckLoop
  <2> QED BY <2>2, <2>3 DEF StuckInv
<1>14. CASE UNCHANGED vars  BY <1>11, <1>14 DEF vars, taskVars
<1> QED BY <1>1, <1>2, <1>3, <1>4, <1>5, <1>6, <1>7, <1>8, <1>9, <1>10, <1>12, <1>13, <1>14
        DEF Next, Scheduler, Terminated

(* What keeps an execution of a cyclic flow from being successful.         *)
CycleInv ==
  ~Acyclic(flow) =>
    /\ \/ \E C \in SUBSET Node : Ring(flow, C) /\ C \cap pending # {}
       \/ \E W \in SUBSET Node, s \in Node : StuckInv(W, s)
    /\ phase = "done" => ~success

(* Initially every node has its entry.                                     *)
LEMMA InitCycle == Init => CycleInv
<1> SUFFICES ASSUME Init, ~Acyclic(flow)
             PROVE  /\ \/ \E C \in SUBSET Node : Ring(flow, C) /\ C \cap pending # {}
                       \/ \E W \in SUBSET Node, s \in Node : StuckInv(W, s)
                    /\ phase = "done" => ~success
  BY DEF CycleInv
<1>1. phase # "done"  BY DEF Init, OnSuccess
<1>2. ASSUME NEW C \in SUBSET Node, Ring(flow, C) PROVE C \cap pending # {}
  BY <1>2 DEF Ring, Init
<1>3. ASSUME NEW W \in SUBSET Node, NEW s \in Node, Stuck(flow, W, s)
      PROVE  StuckInv(W, s)
  <2>1. \A n \in Node : remaining[n] = Cardinality(OpenEdges(flow, pending, n))
    <3> TAKE n \in Node
    <3>1. flow \in Flow  BY FlowsAssumption DEF Init
    <3>2. OpenEdges(flow, Node, n) = EdgesInto(flow, n)
      BY <3>1, EdgesFinite DEF OpenEdges, EdgesInto
    <3> QED BY <3>2 DEF Init, nodeEdgeInput
  <2>2. StuckCounts(W, s)  BY <1>3, <2>1 DEF StuckCounts, Init
  <2>3. StuckLoop(W)  BY DEF StuckLoop, Init
  <2> QED BY <1>3, <2>2, <2>3 DEF StuckInv
<1> QED BY <1>1, <1>2, <1>3, RingOrStuck

(* A flow with a cycle, whatever its shape, is never reported as           *)
(* successful: finalizeExecution finds an entry in remainingInputs.        *)
THEOREM CyclesSafe == Spec => []CyclesNeverSucceed
<1>1. TypeOK /\ CycleInv /\ [Next]_vars => CycleInv'
  <2> SUFFICES ASSUME TypeOK, CycleInv, [Next]_vars, ~Acyclic(flow')
               PROVE  /\ \/ \E C \in SUBSET Node : Ring(flow', C) /\ C \cap pending' # {}
                         \/ \E W \in SUBSET Node, s \in Node : StuckInv(W, s)'
                      /\ phase' = "done" => ~success'
    BY DEF CycleInv
  <2>1. flow' = flow /\ ~Acyclic(flow)  BY CompletesOne
  <2>2. \/ \E C \in SUBSET Node : Ring(flow', C) /\ C \cap pending' # {}
        \/ \E W \in SUBSET Node, s \in Node : StuckInv(W, s)'
    <3>1. CASE \E C \in SUBSET Node : Ring(flow, C) /\ C \cap pending # {}
      BY <3>1, RingStep
    <3>2. CASE \E W \in SUBSET Node, s \in Node : StuckInv(W, s)
      <4>1. PICK W \in SUBSET Node, s \in Node : StuckInv(W, s)  BY <3>2
      <4>2. StuckInv(W, s)'  BY <4>1, StuckStep
      <4> QED BY <4>2
    <3> QED BY <2>1, <3>1, <3>2 DEF CycleInv
  <2>3. pending # {}  BY <2>1 DEF CycleInv, StuckInv, StuckCounts
  <2>4. CASE finalizeExecution
    <3>1. error' = (IF error = NoNode /\ pending # {} THEN CycleError ELSE error)
          /\ success' = (error' = NoNode)
      BY <2>4 DEF finalizeExecution
    <3>2. CycleError # NoNode  BY DEF CycleError, NoNode
    <3>3. error' # NoNode  BY <2>3, <3>1, <3>2
    <3>4. ~success'  BY <3>1, <3>3
    <3> QED BY <2>2, <3>4
  <2>5. CASE ~finalizeExecution
    <3>1. success' = success /\ (phase' = "done" => phase = "done")
      <4>1. ASSUME NEW n \in Node, \/ SkipReady(n) \/ SkipRoutedAway(n) \/ SkipBlocked(n)
                                   \/ StartReady(n) \/ StartAlways(n) \/ StartBlocked(n)
            PROVE  success' = success /\ phase' = phase
        BY <4>1 DEF SkipReady, SkipRoutedAway, SkipBlocked, recordSkippedNode, StartReady,
                    StartAlways, StartBlocked, start
      <4>2. ASSUME NEW n \in Node, Receive(n) \/ KeepAlways(n) \/ Goroutine(n)
            PROVE  success' = success /\ phase' = phase
        BY <4>2 DEF Receive, KeepAlways, ControlOnly, Goroutine, RejectInputs, NodeStarted,
                    NodeFinished, SendDone, GoroutineOnly, loopVars
      <4>3. CASE \/ ScanReady \/ EndPass \/ EndRouted \/ EndStartAlways \/ BeginAlwaysPhase
                 \/ ResolveBlocked \/ EndSkipBlocked \/ EndStartBlocked
        BY <4>3 DEF ScanReady, EndPass, EndRouted, EndStartAlways, BeginAlwaysPhase,
                    ResolveBlocked, EndSkipBlocked, EndStartBlocked, ControlOnly, Always
      <4>4. CASE UNCHANGED vars  BY <4>4 DEF vars, loopVars
      <4> QED BY <2>5, <4>1, <4>2, <4>3, <4>4 DEF Next, Scheduler, Terminated
    <3> QED BY <2>1, <2>2, <3>1 DEF CycleInv
  <2> QED BY <2>2, <2>4, <2>5
<1>2. CycleInv => CyclesNeverSucceed  BY DEF CycleInv, CyclesNeverSucceed
<1> QED BY <1>1, <1>2, InitCycle, TypeCorrect, PTL DEF Spec

-----------------------------------------------------------------------------
(* Part 2: the order in which an acyclic flow runs.                        *)
(*                                                                         *)
(* SchedulerInv is inductive: remainingInputs counts exactly the open      *)
(* edges of the unsettled nodes, so a node counted down to zero has no     *)
(* pending predecessor; the loop loses no ready node; and in an acyclic    *)
(* flow some pending node has no pending predecessor, so the loop is idle  *)
(* only when nothing is pending.                                           *)

AcyclicFlows == \A f \in Flows : Acyclic(f)

(* A ready node is a pending one that is not running and has no pending    *)
(* predecessor.                                                            *)
LEMMA ReadyMeans ==
  ASSUME StateTypeOK, CountInv, NEW when
  PROVE  ready(when) = {n \in pending \ inFlight :
                          /\ flow.runWhen[n] = when
                          /\ Predecessors(flow, n) \cap pending = {}}
<1>1. \A n \in pending :
         remaining[n] = 0 <=> Predecessors(flow, n) \cap pending = {}
  <2> TAKE n \in pending
  <2>1. flow \in Flow /\ n \in Node /\ pending \in SUBSET Node
    BY FlowsAssumption DEF StateTypeOK
  <2>2. remaining[n] = Cardinality(OpenEdges(flow, pending, n))
    BY DEF CountInv
  <2> QED BY <2>1, <2>2, ZeroMeansNoPendingPredecessor
<1> QED BY <1>1 DEF ready

(* A predecessor is a node with an edge, so the successors of n are the    *)
(* nodes that have n as predecessor.                                       *)
LEMMA SuccessorMeans ==
  ASSUME NEW f, NEW n \in Node, NEW m \in Successors(f, n)
  PROVE  m \in Node /\ n \in Predecessors(f, m)
BY DEF Successors, Predecessors

(* markNodeComplete on a node without pending predecessors takes exactly   *)
(* that node out of remainingInputs and keeps the counts right.            *)
LEMMA MarkCompleteCounts ==
  ASSUME StateTypeOK, CountInv, NEW n \in pending,
         Predecessors(flow, n) \cap pending = {},
         markNodeComplete(n), flow' = flow
  PROVE  /\ pending' = pending \ {n}
         /\ \A m \in pending' :
              remaining'[m] = Cardinality(OpenEdges(flow', pending', m))
<1> USE FlowsAssumption
<1>1. flow \in Flow /\ n \in Node  BY DEF StateTypeOK
<1>2. Successors(flow, n) \subseteq pending
  <2> SUFFICES ASSUME NEW m \in Successors(flow, n), m \notin pending
               PROVE  FALSE
    OBVIOUS
  <2> QED BY <1>1, SuccessorMeans DEF CountInv
<1>3. pending' = pending \ {n}
  BY <1>2 DEF markNodeComplete
<1>4. ASSUME NEW m \in pending'
      PROVE  remaining'[m] = Cardinality(OpenEdges(flow', pending', m))
  <2>1. m \in pending /\ m # n /\ m \in Node  BY <1>3, <1>4 DEF StateTypeOK
  <2>2. remaining'[m] = remaining[m] - Cardinality(EdgesBetween(flow, n, m))
    BY <2>1 DEF markNodeComplete
  <2>3. remaining[m] = Cardinality(OpenEdges(flow, pending, m))
    BY <2>1 DEF CountInv
  <2>4. Cardinality(OpenEdges(flow, pending \ {n}, m)) =
          Cardinality(OpenEdges(flow, pending, m))
            - Cardinality(EdgesBetween(flow, n, m))
    BY <1>1, <2>1, CloseEdges DEF StateTypeOK
  <2> QED BY <1>3, <2>2, <2>3, <2>4
<1> QED BY <1>3, <1>4

(* Settling a node without pending predecessors keeps CountInv.            *)
LEMMA SettleKeepsCounts ==
  ASSUME StateTypeOK, CountInv, NEW n \in pending,
         Predecessors(flow, n) \cap pending = {},
         markNodeComplete(n), flow' = flow,
         NEW r, r # "none", results' = [results EXCEPT ![n] = r],
         inFlight' \subseteq inFlight, todo' \subseteq todo,
         n \notin inFlight' \cup todo',
         \A m \in Node : m \in inFlight' <=> task'[m] # "idle"
  PROVE  CountInv' /\ pending' = pending \ {n}
<1>1. /\ pending' = pending \ {n}
      /\ \A m \in pending' :
           remaining'[m] = Cardinality(OpenEdges(flow', pending', m))
  BY MarkCompleteCounts
<1>2. pending' = Node \ Settled'
  BY <1>1 DEF StateTypeOK, CountInv, Settled
<1>3. \A m \in (Node \ pending') \cup inFlight' \cup todo' :
         Predecessors(flow', m) \cap pending' = {}
  BY <1>1 DEF CountInv
<1>4. inFlight' \cup todo' \subseteq pending' /\ inFlight' \cap todo' = {}
  BY <1>1 DEF CountInv
<1> QED BY <1>1, <1>2, <1>3, <1>4 DEF CountInv

(* Nothing ready and nothing running in an acyclic flow: nothing pending.  *)
LEMMA IdleMeansNothingPending ==
  ASSUME StateTypeOK, CountInv, Acyclic(flow), inFlight = {},
         ready(OnSuccess) = {}, ready(Always) = {}
  PROVE  pending = {}
<1> SUFFICES ASSUME pending # {} PROVE FALSE  OBVIOUS
<1>1. PICK n \in pending : Predecessors(flow, n) \cap pending = {}
  BY DEF Acyclic, StateTypeOK
<1>2. flow.runWhen[n] \in {OnSuccess, Always}
  BY FlowsAssumption DEF StateTypeOK, Flow
<1> QED BY <1>1, <1>2, ReadyMeans

(* When the on_success loop is idle, the main part of the flow is settled. *)
LEMMA IdleMeansMainSettled ==
  ASSUME StateTypeOK, CountInv, Acyclic(flow), inFlight = {},
         ready(OnSuccess) = {}, NEW M \in SUBSET Node, Executor!MainPart(M)
  PROVE  M \cap pending = {}
<1> SUFFICES ASSUME M \cap pending # {} PROVE FALSE  OBVIOUS
<1>1. PICK n \in M \cap pending : Predecessors(flow, n) \cap (M \cap pending) = {}
  BY DEF Acyclic, StateTypeOK
<1>2. Predecessors(flow, n) \subseteq M
  BY <1>1 DEF Executor!MainPart
<1>3. flow.runWhen[n] = OnSuccess
  <2>1. n \in Node /\ ~(flow.runWhen[n] = Always)
    BY <1>1 DEF Executor!MainPart, StateTypeOK
  <2>2. flow.runWhen[n] \in {OnSuccess, Always}
    BY <2>1, FlowsAssumption DEF StateTypeOK, Flow
  <2> QED BY <2>1, <2>2
<1> QED BY <1>1, <1>2, <1>3, ReadyMeans

-----------------------------------------------------------------------------
(* The invariant holds initially.                                          *)
LEMMA InitScheduler == Init /\ TypeOK => SchedulerInv
<1> SUFFICES ASSUME Init, TypeOK PROVE SchedulerInv  OBVIOUS
<1>1. \A n \in Node : nodeEdgeInput(flow, n) = Cardinality(OpenEdges(flow, Node, n))
  <2> TAKE n \in Node
  <2>1. flow \in Flow  BY FlowsAssumption DEF Init
  <2>2. OpenEdges(flow, Node, n) = EdgesInto(flow, n)
    BY <2>1, EdgesFinite DEF OpenEdges, EdgesInto
  <2> QED BY <2>2 DEF nodeEdgeInput
<1>2. CountInv
  BY <1>1 DEF Init, CountInv, Settled
<1>3. LoopInv /\ PhaseInv
  BY DEF Init, LoopInv, PhaseInv, OnSuccess, Always, NoNode, CycleError
<1> QED BY <1>2, <1>3 DEF SchedulerInv

(* A step that changes neither the counts nor the running set leaves the   *)
(* ready nodes as they are.                                                *)
LEMMA ReadyUnchanged ==
  ASSUME UNCHANGED <<flow, pending, remaining, inFlight>>, NEW CONSTANT when
  PROVE  ready(when)' = ready(when)
BY DEF ready

(* Skipping the node at hand keeps the counts.                             *)
LEMMA SkipKeepsCounts ==
  ASSUME StateTypeOK, CountInv, NEW n \in todo, NEW cause,
         recordSkippedNode(n, cause), todo' = todo \ {n}
  PROVE  /\ CountInv' /\ pending' = pending \ {n}
         /\ flow' = flow /\ inFlight' = inFlight /\ error' = error
<1>1. /\ flow' = flow /\ inFlight' = inFlight /\ task' = task /\ error' = error
      /\ markNodeComplete(n)
      /\ results' = [results EXCEPT ![n] = "skipped"]
  BY DEF recordSkippedNode, taskVars
<1>2. n \in pending /\ Predecessors(flow, n) \cap pending = {} /\ n \notin inFlight
  BY DEF CountInv
<1>3. \A m \in Node : m \in inFlight' <=> task'[m] # "idle"
  BY <1>1 DEF CountInv
<1>4. CountInv' /\ pending' = pending \ {n}
  BY <1>1, <1>2, <1>3, SettleKeepsCounts
<1> QED BY <1>1, <1>4

(* Starting the node at hand keeps the counts.                             *)
LEMMA StartKeepsCounts ==
  ASSUME StateTypeOK, TaskTypeOK, CountInv, NEW n \in todo,
         start(n), todo' = todo \ {n}
  PROVE  /\ CountInv' /\ inFlight' = inFlight \cup {n}
         /\ UNCHANGED <<flow, pending, remaining, error>>
<1>1. /\ UNCHANGED <<flow, pending, remaining, results, error>>
      /\ inFlight' = inFlight \cup {n}
      /\ task' = [task EXCEPT ![n] = "spawned"]
  BY DEF start, countVars, resultVars
<1>2. n \in Node /\ n \in pending  BY DEF CountInv, StateTypeOK
<1>3. \A m \in Node : m \in inFlight' <=> task'[m] # "idle"
  BY <1>1, <1>2 DEF CountInv, TaskTypeOK
<1>4. Settled' = Settled  BY <1>1 DEF Settled
<1>5. \A m \in (Node \ pending') \cup inFlight' \cup todo' :
         Predecessors(flow', m) \cap pending' = {}
  BY <1>1 DEF CountInv
<1>6. CountInv'
  BY <1>1, <1>2, <1>3, <1>4, <1>5 DEF CountInv
<1> QED BY <1>1, <1>6

(* The main part of a flow stays settled.                                  *)
LEMMA MainStaysSettled ==
  ASSUME flow' = flow, pending' \subseteq pending,
         \A M \in SUBSET Node : Executor!MainPart(M) => M \cap pending = {}
  PROVE  \A M \in SUBSET Node : Executor!MainPart(M)' => M \cap pending' = {}
<1> TAKE M \in SUBSET Node
<1>1. Executor!MainPart(M)' = Executor!MainPart(M)
  BY DEF Executor!MainPart
<1> QED BY <1>1

-----------------------------------------------------------------------------
(* Steps that only move the loop along.                                    *)
LEMMA ControlKeeps ==
  ASSUME TypeOK, SchedulerInv, ControlOnly
  PROVE  /\ UNCHANGED <<flow, pending, remaining, inFlight, task, results, error>>
         /\ ready(OnSuccess)' = ready(OnSuccess) /\ ready(Always)' = ready(Always)
         /\ Settled' = Settled
         /\ (\A n \in todo' : n \in pending \ inFlight
                             /\ Predecessors(flow, n) \cap pending = {})
              => CountInv'
<1>1. UNCHANGED <<flow, pending, remaining, inFlight, task, results, error>>
  BY DEF ControlOnly, countVars, resultVars, taskVars
<1>2. ready(OnSuccess)' = ready(OnSuccess) /\ ready(Always)' = ready(Always)
  BY <1>1 DEF ready, OnSuccess, Always
<1>3. Settled' = Settled  BY <1>1 DEF Settled
<1>4. ASSUME \A n \in todo' : n \in pending \ inFlight
                             /\ Predecessors(flow, n) \cap pending = {}
      PROVE  CountInv'
  <2> USE <1>1, <1>3, <1>4
  <2> USE DEF SchedulerInv
  <2>1. pending' = Node \ Settled'  BY DEF CountInv
  <2>2. \A n \in pending' :
          remaining'[n] = Cardinality(OpenEdges(flow', pending', n))
    BY DEF CountInv
  <2>3. \A n \in (Node \ pending') \cup inFlight' \cup todo' :
           Predecessors(flow', n) \cap pending' = {}
    BY DEF CountInv
  <2>4. inFlight' \cup todo' \subseteq pending' /\ inFlight' \cap todo' = {}
    BY DEF CountInv
  <2>5. \A n \in Node : n \in inFlight' <=> task'[n] # "idle"
    BY DEF CountInv
  <2> QED BY <2>1, <2>2, <2>3, <2>4, <2>5 DEF CountInv
<1> QED BY <1>1, <1>2, <1>3, <1>4

(* SchedulerInv is inductive: one step per action.                         *)
LEMMA SchedulerStep ==
  ASSUME AcyclicFlows, TypeOK, SchedulerInv, [Next]_vars
  PROVE  SchedulerInv'
<1> USE DEF TypeOK
<1>0. Acyclic(flow)  BY DEF AcyclicFlows, StateTypeOK
<1>a. CountInv /\ LoopInv /\ PhaseInv  BY DEF SchedulerInv
<1>b. OnSuccess # Always /\ OnSuccess # "done" /\ Always # "done"
  BY DEF OnSuccess, Always
<1>1. CASE ScanReady
  <2>1. /\ ControlOnly /\ pc = "scan" /\ pc' = "pass" /\ todo' = ready(OnSuccess)
        /\ UNCHANGED <<phase, toRun>>
    BY <1>1 DEF ScanReady, Goto
  <2>2. CountInv'  BY <1>a, <2>1, ControlKeeps, ReadyMeans
  <2>3. LoopInv'  BY <1>a, <2>1, ControlKeeps DEF LoopInv
  <2>4. PhaseInv'
    BY <1>a, <1>b, <2>1, ControlKeeps, MainStaysSettled, ReadyMeans DEF PhaseInv, LoopInv
  <2> QED BY <2>2, <2>3, <2>4 DEF SchedulerInv
<1>2. ASSUME NEW n \in Node, SkipReady(n) PROVE SchedulerInv'
  <2>1. /\ n \in todo /\ todo' = todo \ {n} /\ pc = "pass" /\ pc' = "pass"
        /\ skippedInPass' = TRUE /\ UNCHANGED <<phase, toRun>>
    BY <1>2 DEF SkipReady, Goto, First
  <2>2. \E cause : recordSkippedNode(n, cause)
    BY <1>2 DEF SkipReady
  <2>3. /\ CountInv' /\ pending' = pending \ {n}
        /\ flow' = flow /\ inFlight' = inFlight /\ error' = error
    BY <1>a, <2>1, <2>2, SkipKeepsCounts
  <2>4. LoopInv'  BY <1>a, <2>1 DEF LoopInv
  <2>5. PhaseInv'
    BY <1>a, <1>b, <2>1, <2>3, MainStaysSettled DEF PhaseInv, LoopInv
  <2> QED BY <2>3, <2>4, <2>5 DEF SchedulerInv
<1>3. ASSUME NEW n \in Node, StartReady(n) PROVE SchedulerInv'
  <2>1. /\ n \in todo /\ todo' = todo \ {n} /\ pc = "pass" /\ pc' = "pass"
        /\ start(n) /\ UNCHANGED <<phase, toRun, skippedInPass>>
    BY <1>3 DEF StartReady, Goto, First
  <2>2. /\ CountInv' /\ inFlight' = inFlight \cup {n}
        /\ UNCHANGED <<flow, pending, remaining, error>>
    BY <1>a, <2>1, StartKeepsCounts
  <2>3. ready(OnSuccess)' = ready(OnSuccess) \ {n}
    BY <2>2 DEF ready, OnSuccess
  <2>4. LoopInv'  BY <1>a, <2>1, <2>3 DEF LoopInv
  <2>5. PhaseInv'
    BY <1>a, <1>b, <2>1, <2>2, MainStaysSettled DEF PhaseInv, LoopInv
  <2> QED BY <2>2, <2>4, <2>5 DEF SchedulerInv
<1>4. CASE EndPass
  <2>1. /\ ControlOnly /\ pc = "pass" /\ todo = {} /\ UNCHANGED <<phase, toRun>>
        /\ \/ pc' = "scan" /\ todo' = {}
           \/ ~skippedInPass /\ phase = OnSuccess /\ pc' = "select" /\ todo' = {}
           \/ ~skippedInPass /\ phase = Always /\ pc' = "routed" /\ todo' = ready(Always)
    BY <1>4 DEF EndPass, Goto
  <2>2. CountInv'  BY <1>a, <2>1, ControlKeeps, ReadyMeans
  <2>3. LoopInv'  BY <1>a, <1>b, <2>1, ControlKeeps DEF LoopInv
  <2>4. PhaseInv'
    BY <1>a, <1>b, <2>1, ControlKeeps, MainStaysSettled DEF PhaseInv, LoopInv
  <2> QED BY <2>2, <2>3, <2>4 DEF SchedulerInv
<1>5. ASSUME NEW n \in Node, SkipRoutedAway(n) PROVE SchedulerInv'
  <2>1. /\ n \in todo /\ todo' = todo \ {n} /\ pc = "routed" /\ pc' = "routed"
        /\ skippedInPass' = TRUE /\ UNCHANGED <<phase, toRun>>
        /\ recordSkippedNode(n, failureCause)
    BY <1>5 DEF SkipRoutedAway, Goto, First
  <2>3. /\ CountInv' /\ pending' = pending \ {n}
        /\ flow' = flow /\ inFlight' = inFlight /\ error' = error
    BY <1>a, <2>1, SkipKeepsCounts
  <2>4. LoopInv'  BY <1>a, <2>1 DEF LoopInv
  <2>5. PhaseInv'
    BY <1>a, <1>b, <2>1, <2>3, MainStaysSettled DEF PhaseInv, LoopInv
  <2> QED BY <2>3, <2>4, <2>5 DEF SchedulerInv
<1>6. ASSUME NEW n \in Node, KeepAlways(n) PROVE SchedulerInv'
  <2>1. /\ ControlOnly /\ pc = "routed" /\ pc' = "routed" /\ todo' = todo \ {n}
        /\ UNCHANGED <<phase, toRun, skippedInPass>>
    BY <1>6 DEF KeepAlways, Goto
  <2>2. CountInv'  BY <1>a, <2>1, ControlKeeps DEF CountInv
  <2>3. LoopInv'  BY <1>a, <2>1, ControlKeeps DEF LoopInv
  <2>4. PhaseInv'
    BY <1>a, <1>b, <2>1, ControlKeeps, MainStaysSettled DEF PhaseInv, LoopInv
  <2> QED BY <2>2, <2>3, <2>4 DEF SchedulerInv
<1>7. CASE EndRouted
  <2>1. /\ ControlOnly /\ pc = "routed" /\ UNCHANGED <<phase, toRun>>
        /\ \/ pc' = "scan" /\ todo' = {}
           \/ ~skippedInPass /\ pc' = "startAlways" /\ todo' = ready(Always)
    BY <1>7 DEF EndRouted, Goto
  <2>2. CountInv'  BY <1>a, <2>1, ControlKeeps, ReadyMeans
  <2>3. LoopInv'  BY <1>a, <1>b, <2>1, ControlKeeps DEF LoopInv
  <2>4. PhaseInv'
    BY <1>a, <1>b, <2>1, ControlKeeps, MainStaysSettled DEF PhaseInv, LoopInv
  <2> QED BY <2>2, <2>3, <2>4 DEF SchedulerInv
<1>8. ASSUME NEW n \in Node, StartAlways(n) PROVE SchedulerInv'
  <2>1. /\ n \in todo /\ todo' = todo \ {n}
        /\ pc = "startAlways" /\ pc' = "startAlways"
        /\ start(n) /\ UNCHANGED <<phase, toRun, skippedInPass>>
    BY <1>8 DEF StartAlways, Goto, First
  <2>2. /\ CountInv' /\ inFlight' = inFlight \cup {n}
        /\ UNCHANGED <<flow, pending, remaining, error>>
    BY <1>a, <2>1, StartKeepsCounts
  <2>3. /\ ready(OnSuccess)' = ready(OnSuccess) \ {n}
        /\ ready(Always)' = ready(Always) \ {n}
    BY <2>2 DEF ready, OnSuccess, Always
  <2>4. LoopInv'  BY <1>a, <2>1, <2>3 DEF LoopInv
  <2>5. PhaseInv'
    BY <1>a, <1>b, <2>1, <2>2, MainStaysSettled DEF PhaseInv, LoopInv
  <2> QED BY <2>2, <2>4, <2>5 DEF SchedulerInv
<1>9. CASE EndStartAlways
  <2>1. /\ ControlOnly /\ pc = "startAlways" /\ pc' = "select"
        /\ todo = {} /\ todo' = {} /\ UNCHANGED <<phase, toRun>>
    BY <1>9 DEF EndStartAlways, Goto
  <2>2. CountInv'  BY <1>a, <2>1, ControlKeeps
  <2>3. LoopInv'  BY <1>a, <1>b, <2>1, ControlKeeps DEF LoopInv
  <2>4. PhaseInv'
    BY <1>a, <1>b, <2>1, ControlKeeps, MainStaysSettled DEF PhaseInv, LoopInv
  <2> QED BY <2>2, <2>3, <2>4 DEF SchedulerInv
<1>10. CASE BeginAlwaysPhase
  <2>1. /\ ControlOnly /\ pc = "select" /\ pc' = "scan" /\ todo' = {} /\ toRun' = toRun
        /\ inFlight = {} /\ phase = OnSuccess /\ phase' = Always
    BY <1>10 DEF BeginAlwaysPhase, Goto
  <2>2. CountInv'  BY <1>a, <2>1, ControlKeeps
  <2>3. LoopInv'  BY <1>a, <1>b, <2>1, ControlKeeps DEF LoopInv
  <2>4. ready(OnSuccess) = {}  BY <1>a, <2>1 DEF LoopInv
  <2>5. \A M \in SUBSET Node : Executor!MainPart(M) => M \cap pending = {}
    BY <1>0, <1>a, <2>1, <2>4, IdleMeansMainSettled
  <2>6. PhaseInv'
    BY <1>a, <1>b, <2>1, <2>5, ControlKeeps, MainStaysSettled DEF PhaseInv
  <2> QED BY <2>2, <2>3, <2>6 DEF SchedulerInv
<1>11. ASSUME pc = "select", inFlight = {}, phase = Always PROVE pending = {}
  BY <1>0, <1>a, <1>11, IdleMeansNothingPending DEF LoopInv
<1>12. CASE ResolveBlocked
  BY <1>11, <1>12 DEF ResolveBlocked, BlockedAlways
<1>13. CASE \/ EndSkipBlocked \/ EndStartBlocked
            \/ \E n \in Node : SkipBlocked(n) \/ StartBlocked(n)
  BY <1>a, <1>13
     DEF LoopInv, EndSkipBlocked, EndStartBlocked, SkipBlocked, StartBlocked
<1>14. CASE finalizeExecution
  <2>1. /\ pc = "select" /\ inFlight = {} /\ phase = Always /\ phase' = "done"
        /\ pc' = "done" /\ todo' = {} /\ toRun' = toRun
        /\ UNCHANGED <<flow, pending, remaining, inFlight, task, results>>
        /\ error' = IF error = NoNode /\ pending # {} THEN CycleError ELSE error
    BY <1>14 DEF finalizeExecution, Goto, countVars, taskVars
  <2>2. pending = {}  BY <1>11, <2>1
  <2>3. Settled' = Settled  BY <2>1 DEF Settled
  <2>4. CountInv'  BY <1>a, <2>1, <2>2, <2>3 DEF CountInv
  <2>5. LoopInv'  BY <1>a, <1>b, <2>1 DEF LoopInv
  <2>6. PhaseInv'  BY <1>a, <1>b, <2>1, <2>2 DEF PhaseInv
  <2> QED BY <2>4, <2>5, <2>6 DEF SchedulerInv
<1>15. ASSUME NEW n \in Node, Receive(n) PROVE SchedulerInv'
  <2>1. /\ pc = "select" /\ pc' = "scan" /\ todo' = {} /\ n \in inFlight
        /\ inFlight' = inFlight \ {n} /\ task' = [task EXCEPT ![n] = "idle"]
        /\ markNodeComplete(n) /\ UNCHANGED <<flow, phase, toRun>>
    BY <1>15 DEF Receive, Goto
  <2>2. \E r : r # "none" /\ results' = [results EXCEPT ![n] = r]
    BY <1>15 DEF Receive, settleAlwaysSkip, recordFailure, recordSuccess
  <2>3. error' \in {error, n}
    BY <1>15 DEF Receive, settleAlwaysSkip, recordFailure, recordSuccess
  <2>4. n \in pending /\ Predecessors(flow, n) \cap pending = {}
    BY <1>a, <2>1 DEF CountInv
  <2>5. \A m \in Node : m \in inFlight' <=> task'[m] # "idle"
    BY <1>a, <2>1 DEF CountInv, TaskTypeOK
  <2>6. CountInv' /\ pending' = pending \ {n}
    BY <1>a, <2>1, <2>2, <2>4, <2>5, SettleKeepsCounts
  <2>7. LoopInv'  BY <1>a, <1>b, <2>1 DEF LoopInv
  <2>8. error' # CycleError
    BY <1>a, <2>3, NodeAssumption DEF PhaseInv, CycleError
  <2>9. PhaseInv'
    BY <1>a, <1>b, <2>1, <2>6, <2>8, MainStaysSettled DEF PhaseInv, LoopInv
  <2> QED BY <2>6, <2>7, <2>9 DEF SchedulerInv
<1>16. ASSUME NEW n \in Node, Goroutine(n) PROVE SchedulerInv'
  <2>1. /\ GoroutineOnly /\ task[n] # "idle"
        /\ \E t : t # "idle" /\ task' = [task EXCEPT ![n] = t]
    BY <1>16 DEF Goroutine, RejectInputs, NodeStarted, NodeFinished, SendDone
  <2>2. UNCHANGED <<flow, phase, pc, todo, toRun, skippedInPass, pending,
                    remaining, results, error, inFlight>>
    BY <2>1 DEF GoroutineOnly, loopVars, countVars, resultVars
  <2>3. \A m \in Node : m \in inFlight' <=> task'[m] # "idle"
    BY <1>a, <2>1, <2>2 DEF CountInv, TaskTypeOK
  <2>4. Settled' = Settled  BY <2>2 DEF Settled
  <2>5. CountInv'  BY <1>a, <2>2, <2>3, <2>4 DEF CountInv
  <2>6. ready(OnSuccess)' = ready(OnSuccess) /\ ready(Always)' = ready(Always)
    BY <2>2 DEF ready, OnSuccess, Always
  <2>7. LoopInv'  BY <1>a, <2>2, <2>6 DEF LoopInv
  <2>8. PhaseInv'  BY <1>a, <2>2, MainStaysSettled DEF PhaseInv
  <2> QED BY <2>5, <2>7, <2>8 DEF SchedulerInv
<1>17. CASE UNCHANGED vars
  <2>1. UNCHANGED <<flow, phase, pc, todo, toRun, skippedInPass, pending,
                    remaining, results, error, inFlight, task>>
    BY <1>17 DEF vars, loopVars, countVars, resultVars, taskVars
  <2>2. Settled' = Settled  BY <2>1 DEF Settled
  <2>3. CountInv'  BY <1>a, <2>1, <2>2 DEF CountInv
  <2>4. ready(OnSuccess)' = ready(OnSuccess) /\ ready(Always)' = ready(Always)
    BY <2>1 DEF ready, OnSuccess, Always
  <2>5. LoopInv'  BY <1>a, <2>1, <2>4 DEF LoopInv
  <2>6. PhaseInv'  BY <1>a, <2>1, MainStaysSettled DEF PhaseInv
  <2> QED BY <2>3, <2>5, <2>6 DEF SchedulerInv
<1> QED BY <1>1, <1>2, <1>3, <1>4, <1>5, <1>6, <1>7, <1>8, <1>9, <1>10, <1>12,
           <1>13, <1>14, <1>15, <1>16, <1>17
        DEF Next, Scheduler, Terminated

(* The inductive invariant holds in every reachable state.                 *)
THEOREM SchedulerCorrect ==
  ASSUME AcyclicFlows
  PROVE  Spec => []SchedulerInv
<1>1. Init => TypeOK /\ SchedulerInv  BY InitType, InitScheduler
<1>2. TypeOK /\ SchedulerInv /\ [Next]_vars => SchedulerInv'
  BY SchedulerStep
<1> QED BY <1>1, <1>2, TypeCorrect, PTL DEF Spec

(* In an acyclic flow no node's goroutine exists before every predecessor  *)
(* of the node has a result: the Core Rule of the execution model.         *)
THEOREM PredecessorsFirst ==
  ASSUME AcyclicFlows
  PROVE  Spec => []StartsAfterPredecessors
<1>1. TypeOK /\ SchedulerInv => StartsAfterPredecessors
  BY DEF SchedulerInv, CountInv, StartsAfterPredecessors, Predecessors
<1> QED BY <1>1, TypeCorrect, SchedulerCorrect, PTL

(* In an acyclic flow the execution returns only with a result for every   *)
(* node, no goroutine left and no "cycle detected" error.                  *)
THEOREM NothingLeftBehind ==
  ASSUME AcyclicFlows
  PROVE  Spec => []NothingStranded
<1>1. TypeOK /\ SchedulerInv => NothingStranded
  <2> SUFFICES ASSUME TypeOK, SchedulerInv, phase = "done"
               PROVE  /\ Settled = Node /\ pending = {}
                      /\ error # CycleError
                      /\ \A n \in Node : task[n] = "idle"
    BY DEF NothingStranded
  <2>1. pending = {} /\ error # CycleError  BY DEF SchedulerInv, PhaseInv
  <2>2. Settled = Node  BY <2>1 DEF SchedulerInv, CountInv, Settled
  <2>3. \A n \in Node : task[n] = "idle"  BY <2>1 DEF SchedulerInv, CountInv
  <2> QED BY <2>1, <2>2, <2>3
<1> QED BY <1>1, TypeCorrect, SchedulerCorrect, PTL

-----------------------------------------------------------------------------
(* What a step may write.                                                  *)

(* Every step either leaves results, reasons, outputs and causes alone, or *)
(* writes them for one pending node, which the step settles.               *)
LEMMA WritesOnePendingNode ==
  ASSUME AcyclicFlows, TypeOK, SchedulerInv, [Next]_vars
  PROVE  \/ UNCHANGED <<results, reason, allOutputs, failureCause>>
         \/ \E n \in pending : \A m \in Node \ {n} :
              /\ results'[m] = results[m] /\ reason'[m] = reason[m]
              /\ allOutputs'[m] = allOutputs[m]
              /\ failureCause'[m] = failureCause[m]
<1> DEFINE Quiet == UNCHANGED <<results, reason, allOutputs, failureCause>>
<1> DEFINE Wrote(n) == \A m \in Node \ {n} :
              /\ results'[m] = results[m] /\ reason'[m] = reason[m]
              /\ allOutputs'[m] = allOutputs[m]
              /\ failureCause'[m] = failureCause[m]
<1> USE DEF TypeOK
<1>1. ASSUME NEW n \in todo, recordSkippedNode(n, failureCause)
      PROVE  n \in pending /\ Wrote(n)
  BY <1>1 DEF recordSkippedNode, StateTypeOK, SchedulerInv, CountInv
<1>2. ASSUME NEW n \in todo, NEW c,
             recordSkippedNode(n, [failureCause EXCEPT ![n] = c])
      PROVE  n \in pending /\ Wrote(n)
  BY <1>2 DEF recordSkippedNode, StateTypeOK, SchedulerInv, CountInv
<1>3. ASSUME NEW n \in Node, Receive(n)
      PROVE  n \in pending /\ Wrote(n)
  <2>1. n \in pending  BY <1>3 DEF Receive, SchedulerInv, CountInv
  <2>2. CASE settleAlwaysSkip(n)
    BY <2>1, <2>2 DEF settleAlwaysSkip, StateTypeOK
  <2>3. CASE recordFailure(n)
    BY <2>1, <2>3 DEF recordFailure, StateTypeOK
  <2>4. CASE recordSuccess(n)
    BY <2>1, <2>4 DEF recordSuccess, StateTypeOK
  <2> QED BY <1>3, <2>2, <2>3, <2>4 DEF Receive
<1>4. ASSUME NEW n \in Node, SkipReady(n) \/ SkipRoutedAway(n) \/ SkipBlocked(n)
      PROVE  n \in pending /\ Wrote(n)
  BY <1>1, <1>2, <1>4 DEF SkipReady, SkipRoutedAway, SkipBlocked, First
<1>5. ASSUME NEW n \in Node, \/ StartReady(n) \/ StartAlways(n) \/ StartBlocked(n)
                             \/ KeepAlways(n) \/ Goroutine(n)
      PROVE  Quiet
  BY <1>5 DEF StartReady, StartAlways, StartBlocked, start, KeepAlways,
              ControlOnly, Goroutine, RejectInputs, NodeStarted, NodeFinished,
              SendDone, GoroutineOnly, resultVars
<1>6. CASE \/ ScanReady \/ EndPass \/ EndRouted \/ EndStartAlways
           \/ BeginAlwaysPhase \/ ResolveBlocked \/ EndSkipBlocked
           \/ EndStartBlocked
  BY <1>6 DEF ScanReady, EndPass, EndRouted, EndStartAlways, BeginAlwaysPhase,
              ResolveBlocked, EndSkipBlocked, EndStartBlocked, ControlOnly,
              resultVars
<1>7. CASE finalizeExecution \/ UNCHANGED vars
  BY <1>7 DEF finalizeExecution, vars, resultVars
<1> QED BY <1>3, <1>4, <1>5, <1>6, <1>7 DEF Next, Scheduler, Terminated

(* In an acyclic flow a settled node's result, skip reason, outputs and    *)
(* failure cause never change, and the node is not started again.          *)
THEOREM SettledOnce ==
  ASSUME AcyclicFlows
  PROVE  Spec => ResultsAreFinal
<1>1. ASSUME TypeOK, SchedulerInv, [Next]_vars, SchedulerInv', NEW n \in Settled
      PROVE  /\ results'[n] = results[n] /\ reason'[n] = reason[n]
             /\ allOutputs'[n] = allOutputs[n]
             /\ failureCause'[n] = failureCause[n]
             /\ n \notin inFlight'
  <2>1. n \in Node /\ n \notin pending
    BY <1>1 DEF SchedulerInv, CountInv, Settled
  <2>2. /\ results'[n] = results[n] /\ reason'[n] = reason[n]
        /\ allOutputs'[n] = allOutputs[n]
        /\ failureCause'[n] = failureCause[n]
    BY <1>1, <2>1, WritesOnePendingNode
  <2>3. n \in Settled'  BY <2>2 DEF Settled
  <2>4. n \notin inFlight'  BY <1>1, <2>3 DEF SchedulerInv, CountInv
  <2> QED BY <2>2, <2>4
<1>2. TypeOK /\ SchedulerInv /\ SchedulerInv' /\ [Next]_vars => [KeepsSettled]_vars
  BY <1>1 DEF KeepsSettled
<1> QED BY <1>2, TypeCorrect, SchedulerCorrect, PTL DEF Spec, ResultsAreFinal

-----------------------------------------------------------------------------
(* The scheduler implements the abstract executor.                         *)

(* The executor's settled steps are the nodes without an entry in          *)
(* remainingInputs.                                                        *)
LEMMA ExecutorSettled == Executor!Settled = Node \ pending
BY DEF Executor!Settled

(* A node at hand in the loop is one the executor may start or skip.       *)
LEMMA ExecutorEnabled ==
  ASSUME TypeOK, SchedulerInv, NEW n \in todo
  PROVE  n \in Node /\ Executor!Enabled(n)
<1>1. n \in Node /\ n \in pending /\ n \notin inFlight
  BY DEF TypeOK, LoopTypeOK, SchedulerInv, CountInv
<1>2. Predecessors(flow, n) \subseteq Node \ pending
  BY DEF SchedulerInv, CountInv, Predecessors
<1>3. flow.runWhen[n] = Always => phase # OnSuccess
  BY DEF SchedulerInv, PhaseInv, OnSuccess, Always
<1>4. flow.runWhen[n] = Always => Executor!MainSettled
  <2> SUFFICES ASSUME flow.runWhen[n] = Always, NEW M \in SUBSET Node,
                      Executor!MainPart(M)
               PROVE  M \subseteq Executor!Settled
    BY DEF Executor!MainSettled
  <2>1. M \cap pending = {}  BY <1>3 DEF SchedulerInv, PhaseInv
  <2> QED BY <2>1, ExecutorSettled
<1> QED BY <1>1, <1>2, <1>4, ExecutorSettled DEF Executor!Enabled

(* Each step of the engine is a step of the executor or a stutter.         *)
LEMMA ExecutorStep ==
  ASSUME AcyclicFlows, TypeOK, SchedulerInv, [Next]_vars
  PROVE  [Executor!Next]_(Executor!vars)
<1> USE DEF TypeOK
<1>a. CountInv /\ LoopInv /\ PhaseInv  BY DEF SchedulerInv
<1>1. ASSUME UNCHANGED <<flow, pending, inFlight>>, (phase' = "done") = (phase = "done")
      PROVE  UNCHANGED Executor!vars
  BY <1>1 DEF Executor!vars, Predecessors, EdgesBetween
<1>2. ASSUME NEW n \in todo, NEW cause, recordSkippedNode(n, cause),
             todo' = todo \ {n}, phase' = phase
      PROVE  Executor!Skip(n)
  <2>1. /\ pending' = pending \ {n} /\ flow' = flow /\ inFlight' = inFlight
    BY <1>a, <1>2, SkipKeepsCounts
  <2>2. n \in Node /\ Executor!Enabled(n)  BY <1>2, ExecutorEnabled
  <2> QED BY <1>2, <2>1, <2>2 DEF Executor!Skip, Predecessors, EdgesBetween
<1>3. ASSUME NEW n \in todo, start(n), todo' = todo \ {n}, phase' = phase
      PROVE  Executor!Start(n)
  <2>1. /\ inFlight' = inFlight \cup {n} /\ UNCHANGED <<flow, pending>>
    BY <1>3 DEF start, countVars
  <2>2. n \in Node /\ n \in pending /\ Executor!Enabled(n)
    BY <1>a, <1>3, ExecutorEnabled DEF CountInv
  <2> QED BY <1>3, <2>1, <2>2 DEF Executor!Start, Predecessors, EdgesBetween
<1>4. ASSUME NEW n \in Node, SkipReady(n) \/ SkipRoutedAway(n)
      PROVE  Executor!Next
  BY <1>2, <1>4 DEF SkipReady, SkipRoutedAway, Goto, First, Executor!Next
<1>5. ASSUME NEW n \in Node, StartReady(n) \/ StartAlways(n)
      PROVE  Executor!Next
  BY <1>3, <1>5 DEF StartReady, StartAlways, Goto, First, Executor!Next
<1>6. ASSUME NEW n \in Node, Receive(n) PROVE Executor!Next
  <2>1. /\ n \in inFlight /\ inFlight' = inFlight \ {n} /\ markNodeComplete(n)
        /\ UNCHANGED <<flow, phase>>
    BY <1>6 DEF Receive
  <2>2. n \in pending /\ Predecessors(flow, n) \cap pending = {}
    BY <1>a, <2>1 DEF CountInv
  <2>3. pending' = pending \ {n}  BY <1>a, <2>1, <2>2, MarkCompleteCounts
  <2>4. Executor!Settle(n)
    BY <2>1, <2>2, <2>3 DEF Executor!Settle, Predecessors, EdgesBetween
  <2> QED BY <2>4 DEF Executor!Next
<1>7. CASE finalizeExecution
  <2>1. /\ phase' = "done" /\ UNCHANGED <<flow, pending, inFlight>>
    BY <1>7 DEF finalizeExecution, countVars, taskVars
  <2>2. pending = {}
    <3>1. SchedulerInv'  BY SchedulerStep
    <3> QED BY <2>1, <3>1 DEF SchedulerInv, PhaseInv
  <2>3. Executor!Return
    BY <2>1, <2>2, ExecutorSettled DEF Executor!Return, Predecessors, EdgesBetween
  <2> QED BY <2>3 DEF Executor!Next
<1>8. ASSUME NEW n \in Node, KeepAlways(n) \/ Goroutine(n)
      PROVE  UNCHANGED Executor!vars
  BY <1>1, <1>8 DEF KeepAlways, ControlOnly, Goroutine, RejectInputs, NodeStarted,
                    NodeFinished, SendDone, GoroutineOnly, countVars, taskVars,
                    loopVars
<1>9. CASE ScanReady \/ EndPass \/ EndRouted \/ EndStartAlways
  BY <1>1, <1>9 DEF ScanReady, EndPass, EndRouted, EndStartAlways, ControlOnly,
                    countVars, taskVars
<1>10. CASE BeginAlwaysPhase
  BY <1>1, <1>10 DEF BeginAlwaysPhase, ControlOnly, countVars, taskVars,
                     OnSuccess, Always
<1>11. CASE \/ EndSkipBlocked \/ EndStartBlocked
            \/ \E n \in Node : SkipBlocked(n) \/ StartBlocked(n)
  BY <1>a, <1>11
     DEF LoopInv, EndSkipBlocked, EndStartBlocked, SkipBlocked, StartBlocked
<1>12. CASE ResolveBlocked
  <2>1. SchedulerInv' /\ pc' = "blockedSkip"
    BY <1>12, SchedulerStep DEF ResolveBlocked, Goto
  <2> QED BY <2>1 DEF SchedulerInv, LoopInv
<1>13. CASE UNCHANGED vars
  BY <1>1, <1>13 DEF vars, countVars, taskVars, loopVars
<1> QED BY <1>4, <1>5, <1>6, <1>7, <1>8, <1>9, <1>10, <1>11, <1>12, <1>13
        DEF Next, Scheduler, Terminated

(* On acyclic flows the engine refines the abstract executor: steps run at *)
(* most once, after what they depend on; cleanup after the main part; and  *)
(* the execution returns only when every step is settled.                  *)
THEOREM EngineImplementsExecutor ==
  ASSUME AcyclicFlows
  PROVE  Spec => ExecutorOrder
<1>1. Init => Executor!Init
  <2> SUFFICES ASSUME Init PROVE Executor!Init  OBVIOUS
  <2>1. \A n \in Node : Predecessors(flow, n) \in SUBSET Node
    BY DEF Predecessors
  <2> QED BY <2>1 DEF Init, Executor!Init, OnSuccess
<1>2. TypeOK /\ SchedulerInv /\ [Next]_vars => [Executor!Next]_(Executor!vars)
  BY ExecutorStep
<1> QED BY <1>1, <1>2, TypeCorrect, SchedulerCorrect, PTL
        DEF Spec, ExecutorOrder, Executor!Safety

-----------------------------------------------------------------------------
(* Part 3: the execution of an acyclic flow.                               *)
(*                                                                         *)
(* The argument is the same throughout: when a node is decided on, all its *)
(* predecessors are settled (CountInv), and no step writes anything about  *)
(* a settled node (StepWrites), so what the decision was based on is still *)
(* so whatever finished in the meantime.                                   *)

(* What a node's goroutine reported to observers and is about to send.     *)
Reported(n) ==
  \/ /\ startedEvents[n] = 0 /\ finishedEvents[n] = 0
     /\ \/ /\ outcome[n].kind = "missing" /\ flow.runWhen[n] = Always
           /\ ~validateInputs(n)
        \/ outcome[n].kind = "failed" /\ outcome[n].outputs = None
  \/ /\ startedEvents[n] = 1 /\ finishedEvents[n] = 1
     /\ outcome[n].kind \in {"ok", "failed"}

(* The events of a node follow from where its goroutine is or from its     *)
(* result.                                                                 *)
NodeEvents(n) ==
  /\ n \in pending /\ task[n] \in {"idle", "spawned"} =>
       startedEvents[n] = 0 /\ finishedEvents[n] = 0
  /\ task[n] = "running" => startedEvents[n] = 1 /\ finishedEvents[n] = 0
  /\ task[n] \in {"reported", "sent"} => Reported(n)
  /\ results[n] \in {"ok", "failed"} => startedEvents[n] = 1 /\ finishedEvents[n] = 1
  /\ results[n] = "nil" => startedEvents[n] \in {0, 1} /\ finishedEvents[n] = startedEvents[n]
  /\ results[n] = "skipped" => startedEvents[n] = 0 /\ finishedEvents[n] = 1

EventInv == \A n \in Node : NodeEvents(n)

(* The sets of failed and skipped nodes are those of the results, and the  *)
(* flow's error is there exactly when a node failed.                       *)
ResultInv ==
  /\ failedNodes = {n \in Node : results[n] \in {"failed", "nil"}}
  /\ skippedNodes = {n \in Node : results[n] = "skipped"}
  /\ error = NoNode => failedNodes = {}
  /\ error # NoNode => error \in failedNodes
  /\ phase = "done" => (success <=> error = NoNode)
  /\ \A n \in pending : allOutputs[n] = None

(* The lists of the loop hold nodes of one kind, and the cleanup nodes to  *)
(* be started have been found not to be routed away.                       *)
ListInv ==
  /\ pc = "pass" => \A n \in todo : flow.runWhen[n] = OnSuccess
  /\ pc \in {"routed", "startAlways"} => \A n \in todo : flow.runWhen[n] = Always
  /\ pc = "routed" /\ ~skippedInPass =>
       \A n \in ready(Always) \ todo : ~isRoutedAway(n)
  /\ pc = "startAlways" => \A n \in todo : ~isRoutedAway(n)

(* A failure cause is a failed node, the node itself or one it depends on; *)
(* an on_success node skipped below a failure has one, and none is started *)
(* there.                                                                  *)
CauseInv ==
  /\ \A n \in failedNodes : failureCause[n] = n
  /\ \A n \in Node : failureCause[n] # NoNode =>
       /\ failureCause[n] \in failedNodes
       /\ n = failureCause[n] \/ n \in Dependents(flow, failureCause[n])
  /\ \A n \in skippedNodes : flow.runWhen[n] = OnSuccess /\ upstreamFailure(n) =>
       failureCause[n] # NoNode
  /\ \A n \in inFlight \cup Ran : flow.runWhen[n] = OnSuccess => ~upstreamFailure(n)

(* The inductive invariant: an addition to SchedulerInv.                   *)
ExecutionInv == EventInv /\ ResultInv /\ ListInv /\ ViewCoversUpstream /\ CauseInv

(* Why a node is not started, and why one is.                              *)
Excluded(n) == upstreamFailure(n) \/ isFullyDead(n) \/ inputsReferenceSkippedNode(n)

KeptOut(n) ==
  IF flow.runWhen[n] = OnSuccess THEN Excluded(n)
  ELSE isRoutedAway(n) \/ collectMissingInputs(flow, n, view[n]) # {}

LetIn(n) == IF flow.runWhen[n] = OnSuccess THEN ~Excluded(n) ELSE ~isRoutedAway(n)

(* VerdictsAreStable, node by node.                                        *)
VerdictInv ==
  /\ \A n \in inFlight \cup Ran : LetIn(n)
  /\ \A n \in skippedNodes : KeptOut(n)

(* References of an on_success node are to nodes upstream of it or to flow *)
(* inputs.  A flow input may have the name of a node, unless that node is  *)
(* a cleanup node with references of its own: settleAlwaysSkip would give  *)
(* it outputs, which hide the flow input from then on.                     *)
RefsAreUpstream ==
  \A f \in Flows : \A n \in Node : f.runWhen[n] = OnSuccess =>
    \A p \in f.refs[n] :
      \/ p \in Upstream(f, n)
      \/ f.input[p] # "none" /\ (f.runWhen[p] = OnSuccess \/ f.refs[p] = {})

-----------------------------------------------------------------------------
(* The steps and what they write.                                          *)

(* The steps of an acyclic flow: nothing is ever blocked for good.         *)
LEMMA StepKinds ==
  ASSUME AcyclicFlows, TypeOK, SchedulerInv, [Next]_vars
  PROVE  \/ \E n \in Node : SkipReady(n) \/ SkipRoutedAway(n)
         \/ \E n \in Node : StartReady(n) \/ StartAlways(n)
         \/ \E n \in Node : Receive(n)
         \/ \E n \in Node : Goroutine(n)
         \/ \E n \in Node : KeepAlways(n)
         \/ ScanReady \/ EndPass \/ EndRouted \/ EndStartAlways \/ BeginAlwaysPhase
         \/ finalizeExecution
         \/ UNCHANGED vars
<1>1. CASE \/ EndSkipBlocked \/ EndStartBlocked
           \/ \E n \in Node : SkipBlocked(n) \/ StartBlocked(n)
  BY <1>1 DEF SchedulerInv, LoopInv, EndSkipBlocked, EndStartBlocked, SkipBlocked, StartBlocked
<1>2. CASE ResolveBlocked
  <2>1. SchedulerInv' /\ pc' = "blockedSkip"
    BY <1>2, SchedulerStep DEF ResolveBlocked, Goto
  <2> QED BY <2>1 DEF SchedulerInv, LoopInv
<1> QED BY <1>1, <1>2 DEF Next, Scheduler, Terminated

(* A step that writes nothing about any node's result.                     *)
Untouched ==
  UNCHANGED <<flow, pending, results, allOutputs, failureCause, failedNodes,
              skippedNodes, deadEdges, routedAway>>

(* A step that settles n writes nothing about any other node.  A skipped   *)
(* node gets no outputs, unless it is a cleanup node without its inputs.   *)
Settles(n) ==
  /\ n \in pending /\ flow' = flow /\ pending' = pending \ {n}
  /\ \A m \in Node \ {n} :
       /\ results'[m] = results[m] /\ allOutputs'[m] = allOutputs[m]
       /\ failureCause'[m] = failureCause[m]
       /\ (m \in failedNodes' <=> m \in failedNodes)
       /\ (m \in skippedNodes' <=> m \in skippedNodes)
       /\ (m \in routedAway' <=> m \in routedAway)
       /\ \A k \in Node : (<<m, k>> \in deadEdges' <=> <<m, k>> \in deadEdges)
  /\ n \in skippedNodes' =>
       allOutputs'[n] = None \/ (flow.runWhen[n] = Always /\ flow.refs[n] # {})

(* What a step does to the results.                                        *)
StepWrites == Untouched \/ \E n \in pending : Settles(n)

(* recordSkippedNode settles the node at hand.                             *)
LEMMA SkipSettles ==
  ASSUME TypeOK, SchedulerInv, ResultInv, NEW n \in todo, NEW cause \in [Node -> Node \cup {NoNode}],
         \A m \in Node \ {n} : cause[m] = failureCause[m],
         recordSkippedNode(n, cause), todo' = todo \ {n}
  PROVE  Settles(n)
<1> USE DEF TypeOK
<1>1. n \in pending /\ n \in Node  BY DEF SchedulerInv, CountInv, LoopTypeOK
<1>2. pending' = pending \ {n} /\ flow' = flow
  BY SkipKeepsCounts DEF SchedulerInv
<1>3. /\ results' = [results EXCEPT ![n] = "skipped"] /\ failureCause' = cause
      /\ allOutputs' = allOutputs /\ failedNodes' = failedNodes /\ deadEdges' = deadEdges
      /\ skippedNodes' = skippedNodes \cup {n}
      /\ \A m \in Node \ {n} : m \in routedAway' <=> m \in routedAway
  BY DEF recordSkippedNode
<1>4. allOutputs[n] = None  BY <1>1 DEF ResultInv
<1> QED BY <1>1, <1>2, <1>3, <1>4 DEF Settles, StateTypeOK

(* The two actions that skip a node.                                       *)
LEMMA SkipActionSettles ==
  ASSUME TypeOK, SchedulerInv, ResultInv, NEW n \in Node, SkipReady(n) \/ SkipRoutedAway(n)
  PROVE  n \in todo /\ Settles(n)
<1> USE DEF TypeOK
<1>1. n \in todo /\ todo' = todo \ {n}
  BY DEF SkipReady, SkipRoutedAway, First, Goto
<1>2. failureCause \in [Node -> Node \cup {NoNode}]  BY DEF StateTypeOK
<1>3. ASSUME NEW i \in BlockingEdges(n),
             recordSkippedNode(n, [failureCause EXCEPT ![n] = failureCause[flow.edges[i][1]]])
      PROVE  Settles(n)
  <2> DEFINE cause == [failureCause EXCEPT ![n] = failureCause[flow.edges[i][1]]]
  <2>1. flow.edges[i][1] \in Node
    BY FlowsAssumption, EdgesFinite DEF BlockingEdges, EdgesInto, StateTypeOK
  <2>2. /\ cause \in [Node -> Node \cup {NoNode}] /\ recordSkippedNode(n, cause)
        /\ \A m \in Node \ {n} : cause[m] = failureCause[m]
    BY <1>2, <1>3, <2>1
  <2> HIDE DEF cause
  <2> QED BY <1>1, <2>2, SkipSettles
<1>4. ASSUME recordSkippedNode(n, failureCause) PROVE Settles(n)
  BY <1>1, <1>2, <1>4, SkipSettles
<1> QED BY <1>1, <1>3, <1>4 DEF SkipReady, SkipRoutedAway

(* Receive settles the node whose result came in.                          *)
LEMMA ReceiveSettles ==
  ASSUME TypeOK, SchedulerInv, EventInv, ResultInv, NEW n \in Node, Receive(n)
  PROVE  Settles(n)
<1> USE DEF TypeOK
<1>1. n \in inFlight /\ task[n] = "sent" /\ markNodeComplete(n) /\ UNCHANGED <<flow, routedAway>>
  BY DEF Receive
<1>2. n \in pending /\ Predecessors(flow, n) \cap pending = {}
  BY <1>1 DEF SchedulerInv, CountInv
<1>3. pending' = pending \ {n}  BY <1>1, <1>2, MarkCompleteCounts DEF SchedulerInv
<1>a. n \notin skippedNodes
  BY <1>2 DEF SchedulerInv, CountInv, Settled, ResultInv
<1>4. CASE outcome[n].kind = "missing" /\ settleAlwaysSkip(n)
  <2>1. flow.runWhen[n] = Always /\ ~validateInputs(n)
    BY <1>1, <1>4 DEF EventInv, NodeEvents, Reported
  <2>2. flow.refs[n] # {}  BY <2>1 DEF validateInputs, collectMissingInputs
  <2>3. \A m \in Node \ {n} : \A k \in Node :
          <<m, k>> \in deadEdges' <=> <<m, k>> \in deadEdges
    BY <1>4 DEF settleAlwaysSkip, recordRoutingDecision
  <2> QED BY <1>1, <1>2, <1>3, <1>4, <2>1, <2>2, <2>3
      DEF Settles, settleAlwaysSkip, StateTypeOK
<1>5. CASE recordFailure(n)
  <2>1. n \notin skippedNodes'  BY <1>a, <1>5 DEF recordFailure
  <2> QED BY <1>1, <1>2, <1>3, <1>5, <2>1 DEF Settles, recordFailure, StateTypeOK
<1>6. CASE recordSuccess(n)
  <2>1. \A m \in Node \ {n} : \A k \in Node :
          <<m, k>> \in deadEdges' <=> <<m, k>> \in deadEdges
    BY <1>6 DEF recordSuccess, recordRoutingDecision
  <2>2. n \notin skippedNodes'  BY <1>a, <1>6 DEF recordSuccess
  <2> QED BY <1>1, <1>2, <1>3, <1>6, <2>1, <2>2 DEF Settles, recordSuccess, StateTypeOK
<1> QED BY <1>4, <1>5, <1>6 DEF Receive

(* Every step settles one node or writes nothing about any.                *)
LEMMA WritesOnce ==
  ASSUME AcyclicFlows, TypeOK, SchedulerInv, EventInv, ResultInv, [Next]_vars
  PROVE  StepWrites
<1>1. ASSUME NEW n \in Node, SkipReady(n) \/ SkipRoutedAway(n) PROVE StepWrites
  BY <1>1, SkipActionSettles DEF StepWrites, Settles
<1>2. ASSUME NEW n \in Node, Receive(n) PROVE StepWrites
  BY <1>2, ReceiveSettles DEF StepWrites, Settles
<1>3. ASSUME NEW n \in Node, StartReady(n) \/ StartAlways(n) PROVE StepWrites
  BY <1>3 DEF StepWrites, Untouched, StartReady, StartAlways, start, countVars, resultVars
<1>4. ASSUME NEW n \in Node, Goroutine(n) PROVE StepWrites
  BY <1>4 DEF StepWrites, Untouched, Goroutine, RejectInputs, NodeStarted, NodeFinished,
              SendDone, GoroutineOnly, countVars, resultVars
<1>5. ASSUME ControlOnly PROVE StepWrites
  BY <1>5 DEF StepWrites, Untouched, ControlOnly, countVars, resultVars
<1>6. CASE finalizeExecution
  BY <1>6 DEF StepWrites, Untouched, finalizeExecution, countVars
<1>7. CASE UNCHANGED vars
  BY <1>7 DEF StepWrites, Untouched, vars, countVars, resultVars
<1>8. ASSUME \/ \E n \in Node : KeepAlways(n)
             \/ ScanReady \/ EndPass \/ EndRouted \/ EndStartAlways \/ BeginAlwaysPhase
      PROVE  ControlOnly
  BY <1>8 DEF KeepAlways, ScanReady, EndPass, EndRouted, EndStartAlways, BeginAlwaysPhase
<1> QED BY <1>1, <1>2, <1>3, <1>4, <1>5, <1>6, <1>7, <1>8, StepKinds

(* Nothing about a settled node is written.                                *)
LEMMA SettledKept ==
  ASSUME StepWrites, NEW m \in Node, m \notin pending
  PROVE  /\ flow' = flow /\ m \notin pending'
         /\ results'[m] = results[m] /\ allOutputs'[m] = allOutputs[m]
         /\ failureCause'[m] = failureCause[m]
         /\ (m \in failedNodes' <=> m \in failedNodes)
         /\ (m \in skippedNodes' <=> m \in skippedNodes)
         /\ (m \in routedAway' <=> m \in routedAway)
         /\ \A k \in Node : (<<m, k>> \in deadEdges' <=> <<m, k>> \in deadEdges)
<1>1. CASE Untouched  BY <1>1 DEF Untouched
<1>2. ASSUME NEW n \in pending, Settles(n)
      PROVE  /\ flow' = flow /\ m \notin pending'
             /\ results'[m] = results[m] /\ allOutputs'[m] = allOutputs[m]
             /\ failureCause'[m] = failureCause[m]
             /\ (m \in failedNodes' <=> m \in failedNodes)
             /\ (m \in skippedNodes' <=> m \in skippedNodes)
             /\ (m \in routedAway' <=> m \in routedAway)
             /\ \A k \in Node : (<<m, k>> \in deadEdges' <=> <<m, k>> \in deadEdges)
  <2>1. m \in Node \ {n}  OBVIOUS
  <2> QED BY <1>2, <2>1 DEF Settles
<1> QED BY <1>1, <1>2 DEF StepWrites

(* A node is below a failure when a predecessor has a cause.               *)
BlockedByPredecessor ==
  \A n \in Node : (upstreamFailure(n) <=>
                     \E p \in Predecessors(flow, n) : failureCause[p] # NoNode)

(* So it is: the edges into a node come from its predecessors.             *)
LEMMA BlockedMeans == StateTypeOK => BlockedByPredecessor
<1> SUFFICES ASSUME StateTypeOK, NEW n \in Node
             PROVE  upstreamFailure(n) <=>
                      \E p \in Predecessors(flow, n) : failureCause[p] # NoNode
  BY DEF BlockedByPredecessor
<1>1. flow \in Flow  BY FlowsAssumption DEF StateTypeOK
<1>2. \A i \in DOMAIN flow.edges : flow.edges[i] \in Node \X Node  BY <1>1, EdgesFinite
<1>3. ASSUME NEW i \in BlockingEdges(n)
      PROVE  \E p \in Predecessors(flow, n) : failureCause[p] # NoNode
  <2>1. /\ i \in DOMAIN flow.edges /\ flow.edges[i][2] = n
        /\ failureCause[flow.edges[i][1]] # NoNode
    BY DEF BlockingEdges, EdgesInto
  <2>2. flow.edges[i] = <<flow.edges[i][1], n>> /\ flow.edges[i][1] \in Node
    BY <1>2, <2>1
  <2>3. flow.edges[i][1] \in Predecessors(flow, n)
    BY <2>1, <2>2 DEF Predecessors, EdgesBetween
  <2> QED BY <2>1, <2>3
<1>4. ASSUME NEW p \in Predecessors(flow, n), failureCause[p] # NoNode
      PROVE  BlockingEdges(n) # {}
  <2>1. PICK i \in DOMAIN flow.edges : flow.edges[i] = <<p, n>>
    BY DEF Predecessors, EdgesBetween
  <2>2. i \in BlockingEdges(n)  BY <1>4, <2>1 DEF BlockingEdges, EdgesInto
  <2> QED BY <2>2
<1> QED BY <1>3, <1>4 DEF upstreamFailure

(* What the predecessors decide about a node stays decided once they are   *)
(* all settled.                                                            *)
LEMMA DecisionKept ==
  ASSUME StateTypeOK, StateTypeOK', StepWrites, NEW n \in Node,
         Predecessors(flow, n) \cap pending = {}
  PROVE  /\ (upstreamFailure(n)' <=> upstreamFailure(n))
         /\ (isFullyDead(n)' <=> isFullyDead(n))
         /\ (isRoutedAway(n)' <=> isRoutedAway(n))
<1>1. flow' = flow  BY DEF StepWrites, Untouched, Settles
<1>2. ASSUME NEW p \in Predecessors(flow, n)
      PROVE  /\ failureCause'[p] = failureCause[p]
             /\ (p \in failedNodes' <=> p \in failedNodes)
             /\ (p \in skippedNodes' <=> p \in skippedNodes)
             /\ (p \in routedAway' <=> p \in routedAway)
             /\ (<<p, n>> \in deadEdges' <=> <<p, n>> \in deadEdges)
  <2>1. p \in Node /\ p \notin pending  BY DEF Predecessors
  <2> QED BY <2>1, SettledKept
<1>3. Predecessors(flow', n) = Predecessors(flow, n)  BY <1>1
<1>4. upstreamFailure(n)' <=> upstreamFailure(n)
  <2>1. upstreamFailure(n) <=> \E p \in Predecessors(flow, n) : failureCause[p] # NoNode
    BY BlockedMeans DEF BlockedByPredecessor
  <2>2. upstreamFailure(n)' <=>
          \E p \in Predecessors(flow', n) : failureCause'[p] # NoNode
    <3>1. StateTypeOK' => BlockedByPredecessor'  BY BlockedMeans, PTL
    <3> QED BY <3>1 DEF BlockedByPredecessor
  <2> QED BY <1>2, <1>3, <2>1, <2>2
<1>5. isFullyDead(n)' <=> isFullyDead(n)  BY <1>2, <1>3 DEF isFullyDead
<1>6. isRoutedAway(n)' <=> isRoutedAway(n)  BY <1>2, <1>3 DEF isRoutedAway
<1> QED BY <1>4, <1>5, <1>6

(* A set closed under predecessors that has those of n has all upstream    *)
(* of n.                                                                   *)
LEMMA UpstreamSettled ==
  ASSUME StateTypeOK, CountInv, NEW n \in Node, Predecessors(flow, n) \cap pending = {}
  PROVE  Upstream(flow, n) \subseteq Node \ pending
<1>1. \A s \in (Node \ pending) \cup {n} : Predecessors(flow, s) \subseteq Node \ pending
  BY DEF CountInv, Predecessors
<1> DEFINE S == Node \ pending
<1>2. S \in SUBSET Node /\ \A s \in S \cup {n} : Predecessors(flow, s) \subseteq S
  BY <1>1
<1> HIDE DEF S
<1>3. Upstream(flow, n) \subseteq S
  BY <1>2 DEF Upstream
<1> QED BY <1>3 DEF S

(* No step skips a node that a started node refers to.                     *)
LEMMA RefsKept ==
  ASSUME RefsAreUpstream, TypeOK, SchedulerInv, ResultInv, StepWrites, NEW n \in Node,
         Predecessors(flow, n) \cap pending = {}, flow.runWhen[n] = OnSuccess
  PROVE  inputsReferenceSkippedNode(n)' <=> inputsReferenceSkippedNode(n)
<1> USE DEF TypeOK
<1>1. flow' = flow /\ flow \in Flows /\ flow \in Flow
  BY FlowsAssumption DEF StepWrites, Untouched, Settles, StateTypeOK
<1>2. flow.refs[n] \subseteq Node  BY <1>1 DEF Flow
<1>3. \A p \in skippedNodes : p \in Node /\ p \notin pending
  BY DEF ResultInv, SchedulerInv, CountInv, Settled
<1>4. ASSUME inputsReferenceSkippedNode(n) PROVE inputsReferenceSkippedNode(n)'
  <2>1. PICK p \in flow.refs[n] :
          p \in skippedNodes /\ ~ResolvesToFlowInput(flow, p, allOutputs)
    BY <1>4 DEF inputsReferenceSkippedNode
  <2>2. p \in skippedNodes' /\ allOutputs'[p] = allOutputs[p]
    BY <1>3, <2>1, SettledKept
  <2> QED BY <1>1, <2>1, <2>2 DEF inputsReferenceSkippedNode, ResolvesToFlowInput
<1>5. ASSUME inputsReferenceSkippedNode(n)' PROVE inputsReferenceSkippedNode(n)
  <2>1. PICK p \in flow.refs[n] :
          p \in skippedNodes' /\ ~ResolvesToFlowInput(flow, p, allOutputs')
    BY <1>1, <1>5 DEF inputsReferenceSkippedNode
  <2>2. p \in Node  BY <1>2
  <2>3. CASE p \notin pending
    BY <2>1, <2>2, <2>3, SettledKept DEF inputsReferenceSkippedNode, ResolvesToFlowInput
  <2>4. CASE p \in pending
    <3>1. p \notin skippedNodes  BY <1>3, <2>4
    <3>2. p \notin Upstream(flow, n)
      BY <2>4, UpstreamSettled DEF SchedulerInv
    <3>3. flow.input[p] # "none" /\ (flow.runWhen[p] = OnSuccess \/ flow.refs[p] = {})
      BY <1>1, <3>2 DEF RefsAreUpstream
    <3>4. PICK k \in pending : Settles(k)
      BY <2>1, <3>1 DEF StepWrites, Untouched
    <3>5. p = k  BY <2>1, <2>2, <3>1, <3>4 DEF Settles
    <3>6. allOutputs'[p] = None
      BY <2>1, <3>3, <3>4, <3>5 DEF Settles, OnSuccess, Always
    <3> QED BY <2>1, <3>3, <3>6 DEF ResolvesToFlowInput
  <2> QED BY <2>3, <2>4
<1> QED BY <1>4, <1>5

(* A verdict on a node whose predecessors are settled is final.            *)
LEMMA VerdictKept ==
  ASSUME RefsAreUpstream, TypeOK, StateTypeOK', SchedulerInv, ResultInv, StepWrites,
         NEW n \in Node, Predecessors(flow, n) \cap pending = {}
  PROVE  /\ LetIn(n) => LetIn(n)'
         /\ KeptOut(n) /\ view'[n] = view[n] => KeptOut(n)'
<1> USE DEF TypeOK
<1>1. flow' = flow  BY DEF StepWrites, Untouched, Settles
<1>2. /\ (upstreamFailure(n)' <=> upstreamFailure(n))
      /\ (isFullyDead(n)' <=> isFullyDead(n))
      /\ (isRoutedAway(n)' <=> isRoutedAway(n))
  BY DecisionKept
<1>3. flow.runWhen[n] = OnSuccess => (Excluded(n)' <=> Excluded(n))
  BY <1>2, RefsKept DEF Excluded
<1>4. LetIn(n) => LetIn(n)'  BY <1>1, <1>2, <1>3 DEF LetIn
<1>5. ASSUME KeptOut(n), view'[n] = view[n] PROVE KeptOut(n)'
  BY <1>1, <1>2, <1>3, <1>5 DEF KeptOut
<1> QED BY <1>4, <1>5

-----------------------------------------------------------------------------
(* The events.                                                             *)

(* The events of a node that a step does not touch.                        *)
LEMMA EventFrame ==
  ASSUME NEW m \in Node, NodeEvents(m), flow' = flow, m \in pending' => m \in pending,
         task'[m] = task[m], results'[m] = results[m], outcome'[m] = outcome[m],
         view'[m] = view[m], startedEvents'[m] = startedEvents[m],
         finishedEvents'[m] = finishedEvents[m]
  PROVE  NodeEvents(m)'
BY DEF NodeEvents, Reported, validateInputs

(* A node at hand has no event yet, and one that is running no result.     *)
LEMMA EventsBefore ==
  ASSUME TypeOK, SchedulerInv, EventInv
  PROVE  /\ \A n \in todo : /\ n \in Node /\ n \in pending /\ task[n] = "idle"
                            /\ startedEvents[n] = 0 /\ finishedEvents[n] = 0
                            /\ results[n] = "none"
         /\ \A n \in Node : task[n] # "idle" =>
                            n \in inFlight /\ n \in pending /\ results[n] = "none"
<1> USE DEF TypeOK
<1>1. \A n \in pending : n \in Node /\ results[n] = "none"
  BY DEF SchedulerInv, CountInv, Settled, StateTypeOK
<1>2. ASSUME NEW n \in todo
      PROVE  n \in Node /\ n \in pending /\ task[n] = "idle"
  BY DEF SchedulerInv, CountInv, LoopTypeOK
<1>3. ASSUME NEW n \in todo
      PROVE  startedEvents[n] = 0 /\ finishedEvents[n] = 0
  BY <1>2 DEF EventInv, NodeEvents
<1>4. \A n \in Node : task[n] # "idle" => n \in inFlight /\ n \in pending
  BY DEF SchedulerInv, CountInv
<1> QED BY <1>1, <1>2, <1>3, <1>4

(* Skipping a node emits its NodeFinished event.                           *)
LEMMA SkipEvents ==
  ASSUME TypeOK, SchedulerInv, EventInv, NEW n \in todo, NEW cause,
         recordSkippedNode(n, cause), todo' = todo \ {n}
  PROVE  EventInv'
<1> USE DEF TypeOK
<1>1. /\ flow' = flow /\ pending' = pending \ {n}
  BY SkipKeepsCounts DEF SchedulerInv
<1>2. /\ results' = [results EXCEPT ![n] = "skipped"]
      /\ finishedEvents' = [finishedEvents EXCEPT ![n] = @ + 1]
      /\ UNCHANGED <<task, view, outcome, startedEvents>>
  BY DEF recordSkippedNode, taskVars
<1>3. /\ n \in Node /\ task[n] = "idle" /\ startedEvents[n] = 0 /\ finishedEvents[n] = 0
  BY EventsBefore
<1>4. ASSUME NEW m \in Node \ {n} PROVE NodeEvents(m)'
  BY <1>1, <1>2, EventFrame DEF EventInv, StateTypeOK, TaskTypeOK
<1>5. results'[n] = "skipped" /\ startedEvents'[n] = 0 /\ finishedEvents'[n] = 1
      /\ task'[n] = "idle" /\ n \notin pending'
  BY <1>1, <1>2, <1>3 DEF StateTypeOK, TaskTypeOK
<1>6. NodeEvents(n)'  BY <1>5 DEF NodeEvents
<1> QED BY <1>4, <1>6 DEF EventInv

(* Starting a node emits nothing yet.                                      *)
LEMMA StartEvents ==
  ASSUME TypeOK, SchedulerInv, EventInv, NEW n \in todo, start(n)
  PROVE  EventInv'
<1> USE DEF TypeOK
<1>1. /\ task' = [task EXCEPT ![n] = "spawned"] /\ view' = [view EXCEPT ![n] = allOutputs]
      /\ outcome' = [outcome EXCEPT ![n] = NoOutcome]
      /\ UNCHANGED <<flow, pending, results, startedEvents, finishedEvents>>
  BY DEF start, countVars, resultVars
<1>2. /\ n \in Node /\ startedEvents[n] = 0 /\ finishedEvents[n] = 0 /\ results[n] = "none"
  BY EventsBefore
<1>3. ASSUME NEW m \in Node \ {n} PROVE NodeEvents(m)'
  BY <1>1, EventFrame DEF EventInv, TaskTypeOK
<1>4. task'[n] = "spawned"  BY <1>1, <1>2 DEF TaskTypeOK
<1>5. NodeEvents(n)'  BY <1>1, <1>2, <1>4 DEF NodeEvents
<1> QED BY <1>3, <1>5 DEF EventInv

(* Receiving a result turns what the goroutine reported into the result.   *)
LEMMA ReceiveEvents ==
  ASSUME TypeOK, SchedulerInv, EventInv, ResultInv, NEW n \in Node, Receive(n)
  PROVE  EventInv'
<1> USE DEF TypeOK
<1>1. /\ task' = [task EXCEPT ![n] = "idle"] /\ task[n] = "sent"
      /\ UNCHANGED <<flow, view, outcome, startedEvents>>
  BY DEF Receive
<1>2. Settles(n)  BY ReceiveSettles
<1>3. Reported(n)  BY <1>1 DEF EventInv, NodeEvents
<1>4. ASSUME NEW m \in Node \ {n} PROVE NodeEvents(m)'
  <2>1. finishedEvents'[m] = finishedEvents[m]
    BY DEF Receive, settleAlwaysSkip, recordFailure, recordSuccess, TaskTypeOK
  <2>2. results'[m] = results[m] /\ (m \in pending' => m \in pending)
    BY <1>2 DEF Settles
  <2>3. task'[m] = task[m]  BY <1>1 DEF TaskTypeOK
  <2> QED BY <1>1, <2>1, <2>2, <2>3, EventFrame DEF EventInv
<1>5. task'[n] = "idle" /\ n \notin pending'  BY <1>1, <1>2 DEF Settles, TaskTypeOK
<1>6. CASE outcome[n].kind = "missing" /\ settleAlwaysSkip(n)
  <2>1. startedEvents[n] = 0 /\ finishedEvents[n] = 0  BY <1>3, <1>6 DEF Reported
  <2>2. results'[n] = "skipped" /\ finishedEvents'[n] = 1
    BY <1>6, <2>1 DEF settleAlwaysSkip, StateTypeOK, TaskTypeOK
  <2>3. NodeEvents(n)'  BY <1>1, <1>5, <2>1, <2>2 DEF NodeEvents
  <2> QED BY <1>4, <2>3 DEF EventInv
<1>7. CASE outcome[n].kind = "failed" /\ recordFailure(n)
  <2>1. /\ results'[n] = IF outcome[n].outputs = None THEN "nil" ELSE "failed"
        /\ finishedEvents' = finishedEvents
    BY <1>7 DEF recordFailure, StateTypeOK
  <2>2. /\ startedEvents[n] \in {0, 1} /\ finishedEvents[n] = startedEvents[n]
        /\ outcome[n].outputs # None => startedEvents[n] = 1
    BY <1>3, <1>7 DEF Reported
  <2>3. NodeEvents(n)'  BY <1>1, <1>5, <2>1, <2>2 DEF NodeEvents
  <2> QED BY <1>4, <2>3 DEF EventInv
<1>8. CASE outcome[n].kind = "ok" /\ recordSuccess(n)
  <2>1. results'[n] = "ok" /\ finishedEvents' = finishedEvents
    BY <1>8 DEF recordSuccess, StateTypeOK
  <2>2. startedEvents[n] = 1 /\ finishedEvents[n] = 1  BY <1>3, <1>8 DEF Reported
  <2>3. NodeEvents(n)'  BY <1>1, <1>5, <2>1, <2>2 DEF NodeEvents
  <2> QED BY <1>4, <2>3 DEF EventInv
<1> QED BY <1>6, <1>7, <1>8 DEF Receive

(* The goroutine emits the events in order.                                *)
LEMMA GoroutineEvents ==
  ASSUME TypeOK, SchedulerInv, EventInv, NEW n \in Node, Goroutine(n)
  PROVE  EventInv'
<1> USE DEF TypeOK
<1>1. UNCHANGED <<flow, pending, results, view>>
  BY DEF Goroutine, RejectInputs, NodeStarted, NodeFinished, SendDone, GoroutineOnly,
         countVars, resultVars
<1>2. ASSUME NEW m \in Node \ {n}
      PROVE  /\ task'[m] = task[m] /\ outcome'[m] = outcome[m]
             /\ startedEvents'[m] = startedEvents[m]
             /\ finishedEvents'[m] = finishedEvents[m]
  <2>1. CASE RejectInputs(n)  BY <2>1 DEF RejectInputs, TaskTypeOK
  <2>2. CASE NodeStarted(n)  BY <2>2 DEF NodeStarted, TaskTypeOK
  <2>3. CASE NodeFinished(n)  BY <2>3 DEF NodeFinished, TaskTypeOK
  <2>4. CASE SendDone(n)  BY <2>4 DEF SendDone, TaskTypeOK
  <2> QED BY <2>1, <2>2, <2>3, <2>4 DEF Goroutine
<1>3. ASSUME NEW m \in Node \ {n} PROVE NodeEvents(m)'
  BY <1>1, <1>2, EventFrame DEF EventInv
<1>4. task[n] # "idle"
  BY DEF Goroutine, RejectInputs, NodeStarted, NodeFinished, SendDone
<1>5. n \in pending /\ results[n] = "none" /\ NodeEvents(n)
  BY <1>4, EventsBefore DEF EventInv
<1>6. CASE RejectInputs(n)
  <2>1. /\ task[n] = "spawned" /\ ~validateInputs(n) /\ task'[n] = "reported"
        /\ outcome'[n] = IF flow.runWhen[n] = Always THEN MissingInputs ELSE NilError
        /\ startedEvents'[n] = 0 /\ finishedEvents'[n] = 0
    BY <1>5, <1>6 DEF RejectInputs, TaskTypeOK, NodeEvents
  <2>2. ~validateInputs(n)'  BY <1>1, <2>1 DEF validateInputs
  <2>3. Reported(n)'
    BY <1>1, <2>1, <2>2 DEF Reported, MissingInputs, NilError
  <2>4. NodeEvents(n)'  BY <1>1, <1>5, <2>1, <2>3 DEF NodeEvents
  <2> QED BY <1>3, <2>4 DEF EventInv
<1>7. CASE NodeStarted(n)
  <2>1. task'[n] = "running" /\ startedEvents'[n] = 1 /\ finishedEvents'[n] = 0
    BY <1>5, <1>7 DEF NodeStarted, TaskTypeOK, NodeEvents
  <2>2. NodeEvents(n)'  BY <1>1, <1>5, <2>1 DEF NodeEvents
  <2> QED BY <1>3, <2>2 DEF EventInv
<1>8. CASE NodeFinished(n)
  <2>1. task'[n] = "reported" /\ startedEvents'[n] = 1 /\ finishedEvents'[n] = 1
    BY <1>5, <1>8 DEF NodeFinished, TaskTypeOK, NodeEvents
  <2>2. outcome'[n].kind \in {"ok", "failed"}
    BY <1>8 DEF NodeFinished, NodeOutcomes, TaskTypeOK
  <2>3. Reported(n)'  BY <2>1, <2>2 DEF Reported
  <2>4. NodeEvents(n)'  BY <1>1, <1>5, <2>1, <2>3 DEF NodeEvents
  <2> QED BY <1>3, <2>4 DEF EventInv
<1>9. CASE SendDone(n)
  <2>1. /\ task[n] = "reported" /\ task'[n] = "sent"
        /\ UNCHANGED <<outcome, startedEvents, finishedEvents>>
    BY <1>9 DEF SendDone, TaskTypeOK
  <2>2. Reported(n)'  BY <1>1, <1>5, <2>1 DEF NodeEvents, Reported, validateInputs
  <2>3. NodeEvents(n)'  BY <1>1, <1>5, <2>1, <2>2 DEF NodeEvents
  <2> QED BY <1>3, <2>3 DEF EventInv
<1> QED BY <1>6, <1>7, <1>8, <1>9 DEF Goroutine

(* EventInv is inductive.                                                  *)
LEMMA EventStep ==
  ASSUME AcyclicFlows, TypeOK, SchedulerInv, EventInv, ResultInv, [Next]_vars
  PROVE  EventInv'
<1>1. ASSUME NEW n \in Node, SkipReady(n) \/ SkipRoutedAway(n) PROVE EventInv'
  <2>1. n \in todo /\ todo' = todo \ {n} /\ \E cause : recordSkippedNode(n, cause)
    BY <1>1 DEF SkipReady, SkipRoutedAway, First, Goto
  <2> QED BY <2>1, SkipEvents
<1>2. ASSUME NEW n \in Node, StartReady(n) \/ StartAlways(n) PROVE EventInv'
  BY <1>2, StartEvents DEF StartReady, StartAlways, First
<1>3. ASSUME UNCHANGED <<flow, pending, results, task, view, outcome, startedEvents,
                         finishedEvents>>
      PROVE  EventInv'
  <2>1. ASSUME NEW m \in Node PROVE NodeEvents(m)'
    BY <1>3, EventFrame DEF EventInv
  <2> QED BY <2>1 DEF EventInv
<1>4. ASSUME ControlOnly PROVE EventInv'
  BY <1>3, <1>4 DEF ControlOnly, countVars, resultVars, taskVars
<1>5. CASE finalizeExecution
  BY <1>3, <1>5 DEF finalizeExecution, countVars, taskVars
<1>6. CASE UNCHANGED vars
  BY <1>3, <1>6 DEF vars, countVars, resultVars, taskVars
<1>7. ASSUME \/ \E n \in Node : KeepAlways(n)
             \/ ScanReady \/ EndPass \/ EndRouted \/ EndStartAlways \/ BeginAlwaysPhase
      PROVE  ControlOnly
  BY <1>7 DEF KeepAlways, ScanReady, EndPass, EndRouted, EndStartAlways, BeginAlwaysPhase
<1> QED BY <1>1, <1>2, <1>4, <1>5, <1>6, <1>7, StepKinds, ReceiveEvents, GoroutineEvents

-----------------------------------------------------------------------------
(* The results.                                                            *)

(* Settling a node as skipped.                                             *)
LEMMA SkippedResult ==
  ASSUME TypeOK, SchedulerInv, ResultInv, NEW n \in pending, Settles(n),
         results' = [results EXCEPT ![n] = "skipped"],
         skippedNodes' = skippedNodes \cup {n}, failedNodes' = failedNodes, error' = error,
         phase' # "done"
  PROVE  ResultInv'
<1> USE DEF TypeOK
<1>1. n \in Node /\ results[n] = "none"
  BY DEF SchedulerInv, CountInv, Settled, StateTypeOK
<1>2. /\ \A m \in Node \ {n} : results'[m] = results[m]
      /\ results'[n] = "skipped"
  BY <1>1 DEF StateTypeOK
<1>3. failedNodes' = {m \in Node : results'[m] \in {"failed", "nil"}}
  BY <1>1, <1>2 DEF ResultInv
<1>4. skippedNodes' = {m \in Node : results'[m] = "skipped"}
  BY <1>1, <1>2 DEF ResultInv
<1>5. \A m \in pending' : allOutputs'[m] = None
  BY DEF Settles, ResultInv, StateTypeOK
<1> QED BY <1>3, <1>4, <1>5 DEF ResultInv

(* Settling a node with what its goroutine sent.                           *)
LEMMA ReceivedResult ==
  ASSUME TypeOK, SchedulerInv, EventInv, ResultInv, NEW n \in Node, Receive(n)
  PROVE  ResultInv'
<1> USE DEF TypeOK
<1>1. Settles(n) /\ n \in pending  BY ReceiveSettles DEF Settles
<1>2. phase' # "done"  BY DEF Receive, SchedulerInv, LoopInv
<1>3. results[n] = "none" /\ NoNode \notin Node
  BY <1>1, NodeAssumption DEF SchedulerInv, CountInv, Settled, StateTypeOK, NoNode
<1>4. \A m \in pending' : allOutputs'[m] = None
  BY <1>1 DEF Settles, ResultInv, StateTypeOK
<1>5. CASE settleAlwaysSkip(n)
  BY <1>1, <1>2, <1>5, SkippedResult DEF settleAlwaysSkip
<1>6. CASE recordFailure(n)
  <2>1. /\ \A m \in Node \ {n} : results'[m] = results[m]
        /\ results'[n] \in {"failed", "nil"}
    BY <1>6 DEF recordFailure, StateTypeOK
  <2>2. /\ failedNodes' = failedNodes \cup {n} /\ skippedNodes' = skippedNodes
        /\ error' = IF error = NoNode THEN n ELSE error
    BY <1>6 DEF recordFailure
  <2>3. failedNodes' = {m \in Node : results'[m] \in {"failed", "nil"}}
    BY <1>3, <2>1, <2>2 DEF ResultInv
  <2>4. skippedNodes' = {m \in Node : results'[m] = "skipped"}
    BY <1>3, <2>1, <2>2 DEF ResultInv
  <2>5. error' # NoNode /\ error' \in failedNodes'
    BY <1>3, <2>2 DEF ResultInv
  <2> QED BY <1>2, <1>4, <2>3, <2>4, <2>5 DEF ResultInv
<1>7. CASE recordSuccess(n)
  <2>1. /\ \A m \in Node \ {n} : results'[m] = results[m]
        /\ results'[n] = "ok"
    BY <1>7 DEF recordSuccess, StateTypeOK
  <2>2. UNCHANGED <<failedNodes, skippedNodes, error>>
    BY <1>7 DEF recordSuccess
  <2>3. failedNodes' = {m \in Node : results'[m] \in {"failed", "nil"}}
    BY <1>3, <2>1, <2>2 DEF ResultInv
  <2>4. skippedNodes' = {m \in Node : results'[m] = "skipped"}
    BY <1>3, <2>1, <2>2 DEF ResultInv
  <2> QED BY <1>2, <1>4, <2>2, <2>3, <2>4 DEF ResultInv
<1> QED BY <1>5, <1>6, <1>7 DEF Receive

(* ResultInv is inductive.                                                 *)
LEMMA ResultStep ==
  ASSUME AcyclicFlows, TypeOK, SchedulerInv, EventInv, ResultInv, [Next]_vars
  PROVE  ResultInv'
<1>1. ASSUME NEW n \in Node, SkipReady(n) \/ SkipRoutedAway(n) PROVE ResultInv'
  <2>1. Settles(n) /\ n \in pending  BY <1>1, SkipActionSettles DEF Settles
  <2>2. \E cause : recordSkippedNode(n, cause)
    BY <1>1 DEF SkipReady, SkipRoutedAway
  <2>3. /\ results' = [results EXCEPT ![n] = "skipped"]
        /\ skippedNodes' = skippedNodes \cup {n} /\ UNCHANGED <<failedNodes, error>>
    BY <2>2 DEF recordSkippedNode
  <2>4. phase' # "done"
    BY <1>1 DEF SkipReady, SkipRoutedAway, SchedulerInv, LoopInv
  <2> QED BY <2>1, <2>3, <2>4, SkippedResult
<1>2. ASSUME UNCHANGED <<pending, allOutputs, results, error, failedNodes, skippedNodes,
                         success>>,
             phase' = "done" => phase = "done"
      PROVE  ResultInv'
  BY <1>2 DEF ResultInv
<1>3. ASSUME NEW n \in Node, StartReady(n) \/ StartAlways(n) PROVE ResultInv'
  BY <1>2, <1>3 DEF StartReady, StartAlways, start, countVars, resultVars
<1>4. ASSUME NEW n \in Node, Goroutine(n) PROVE ResultInv'
  BY <1>2, <1>4 DEF Goroutine, RejectInputs, NodeStarted, NodeFinished, SendDone,
                    GoroutineOnly, loopVars, countVars, resultVars
<1>5. CASE \/ \E n \in Node : KeepAlways(n)
           \/ ScanReady \/ EndPass \/ EndRouted \/ EndStartAlways \/ BeginAlwaysPhase
  <2>1. ControlOnly /\ (phase' = "done" => phase = "done")
    BY <1>5 DEF KeepAlways, ScanReady, EndPass, EndRouted, EndStartAlways,
                BeginAlwaysPhase, Always
  <2> QED BY <1>2, <2>1 DEF ControlOnly, countVars, resultVars
<1>6. CASE finalizeExecution
  <2>1. pending = {}
    <3>1. SchedulerInv' /\ phase' = "done" /\ pending' = pending
      BY <1>6, SchedulerStep DEF finalizeExecution, countVars
    <3> QED BY <3>1 DEF SchedulerInv, PhaseInv
  <2>2. error' = error  BY <1>6, <2>1 DEF finalizeExecution
  <2> QED BY <1>6, <2>2 DEF finalizeExecution, countVars, ResultInv
<1>7. CASE UNCHANGED vars
  BY <1>2, <1>7 DEF vars, loopVars, countVars, resultVars
<1> QED BY <1>1, <1>3, <1>4, <1>5, <1>6, <1>7, StepKinds, ReceivedResult

-----------------------------------------------------------------------------
(* The views.                                                              *)

(* ViewCoversUpstream is inductive: what a node's snapshot has of the      *)
(* nodes upstream of it is final, because they are settled when the        *)
(* snapshot is taken.                                                      *)
LEMMA ViewStep ==
  ASSUME AcyclicFlows, TypeOK, SchedulerInv, EventInv, ResultInv, ViewCoversUpstream,
         [Next]_vars
  PROVE  ViewCoversUpstream'
<1> USE DEF TypeOK
<1>1. StepWrites  BY WritesOnce
<1>2. flow' = flow  BY <1>1 DEF StepWrites, Untouched, Settles
<1>3. ASSUME NEW n \in inFlight' \cap inFlight, view'[n] = view[n],
             NEW p \in Upstream(flow, n)
      PROVE  view'[n][p] = allOutputs'[p]
  <2>1. n \in Node /\ p \in Node /\ p \notin pending
    BY UpstreamSettled DEF TaskTypeOK, SchedulerInv, CountInv, Upstream
  <2> QED BY <1>1, <1>3, <2>1, SettledKept DEF ViewCoversUpstream
<1>4. ASSUME NEW n \in Node, StartReady(n) \/ StartAlways(n) PROVE ViewCoversUpstream'
  <2>1. /\ inFlight' = inFlight \cup {n} /\ view' = [view EXCEPT ![n] = allOutputs]
        /\ allOutputs' = allOutputs
    BY <1>4 DEF StartReady, StartAlways, start, resultVars
  <2>2. ASSUME NEW m \in inFlight', NEW p \in Upstream(flow, m)
        PROVE  view'[m][p] = allOutputs'[p]
    <3>1. CASE m = n  BY <2>1, <3>1 DEF TaskTypeOK
    <3>2. CASE m # n  BY <1>3, <2>1, <3>2 DEF TaskTypeOK
    <3> QED BY <3>1, <3>2
  <2> QED BY <1>2, <2>2 DEF ViewCoversUpstream
<1>5. ASSUME inFlight' \subseteq inFlight, view' = view PROVE ViewCoversUpstream'
  BY <1>2, <1>3, <1>5 DEF ViewCoversUpstream
<1>6. ASSUME NEW n \in Node, SkipReady(n) \/ SkipRoutedAway(n) PROVE ViewCoversUpstream'
  BY <1>5, <1>6 DEF SkipReady, SkipRoutedAway, recordSkippedNode, taskVars
<1>7. ASSUME NEW n \in Node, Receive(n) \/ Goroutine(n) PROVE ViewCoversUpstream'
  BY <1>5, <1>7 DEF Receive, Goroutine, RejectInputs, NodeStarted, NodeFinished, SendDone,
                    GoroutineOnly
<1>8. CASE \/ \E n \in Node : KeepAlways(n)
           \/ ScanReady \/ EndPass \/ EndRouted \/ EndStartAlways \/ BeginAlwaysPhase
  <2>1. ControlOnly
    BY <1>8 DEF KeepAlways, ScanReady, EndPass, EndRouted, EndStartAlways, BeginAlwaysPhase
  <2> QED BY <1>5, <2>1 DEF ControlOnly, taskVars
<1>9. CASE finalizeExecution \/ UNCHANGED vars
  BY <1>5, <1>9 DEF finalizeExecution, vars, taskVars
<1> QED BY <1>4, <1>6, <1>7, <1>8, <1>9, StepKinds

-----------------------------------------------------------------------------
(* The lists of the loop.                                                  *)

(* ListInv is inductive.                                                   *)
LEMMA ListStep ==
  ASSUME AcyclicFlows, TypeOK, SchedulerInv, ListInv, [Next]_vars
  PROVE  ListInv'
<1> USE DEF TypeOK
<1>1. ASSUME pc' \notin {"pass", "routed", "startAlways"} PROVE ListInv'
  BY <1>1 DEF ListInv
<1>2. ASSUME ControlOnly
      PROVE  /\ UNCHANGED <<flow, pending, remaining, inFlight>>
             /\ ready(OnSuccess)' = ready(OnSuccess) /\ ready(Always)' = ready(Always)
             /\ \A n \in Node : isRoutedAway(n)' <=> isRoutedAway(n)
  <2>1. UNCHANGED <<flow, pending, remaining, inFlight, deadEdges, routedAway>>
    BY <1>2 DEF ControlOnly, countVars, resultVars, taskVars
  <2> QED BY <2>1 DEF ready, isRoutedAway, OnSuccess, Always
<1>3. ready(OnSuccess) \subseteq Node /\ ready(Always) \subseteq Node
  BY DEF ready, StateTypeOK
<1>4. CASE ScanReady
  <2>1. pc' = "pass" /\ todo' = ready(OnSuccess) /\ flow' = flow
    BY <1>2, <1>4 DEF ScanReady, Goto
  <2> QED BY <2>1 DEF ListInv, ready
<1>5. ASSUME NEW n \in Node, SkipReady(n) \/ SkipRoutedAway(n) PROVE ListInv'
  <2>1. /\ pc \in {"pass", "routed"} /\ pc' = pc /\ todo' \subseteq todo
        /\ skippedInPass' = TRUE /\ flow' = flow
    BY <1>5 DEF SkipReady, SkipRoutedAway, Goto, recordSkippedNode
  <2> QED BY <2>1 DEF ListInv
<1>6. ASSUME NEW n \in Node, StartReady(n) PROVE ListInv'
  <2>1. pc = "pass" /\ pc' = pc /\ todo' \subseteq todo /\ flow' = flow
    BY <1>6 DEF StartReady, start, Goto
  <2> QED BY <2>1 DEF ListInv
<1>7. ASSUME NEW n \in Node, StartAlways(n) PROVE ListInv'
  <2>1. /\ pc = "startAlways" /\ pc' = pc /\ todo' \subseteq todo
        /\ UNCHANGED <<flow, deadEdges, routedAway>>
    BY <1>7 DEF StartAlways, start, resultVars, Goto
  <2>2. \A m \in Node : isRoutedAway(m)' <=> isRoutedAway(m)
    BY <2>1 DEF isRoutedAway
  <2> QED BY <2>1, <2>2 DEF ListInv, LoopTypeOK
<1>8. CASE EndPass
  <2>1. ControlOnly /\ skippedInPass' = FALSE
    BY <1>8 DEF EndPass
  <2>2. CASE pc' = "routed" /\ todo' = ready(Always)
    <3>1. ready(Always)' \ todo' = {}  BY <1>2, <2>1, <2>2
    <3> QED BY <1>2, <2>1, <2>2, <3>1 DEF ListInv, ready
  <2>3. CASE pc' \in {"scan", "select"}  BY <1>1, <2>3
  <2> QED BY <1>8, <2>2, <2>3 DEF EndPass, Goto
<1>9. ASSUME NEW n \in Node, KeepAlways(n) PROVE ListInv'
  <2>1. /\ ControlOnly /\ pc = "routed" /\ pc' = pc /\ todo' = todo \ {n}
        /\ skippedInPass' = skippedInPass /\ ~isRoutedAway(n)
    BY <1>9 DEF KeepAlways, Goto
  <2>2. \A m \in todo' : flow'.runWhen[m] = Always
    BY <1>2, <2>1 DEF ListInv
  <2>3. ASSUME ~skippedInPass', NEW m \in ready(Always)' \ todo'
        PROVE  ~isRoutedAway(m)'
    <3>1. m \in ready(Always) /\ m \in Node /\ (m = n \/ m \notin todo)
      BY <1>2, <1>3, <2>1, <2>3
    <3> QED BY <1>2, <2>1, <2>3, <3>1 DEF ListInv
  <2> QED BY <2>1, <2>2, <2>3 DEF ListInv
<1>10. CASE EndRouted
  <2>1. ControlOnly /\ pc = "routed" /\ todo = {}  BY <1>10 DEF EndRouted
  <2>2. CASE ~skippedInPass /\ pc' = "startAlways" /\ todo' = ready(Always)
    <3>1. \A n \in todo' : flow'.runWhen[n] = Always
      BY <1>2, <2>1, <2>2 DEF ready
    <3>2. \A n \in todo' : ~isRoutedAway(n)
      BY <2>1, <2>2 DEF ListInv
    <3>3. \A n \in todo' : ~isRoutedAway(n)'
      BY <1>2, <1>3, <2>1, <2>2, <3>2
    <3> QED BY <2>2, <3>1, <3>3 DEF ListInv
  <2>3. CASE pc' = "scan"  BY <1>1, <2>3
  <2> QED BY <1>10, <2>2, <2>3 DEF EndRouted, Goto
<1>11. ASSUME NEW n \in Node, Goroutine(n) PROVE ListInv'
  <2>1. UNCHANGED <<flow, loopVars, countVars, resultVars, inFlight>>
    BY <1>11 DEF Goroutine, RejectInputs, NodeStarted, NodeFinished, SendDone, GoroutineOnly
  <2> QED BY <2>1 DEF ListInv, ready, isRoutedAway, loopVars, countVars, resultVars
<1>12. CASE EndStartAlways \/ BeginAlwaysPhase \/ finalizeExecution
  BY <1>1, <1>12 DEF EndStartAlways, BeginAlwaysPhase, finalizeExecution, Goto
<1>13. ASSUME NEW n \in Node, Receive(n) PROVE ListInv'
  BY <1>1, <1>13 DEF Receive, Goto
<1>14. CASE UNCHANGED vars
  BY <1>14 DEF vars, ListInv, ready, isRoutedAway, loopVars, countVars, resultVars, taskVars
<1> QED BY <1>4, <1>5, <1>6, <1>7, <1>8, <1>9, <1>10, <1>11, <1>12, <1>13, <1>14, StepKinds

-----------------------------------------------------------------------------
(* The verdicts and the failure causes.                                    *)

(* Why a step may start, skip or fail a node, or give it a failure cause.  *)
StartedNow(n) == n \in todo /\ (StartReady(n) \/ StartAlways(n))

SkippedNow(n) ==
  \/ n \in todo /\ (SkipReady(n) \/ SkipRoutedAway(n))
  \/ /\ n \in inFlight /\ flow.runWhen[n] = Always /\ ~validateInputs(n)
     /\ UNCHANGED <<failureCause, view>>

CausedNow(n) ==
  \E i \in BlockingEdges(n) :
    failureCause' = [failureCause EXCEPT ![n] = failureCause[flow.edges[i][1]]]

NewVerdicts ==
  /\ \A n \in inFlight' \cup Ran' : n \in inFlight \cup Ran \/ StartedNow(n)
  /\ \A n \in skippedNodes' : n \in skippedNodes \/ SkippedNow(n)
  /\ \A n \in failedNodes' : n \in failedNodes \/ failureCause'[n] = n
  /\ \A n \in Node : \/ failureCause'[n] = failureCause[n]
                     \/ n \in failedNodes' /\ failureCause'[n] = n
                     \/ SkipReady(n) /\ CausedNow(n)
  /\ \A n \in Node \ todo : view'[n] = view[n]

(* A skip decides on the node at hand only.                                *)
LEMMA SkipVerdicts ==
  ASSUME TypeOK, SchedulerInv, ResultInv, NEW n \in Node, SkipReady(n) \/ SkipRoutedAway(n)
  PROVE  NewVerdicts
<1> USE DEF TypeOK
<1>1. n \in todo /\ Settles(n)  BY SkipActionSettles
<1>2. /\ UNCHANGED <<inFlight, view, failedNodes>>
      /\ skippedNodes' = skippedNodes \cup {n} /\ results' = [results EXCEPT ![n] = "skipped"]
  BY DEF SkipReady, SkipRoutedAway, recordSkippedNode, taskVars
<1>3. Ran' \subseteq Ran  BY <1>2 DEF Ran, StateTypeOK
<1>4. failureCause' = failureCause \/ (SkipReady(n) /\ CausedNow(n))
  BY DEF SkipReady, SkipRoutedAway, recordSkippedNode, CausedNow
<1>5. \A m \in Node \ {n} : failureCause'[m] = failureCause[m]
  BY <1>1 DEF Settles
<1> QED BY <1>1, <1>2, <1>3, <1>4, <1>5 DEF NewVerdicts, SkippedNow

(* A received result gives its own node a cause, or none.                  *)
LEMMA ReceiveVerdicts ==
  ASSUME TypeOK, SchedulerInv, EventInv, NEW n \in Node, Receive(n)
  PROVE  NewVerdicts
<1> USE DEF TypeOK
<1>1. /\ n \in inFlight /\ task[n] = "sent" /\ inFlight' = inFlight \ {n} /\ view' = view
  BY DEF Receive
<1>2. \E r \in {"ok", "failed", "nil", "skipped"} : results' = [results EXCEPT ![n] = r]
  BY DEF Receive, settleAlwaysSkip, recordFailure, recordSuccess
<1>3. Ran' \subseteq Ran \cup {n}  BY <1>2 DEF Ran, StateTypeOK
<1>4. CASE outcome[n].kind = "missing" /\ settleAlwaysSkip(n)
  <2>1. flow.runWhen[n] = Always /\ ~validateInputs(n)
    BY <1>1, <1>4 DEF EventInv, NodeEvents, Reported
  <2>2. /\ skippedNodes' = skippedNodes \cup {n}
        /\ UNCHANGED <<failedNodes, failureCause>>
    BY <1>4 DEF settleAlwaysSkip
  <2> QED BY <1>1, <1>3, <2>1, <2>2 DEF NewVerdicts, SkippedNow
<1>5. CASE recordFailure(n)
  <2>1. /\ failedNodes' = failedNodes \cup {n} /\ skippedNodes' = skippedNodes
        /\ failureCause' = [failureCause EXCEPT ![n] = n]
    BY <1>5 DEF recordFailure
  <2>2. failureCause'[n] = n /\ \A m \in Node \ {n} : failureCause'[m] = failureCause[m]
    BY <2>1 DEF StateTypeOK
  <2> QED BY <1>1, <1>3, <2>1, <2>2 DEF NewVerdicts
<1>6. CASE recordSuccess(n)
  BY <1>1, <1>3, <1>6 DEF recordSuccess, NewVerdicts
<1> QED BY <1>4, <1>5, <1>6 DEF Receive

(* What every step decides.                                                *)
LEMMA VerdictsTaken ==
  ASSUME AcyclicFlows, TypeOK, SchedulerInv, EventInv, ResultInv, [Next]_vars
  PROVE  NewVerdicts
<1> USE DEF TypeOK
<1>1. ASSUME UNCHANGED <<inFlight, view, results, failedNodes, skippedNodes, failureCause>>
      PROVE  NewVerdicts
  BY <1>1 DEF NewVerdicts, Ran
<1>2. ASSUME NEW n \in Node, StartReady(n) \/ StartAlways(n) PROVE NewVerdicts
  <2>1. /\ n \in todo /\ inFlight' = inFlight \cup {n}
        /\ view' = [view EXCEPT ![n] = allOutputs]
        /\ UNCHANGED <<results, failedNodes, skippedNodes, failureCause>>
    BY <1>2 DEF StartReady, StartAlways, start, First, resultVars
  <2>2. \A m \in Node \ todo : view'[m] = view[m]  BY <2>1 DEF TaskTypeOK
  <2> QED BY <1>2, <2>1, <2>2 DEF NewVerdicts, Ran, StartedNow
<1>3. ASSUME NEW n \in Node, Goroutine(n) PROVE NewVerdicts
  BY <1>1, <1>3 DEF Goroutine, RejectInputs, NodeStarted, NodeFinished, SendDone,
                    GoroutineOnly, resultVars
<1>4. CASE \/ \E n \in Node : KeepAlways(n)
           \/ ScanReady \/ EndPass \/ EndRouted \/ EndStartAlways \/ BeginAlwaysPhase
  <2>1. ControlOnly
    BY <1>4 DEF KeepAlways, ScanReady, EndPass, EndRouted, EndStartAlways, BeginAlwaysPhase
  <2> QED BY <1>1, <2>1 DEF ControlOnly, resultVars, taskVars
<1>5. CASE finalizeExecution \/ UNCHANGED vars
  BY <1>1, <1>5 DEF finalizeExecution, vars, resultVars, taskVars
<1> QED BY <1>2, <1>3, <1>4, <1>5, StepKinds, SkipVerdicts, ReceiveVerdicts

(* An on_success successor of a node that depends on c depends on c.       *)
LEMMA DependentsClosed ==
  ASSUME NEW f, NEW c \in Node, NEW p \in Node, NEW n \in Successors(f, p),
         f.runWhen[n] = OnSuccess, p = c \/ p \in Dependents(f, c)
  PROVE  n \in Dependents(f, c)
BY DEF Dependents, Successors

(* What has a verdict has no pending predecessor.                          *)
LEMMA VerdictsComeAfter ==
  ASSUME TypeOK, SchedulerInv, ResultInv,
         NEW n \in inFlight \cup Ran \cup skippedNodes \cup failedNodes \cup todo
  PROVE  /\ n \in Node /\ Predecessors(flow, n) \cap pending = {}
         /\ n \in failedNodes \cup skippedNodes => n \notin pending
<1> USE DEF TypeOK
<1>1. n \in Node  BY DEF LoopTypeOK, StateTypeOK, TaskTypeOK, Ran
<1>2. n \in Ran \cup skippedNodes \cup failedNodes => n \notin pending
  BY DEF Ran, ResultInv, SchedulerInv, CountInv, Settled
<1> QED BY <1>1, <1>2 DEF SchedulerInv, CountInv

(* CauseInv is inductive.                                                  *)
LEMMA CauseStep ==
  ASSUME AcyclicFlows, TypeOK, TypeOK', SchedulerInv, EventInv, ResultInv, ListInv, CauseInv,
         [Next]_vars
  PROVE  CauseInv'
<1> USE DEF TypeOK
<1>1. StepWrites /\ NewVerdicts  BY WritesOnce, VerdictsTaken
<1>2. flow' = flow  BY <1>1 DEF StepWrites, Untouched, Settles
<1>3. failedNodes \subseteq failedNodes'
  BY <1>1, VerdictsComeAfter, SettledKept
<1>4. \A n \in failedNodes' : failureCause'[n] = n
  BY <1>1, VerdictsComeAfter, SettledKept DEF NewVerdicts, CauseInv
<1>5. ASSUME NEW n \in Node, failureCause'[n] # NoNode
      PROVE  /\ failureCause'[n] \in failedNodes'
             /\ n = failureCause'[n] \/ n \in Dependents(flow', failureCause'[n])
  <2>1. CASE failureCause'[n] = failureCause[n]
    BY <1>2, <1>3, <1>5, <2>1 DEF CauseInv
  <2>2. CASE n \in failedNodes' /\ failureCause'[n] = n  BY <2>2
  <2>3. CASE SkipReady(n) /\ CausedNow(n)
    <3>1. n \in todo /\ flow.runWhen[n] = OnSuccess
      BY <2>3 DEF SkipReady, First, ListInv
    <3>2. PICK i \in BlockingEdges(n) :
            failureCause' = [failureCause EXCEPT ![n] = failureCause[flow.edges[i][1]]]
      BY <2>3 DEF CausedNow
    <3> DEFINE p == flow.edges[i][1]
    <3> DEFINE c == failureCause[p]
    <3>3. /\ i \in DOMAIN flow.edges /\ flow.edges[i][2] = n /\ c # NoNode
      BY DEF BlockingEdges, EdgesInto
    <3>4. flow.edges[i] \in Node \X Node
      BY <3>3, EdgesFinite, FlowsAssumption DEF StateTypeOK
    <3>5. p \in Node /\ flow.edges[i] = <<p, n>>  BY <3>3, <3>4
    <3>6. n \in Successors(flow, p)
      BY <3>3, <3>5 DEF Successors, EdgesBetween
    <3>7. c \in failedNodes /\ (p = c \/ p \in Dependents(flow, c))
      BY <3>3, <3>5 DEF CauseInv
    <3>8. c \in Node  BY <3>7 DEF StateTypeOK
    <3>9. n \in Dependents(flow, c)
      BY <3>1, <3>5, <3>6, <3>7, <3>8, DependentsClosed
    <3>10. failureCause'[n] = c  BY <3>2 DEF StateTypeOK
    <3> QED BY <1>2, <1>3, <3>7, <3>9, <3>10
  <2> QED BY <1>1, <2>1, <2>2, <2>3 DEF NewVerdicts
<1>6. ASSUME NEW n \in Node, Predecessors(flow, n) \cap pending = {}
      PROVE  upstreamFailure(n)' <=> upstreamFailure(n)
  BY <1>1, <1>6, DecisionKept
<1>7. ASSUME NEW n \in skippedNodes', flow'.runWhen[n] = OnSuccess, upstreamFailure(n)'
      PROVE  failureCause'[n] # NoNode
  <2>1. CASE n \in skippedNodes
    <3>1. n \in Node /\ n \notin pending /\ upstreamFailure(n)
      BY <1>6, <1>7, <2>1, VerdictsComeAfter
    <3>2. failureCause[n] # NoNode  BY <1>2, <1>7, <2>1, <3>1 DEF CauseInv
    <3> QED BY <1>1, <3>1, <3>2, SettledKept
  <2>2. CASE n \in todo /\ SkipReady(n)
    <3>1. n \in Node /\ upstreamFailure(n)  BY <1>6, <1>7, <2>2, VerdictsComeAfter
    <3>2. PICK i \in BlockingEdges(n) :
            failureCause' = [failureCause EXCEPT ![n] = failureCause[flow.edges[i][1]]]
      BY <2>2, <3>1 DEF SkipReady, recordSkippedNode
    <3>3. failureCause[flow.edges[i][1]] # NoNode  BY DEF BlockingEdges
    <3> QED BY <3>1, <3>2, <3>3 DEF StateTypeOK
  <2>3. CASE n \in todo /\ SkipRoutedAway(n)
    BY <1>2, <1>7, <2>3 DEF SkipRoutedAway, ListInv, OnSuccess, Always
  <2>4. CASE flow.runWhen[n] = Always
    BY <1>2, <1>7, <2>4 DEF OnSuccess, Always
  <2> QED BY <1>1, <1>7, <2>1, <2>2, <2>3, <2>4 DEF NewVerdicts, SkippedNow
<1>8. ASSUME NEW n \in inFlight' \cup Ran', flow'.runWhen[n] = OnSuccess
      PROVE  ~upstreamFailure(n)'
  <2>1. CASE n \in inFlight \cup Ran
    <3>1. ~upstreamFailure(n)  BY <1>2, <1>8, <2>1 DEF CauseInv
    <3> QED BY <1>6, <2>1, <3>1, VerdictsComeAfter
  <2>2. CASE n \in todo /\ StartReady(n)
    <3>1. ~upstreamFailure(n)  BY <2>2 DEF StartReady
    <3> QED BY <1>6, <2>2, <3>1, VerdictsComeAfter
  <2>3. CASE n \in todo /\ StartAlways(n)
    BY <1>2, <1>8, <2>3 DEF StartAlways, ListInv, OnSuccess, Always
  <2> QED BY <1>1, <1>8, <2>1, <2>2, <2>3 DEF NewVerdicts, StartedNow
<1> QED BY <1>4, <1>5, <1>7, <1>8 DEF CauseInv

(* VerdictInv is inductive, for flows whose references point upstream.     *)
LEMMA VerdictStep ==
  ASSUME AcyclicFlows, RefsAreUpstream, TypeOK, TypeOK', SchedulerInv, EventInv, ResultInv,
         ListInv, VerdictInv, [Next]_vars
  PROVE  VerdictInv'
<1> USE DEF TypeOK
<1>1. StepWrites /\ NewVerdicts  BY WritesOnce, VerdictsTaken
<1>2. ASSUME NEW n \in inFlight' \cup Ran' PROVE LetIn(n)'
  <2>1. CASE n \in inFlight \cup Ran
    BY <1>1, <2>1, VerdictsComeAfter, VerdictKept DEF VerdictInv
  <2>2. CASE n \in todo /\ StartReady(n)
    <3>1. LetIn(n)  BY <2>2 DEF StartReady, LetIn, Excluded, ListInv
    <3> QED BY <1>1, <2>2, <3>1, VerdictsComeAfter, VerdictKept
  <2>3. CASE n \in todo /\ StartAlways(n)
    <3>1. LetIn(n)  BY <2>3 DEF StartAlways, LetIn, ListInv, OnSuccess, Always
    <3> QED BY <1>1, <2>3, <3>1, VerdictsComeAfter, VerdictKept
  <2> QED BY <1>1, <1>2, <2>1, <2>2, <2>3 DEF NewVerdicts, StartedNow
<1>3. ASSUME NEW n \in skippedNodes' PROVE KeptOut(n)'
  <2>1. CASE n \in skippedNodes
    <3>1. n \in Node /\ n \notin todo
      BY <2>1, VerdictsComeAfter DEF SchedulerInv, CountInv
    <3>2. view'[n] = view[n]  BY <1>1, <3>1 DEF NewVerdicts
    <3> QED BY <1>1, <2>1, <3>2, VerdictsComeAfter, VerdictKept DEF VerdictInv
  <2>2. CASE n \in todo /\ SkipReady(n)
    <3>1. KeptOut(n) /\ view'[n] = view[n]
      BY <2>2 DEF SkipReady, KeptOut, Excluded, ListInv, upstreamFailure, recordSkippedNode,
                  taskVars
    <3> QED BY <1>1, <2>2, <3>1, VerdictsComeAfter, VerdictKept
  <2>3. CASE n \in todo /\ SkipRoutedAway(n)
    <3>1. KeptOut(n) /\ view'[n] = view[n]
      BY <2>3 DEF SkipRoutedAway, KeptOut, ListInv, OnSuccess, Always, recordSkippedNode,
                  taskVars
    <3> QED BY <1>1, <2>3, <3>1, VerdictsComeAfter, VerdictKept
  <2>4. CASE n \in inFlight /\ flow.runWhen[n] = Always /\ ~validateInputs(n) /\ view' = view
    <3>1. KeptOut(n)  BY <2>4 DEF KeptOut, validateInputs, OnSuccess, Always
    <3> QED BY <1>1, <2>4, <3>1, VerdictsComeAfter, VerdictKept
  <2> QED BY <1>1, <1>3, <2>1, <2>2, <2>3, <2>4 DEF NewVerdicts, SkippedNow
<1> QED BY <1>2, <1>3 DEF VerdictInv

-----------------------------------------------------------------------------
(* The invariants hold initially.                                          *)
LEMMA InitExecution == Init => ExecutionInv /\ VerdictInv
<1> SUFFICES ASSUME Init PROVE ExecutionInv /\ VerdictInv  OBVIOUS
<1>1. EventInv  BY DEF Init, EventInv, NodeEvents
<1>2. ResultInv  BY DEF Init, ResultInv, OnSuccess
<1>3. ListInv  BY DEF Init, ListInv
<1>4. ViewCoversUpstream  BY DEF Init, ViewCoversUpstream
<1>5. Ran = {}  BY DEF Init, Ran
<1>6. CauseInv /\ VerdictInv  BY <1>5 DEF Init, CauseInv, VerdictInv
<1> QED BY <1>1, <1>2, <1>3, <1>4, <1>6 DEF ExecutionInv

(* In every execution of an acyclic flow the events, the results, the      *)
(* loop's lists, the views and the failure causes are in step with each    *)
(* other.                                                                  *)
THEOREM ExecutionCorrect ==
  ASSUME AcyclicFlows
  PROVE  Spec => []ExecutionInv
<1>1. Init => ExecutionInv  BY InitExecution
<1>2. TypeOK /\ TypeOK' /\ SchedulerInv /\ ExecutionInv /\ [Next]_vars => ExecutionInv'
  <2> SUFFICES ASSUME TypeOK, TypeOK', SchedulerInv, ExecutionInv, [Next]_vars
               PROVE  ExecutionInv'
    OBVIOUS
  <2>1. EventInv /\ ResultInv /\ ListInv /\ ViewCoversUpstream /\ CauseInv
    BY DEF ExecutionInv
  <2>2. EventInv'  BY <2>1, EventStep
  <2>3. ResultInv'  BY <2>1, ResultStep
  <2>4. ListInv'  BY <2>1, ListStep
  <2>5. ViewCoversUpstream'  BY <2>1, ViewStep
  <2>6. CauseInv'  BY <2>1, CauseStep
  <2> QED BY <2>2, <2>3, <2>4, <2>5, <2>6 DEF ExecutionInv
<1> QED BY <1>1, <1>2, TypeCorrect, SchedulerCorrect, PTL DEF Spec

(* In an acyclic flow the snapshot phaseScheduler.start hands to a node    *)
(* has the final outputs of every node upstream of it.                     *)
THEOREM ViewsSafe ==
  ASSUME AcyclicFlows
  PROVE  Spec => []ViewCoversUpstream
<1>1. ExecutionInv => ViewCoversUpstream  BY DEF ExecutionInv
<1> QED BY <1>1, ExecutionCorrect, PTL

(* In an acyclic flow observers see NodeStarted of a node only after each  *)
(* predecessor's NodeFinished, or its silent rejection.                    *)
THEOREM EventOrderSafe ==
  ASSUME AcyclicFlows
  PROVE  Spec => []EventsFollowEdges
<1>1. TypeOK /\ SchedulerInv /\ ExecutionInv => EventsFollowEdges
  <2> SUFFICES ASSUME TypeOK, SchedulerInv, ExecutionInv,
                      NEW n \in Node, startedEvents[n] > 0, NEW p \in Predecessors(flow, n)
               PROVE  finishedEvents[p] = 1 \/ Silent(p)
    BY DEF EventsFollowEdges
  <2> USE DEF TypeOK
  <2>1. NodeEvents(n) /\ NodeEvents(p) /\ p \in Node
    BY DEF ExecutionInv, EventInv, Predecessors
  <2>2. n \in inFlight \/ n \notin pending
    BY <2>1 DEF NodeEvents, SchedulerInv, CountInv, TaskTypeOK
  <2>3. p \notin pending  BY <2>2 DEF SchedulerInv, CountInv
  <2>4. results[p] \in {"ok", "failed", "nil", "skipped"}
    BY <2>1, <2>3 DEF SchedulerInv, CountInv, Settled, StateTypeOK
  <2> QED BY <2>1, <2>4 DEF NodeEvents, Silent
<1> QED BY <1>1, TypeCorrect, SchedulerCorrect, ExecutionCorrect, PTL

(* When the execution of an acyclic flow returns, observers have seen      *)
(* exactly one NodeFinished per node that was not silently rejected, and   *)
(* NodeStarted exactly of those that executed.                             *)
THEOREM EventsCompleteSafe ==
  ASSUME AcyclicFlows
  PROVE  Spec => []EventsComplete
<1>1. TypeOK /\ SchedulerInv /\ ExecutionInv => EventsComplete
  <2> SUFFICES ASSUME TypeOK, SchedulerInv, ExecutionInv, phase = "done", NEW n \in Node
               PROVE  /\ finishedEvents[n] = (IF Silent(n) THEN 0 ELSE 1)
                      /\ startedEvents[n] = (IF n \in Ran /\ ~Silent(n) THEN 1 ELSE 0)
    BY DEF EventsComplete
  <2>1. results[n] \in {"ok", "failed", "nil", "skipped"}
    BY DEF SchedulerInv, PhaseInv, CountInv, Settled, TypeOK, StateTypeOK
  <2>2. NodeEvents(n)  BY DEF ExecutionInv, EventInv
  <2>3. CASE results[n] = "skipped"  BY <2>2, <2>3 DEF NodeEvents, Silent, Ran
  <2>4. CASE results[n] = "nil"  BY <2>2, <2>4 DEF NodeEvents, Silent, Ran
  <2>5. CASE results[n] \in {"ok", "failed"}  BY <2>2, <2>5 DEF NodeEvents, Silent, Ran
  <2> QED BY <2>1, <2>3, <2>4, <2>5
<1> QED BY <1>1, TypeCorrect, SchedulerCorrect, ExecutionCorrect, PTL

(* finalizeExecution reports success of an acyclic flow exactly when no    *)
(* node failed, and its error is that of a node that failed.               *)
THEOREM SuccessSafe ==
  ASSUME AcyclicFlows
  PROVE  Spec => []SuccessMeansNoFailure
<1>1. ExecutionInv => SuccessMeansNoFailure
  BY DEF ExecutionInv, ResultInv, SuccessMeansNoFailure
<1> QED BY <1>1, ExecutionCorrect, PTL

(* In an acyclic flow nothing that depends on a failed node through        *)
(* on_success nodes runs, however far away it is; what is settled of it    *)
(* carries a failed node it depends on as its cause.                       *)
THEOREM FailureSafe ==
  ASSUME AcyclicFlows
  PROVE  Spec => []FailureSkipsDependents
<1>1. TypeOK /\ SchedulerInv /\ ExecutionInv => FailureSkipsDependents
  <2> SUFFICES ASSUME TypeOK, SchedulerInv, ExecutionInv,
                      NEW m \in failedNodes, NEW n \in Dependents(flow, m)
               PROVE  /\ n \notin inFlight \cup Ran
                      /\ n \in Settled => /\ failureCause[n] \in failedNodes
                                          /\ n \in Dependents(flow, failureCause[n])
    BY DEF FailureSkipsDependents
  <2> USE DEF TypeOK
  <2> DEFINE S == {x \in Node : /\ flow.runWhen[x] = OnSuccess /\ x \notin inFlight \cup Ran
                                /\ x \in Settled => failureCause[x] # NoNode}
  <2>1. ResultInv /\ CauseInv /\ m \in Node /\ failureCause[m] # NoNode /\ m \notin pending
    BY NodeAssumption DEF ExecutionInv, CauseInv, StateTypeOK, NoNode, ResultInv,
                          SchedulerInv, CountInv, Settled
  <2>2. ASSUME NEW s \in S \cup {m}, NEW t \in Successors(flow, s),
               flow.runWhen[t] = OnSuccess
        PROVE  t \in S
    <3>1. t \in Node /\ s \in Node /\ s \in Predecessors(flow, t)
      BY <2>1, SuccessorMeans
    <3>2. CASE s \in pending
      <4>1. t \in pending /\ t \notin inFlight
        BY <3>1, <3>2 DEF SchedulerInv, CountInv
      <4>2. t \notin Settled /\ t \notin Ran
        BY <4>1 DEF SchedulerInv, CountInv, Settled, Ran
      <4> QED BY <2>2, <3>1, <4>1, <4>2
    <3>3. CASE s \notin pending
      <4>1. failureCause[s] # NoNode
        BY <2>1, <3>1, <3>3 DEF SchedulerInv, CountInv
      <4>2. upstreamFailure(t)
        BY <3>1, <4>1, BlockedMeans DEF BlockedByPredecessor
      <4>3. t \notin inFlight \cup Ran  BY <2>1, <2>2, <4>2 DEF CauseInv
      <4>4. t \in Settled => t \in skippedNodes
        BY <2>1, <3>1, <4>3 DEF Settled, Ran, ResultInv, StateTypeOK
      <4>5. t \in Settled => failureCause[t] # NoNode
        BY <2>1, <2>2, <4>2, <4>4 DEF CauseInv
      <4> QED BY <2>2, <3>1, <4>3, <4>5
    <3> QED BY <3>2, <3>3
  <2>3. n \in S /\ n \in Node
    <3>1. S \in SUBSET Node  OBVIOUS
    <3> HIDE DEF S
    <3> QED BY <2>2, <3>1 DEF Dependents
  <2>4. n \notin failedNodes  BY <2>1, <2>3 DEF ResultInv, Ran
  <2> QED BY <2>1, <2>3, <2>4 DEF CauseInv
<1> QED BY <1>1, TypeCorrect, SchedulerCorrect, ExecutionCorrect, PTL

(* In an acyclic flow whose references point upstream or to flow inputs,   *)
(* the verdict on a node never changes after it was taken.                 *)
THEOREM VerdictsSafe ==
  ASSUME AcyclicFlows, RefsAreUpstream
  PROVE  Spec => []VerdictsAreStable
<1>1. Init => VerdictInv  BY InitExecution
<1>2. TypeOK /\ TypeOK' /\ SchedulerInv /\ ExecutionInv /\ VerdictInv /\ [Next]_vars
        => VerdictInv'
  BY VerdictStep DEF ExecutionInv
<1>3. VerdictInv => VerdictsAreStable
  BY DEF VerdictInv, VerdictsAreStable, LetIn, KeptOut, Excluded
<1> QED BY <1>1, <1>2, <1>3, TypeCorrect, SchedulerCorrect, ExecutionCorrect, PTL DEF Spec
=============================================================================
