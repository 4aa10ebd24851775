----------------------------- MODULE MCFlowEngine -----------------------------
(***************************************************************************)
(* Instances of FlowEngine: the sets of flow definitions the runs explore. *)
(* Every definition is one pkg/flow accepts: a branch has a successor, and *)
(* an on_success node references nodes upstream of it, or a flow input.    *)
(***************************************************************************)
EXTENDS FlowEngine

Nodes2 == 1..2
Nodes3 == 1..3
Nodes4 == 1..4

ValidFlow(f) ==
  /\ \A n \in f.branch : Successors(f, n) # {}
  /\ \A n \in Node : f.runWhen[n] = OnSuccess =>
        \A p \in f.refs[n] : p \in Upstream(f, n) \/ f.input[p] # "none"

NoRefs == [n \in Node |-> {}]
NoInput == [n \in Node |-> "none"]
AllOn == [n \in Node |-> OnSuccess]
Cleanup(S) == [n \in Node |-> IF n \in S THEN Always ELSE OnSuccess]
OneRef(n, p) == [NoRefs EXCEPT ![n] = {p}]

Def(edges, cleanup, branch, refs, input) ==
  [edges |-> edges, runWhen |-> Cleanup(cleanup), branch |-> branch,
   refs |-> refs, input |-> input]

(* All acyclic flows of three nodes, up to renaming, with at most one      *)
(* input reference; a backward chain and a duplicate edge among them.      *)
EdgeLists3 ==
  {<<<<1, 2>>, <<2, 3>>>>, <<<<1, 2>>, <<1, 3>>>>, <<<<1, 3>>, <<2, 3>>>>,
   <<<<1, 2>>, <<1, 3>>, <<2, 3>>>>, <<<<3, 2>>, <<2, 1>>>>,
   <<<<1, 2>>, <<1, 2>>>>}

SmallFlows ==
  {f \in [edges: EdgeLists3, runWhen: [Node -> {OnSuccess, Always}],
          branch: {{}, {1}, {2}},
          refs: {NoRefs} \cup {OneRef(n, p) : n, p \in Node},
          input: {NoInput, [NoInput EXCEPT ![1] = "root"]}] :
     ValidFlow(f) /\ (f.refs[2] \cup f.refs[3] = {} => f.input = NoInput)}

(* A branch over two arms that join, with a reference across the arms.     *)
Diamond == <<<<1, 2>>, <<1, 3>>, <<2, 4>>, <<3, 4>>>>
(* Create, test, delete as cleanup, then a check after the cleanup.        *)
Chain == <<<<1, 2>>, <<2, 3>>, <<3, 4>>>>
(* A failing step and a branch meet in one join, listed before them.       *)
Meet == <<<<4, 3>>, <<3, 1>>, <<2, 1>>>>
(* Two independent cases and one cleanup of both.                          *)
Cases == <<<<1, 3>>, <<2, 3>>, <<1, 4>>>>

ShapeFlows ==
  {f \in
    {Def(Diamond, c, b, r, NoInput) :
       c \in {{}, {4}, {3, 4}}, b \in {{}, {1}, {1, 2}}, r \in {NoRefs, OneRef(4, 2)}}
    \cup
    {Def(Chain, c, b, r, i) :
       c \in {{3}, {2, 3}}, b \in {{}, {1}},
       r \in {OneRef(3, 1), [OneRef(3, 1) EXCEPT ![4] = {2}]},
       i \in {NoInput, [NoInput EXCEPT ![2] = "path"]}}
    \cup {Def(Meet, c, {2}, NoRefs, NoInput) : c \in {{}, {1}, {3}}}
    \cup {Def(Cases, c, {}, OneRef(3, 2), NoInput) : c \in {{3}, {2, 3}}} :
     ValidFlow(f)}

(* Flows with a cycle through node 1, entered from node 4.                 *)
CyclicFlows ==
  {f \in [edges: {<<<<1, 2>>, <<2, 1>>, <<2, 3>>, <<4, 1>>>>,
                  <<<<1, 2>>, <<2, 3>>, <<3, 1>>, <<4, 1>>>>,
                  <<<<3, 1>>, <<1, 2>>, <<2, 1>>, <<4, 3>>>>,
                  <<<<1, 1>>, <<1, 2>>, <<2, 3>>, <<4, 1>>>>,
                  <<<<1, 2>>, <<1, 3>>, <<2, 1>>, <<3, 1>>, <<4, 1>>>>},
          runWhen: {Cleanup(S) : S \in {{}, {1}, {3}, {1, 2}}},
          branch: {{}, {2}},
          refs: {NoRefs},
          input: {NoInput}] : ValidFlow(f)}

AllShapes == ShapeFlows \cup CyclicFlows
=============================================================================
