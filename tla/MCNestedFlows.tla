----------------------------- MODULE MCNestedFlows -----------------------------
(***************************************************************************)
(* Instances of NestedFlows: a module of a module, cycles of modules,      *)
(* direct and through bodies, a loop in a poll and a poll in a loop, and   *)
(* the definitions that fail.                                              *)
(***************************************************************************)
EXTENDS NestedFlows, TLC

Flow(nodes) == [valid |-> TRUE, nodes |-> nodes]
Node(id) == [kind |-> "leaf", id |-> id]
Module(id, flow, exports) ==
  [kind |-> "module", id |-> id, flow |-> flow, binds |-> TRUE, exports |-> exports]
Loop(id, items, max, goOn, body) ==
  [kind |-> "loop", id |-> id, items |-> items, max |-> max, goOn |-> goOn, body |-> body]
Poll(id, tries, timeout, body) ==
  [kind |-> "poll", id |-> id, tries |-> tries, timeout |-> timeout,
   condition |-> "resolved", body |-> body]

(* Flows R, B and C; bodies p, q and so on.                                *)
Setup(flows, bodies) == [root |-> "R", flows |-> flows, bodies |-> bodies]
Body(key, nodes) == key :> Flow(nodes)
Alone(nodes, bodies) == Setup("R" :> Flow(nodes), bodies)
With(nodes, b, bodies) == Setup("R" :> Flow(nodes) @@ "B" :> b, bodies)
With2(nodes, b, c) == Setup("R" :> Flow(nodes) @@ "B" :> Flow(b) @@ "C" :> Flow(c), <<>>)

NestedSetups == {
  (* modules of modules, and what a module exports *)
  With2(<<Node("x"), Module("m", "B", {"k"})>>, <<Module("k", "C", {"y"})>>, <<Node("y"), Node("z")>>),
  With(<<Module("m", "B", {"z"})>>, Flow(<<Node("y")>>), <<>>),
  (* cycles: found when the run starts, or by the call that closes them *)
  With(<<Module("m", "B", {})>>, Flow(<<Node("y"), Module("k", "R", {})>>), <<>>),
  With(<<Loop("l", 1, 0, FALSE, "lb")>>, Flow(<<Poll("p", 1, FALSE, "pb")>>),
       Body("lb", <<Module("m", "B", {})>>) @@ Body("pb", <<Module("k", "R", {})>>)),
  With(<<Module("m", "B", {})>>, Flow(<<Loop("l", 2, 0, TRUE, "lb")>>),
       Body("lb", <<Module("k", "B", {})>>)),
  (* a loop and a poll of the same id in two flows that call each other *)
  With(<<Loop("l", 1, 0, FALSE, "lb")>>, Flow(<<Poll("l", 1, FALSE, "pb")>>),
       Body("lb", <<Module("m", "B", {})>>) @@ Body("pb", <<Module("k", "R", {})>>)),
  (* a loop in a poll, a poll in a loop, polls in a poll *)
  Alone(<<Poll("p", 2, TRUE, "pb")>>,
        Body("pb", <<Loop("l", 3, 2, TRUE, "lb"), Node("y")>>) @@ Body("lb", <<Node("x")>>)),
  Alone(<<Loop("l", 2, 0, TRUE, "lb"), Node("y")>>,
        Body("lb", <<Poll("p", 2, TRUE, "pb")>>) @@ Body("pb", <<Node("x")>>)),
  Alone(<<Poll("p", 2, TRUE, "pb")>>,
        Body("pb", <<Poll("q", 2, TRUE, "qb")>>) @@ Body("qb", <<Node("x")>>)),
  (* definitions that fail *)
  With(<<Module("m", "C", {})>>, Flow(<<Node("y")>>), <<>>),
  With(<<Module("m", NoFlow, {})>>, Flow(<<Node("y")>>), <<>>),
  With(<<Module("m", "B", {})>>, [valid |-> FALSE, nodes |-> <<>>], <<>>),
  With(<<Loop("l", 1, 0, FALSE, "lb")>>, Flow(<<Node("y")>>), Body("lb", <<Module("m", "C", {})>>)),
  With(<<[Module("m", "B", {}) EXCEPT !.binds = FALSE]>>, Flow(<<Node("y")>>), <<>>),
  Alone(<<Module("m", "R", {})>>, <<>>), Alone(<<>>, <<>>),
  Alone(<<Loop("l", Unresolved, 0, TRUE, "lb")>>, Body("lb", <<Node("x")>>)),
  Alone(<<Loop("l", 1, 0, FALSE, "lb")>>, Body("lb", <<>>)), Alone(<<Loop("l", 1, 0, FALSE, NoBody)>>, <<>>),
  Alone(<<[Poll("p", 1, TRUE, "pb") EXCEPT !.condition = "unresolved"]>>, Body("pb", <<Node("x")>>))}

(* Two flows that each have a loop of the same id.                         *)
SameIds == {With(<<Loop("l", 1, 0, FALSE, "lb")>>, Flow(<<Loop("l", 1, 0, FALSE, "kb")>>),
                 Body("lb", <<Module("m", "B", {})>>) @@ Body("kb", <<Node("y")>>))}
=============================================================================
