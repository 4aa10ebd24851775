------------------------------ MODULE DagExecutor ------------------------------
(***************************************************************************)
(* What the flow engine promises about order (the engine "behaves like an  *)
(* event-driven DAG executor"): a step runs at most once and only after    *)
(* every step it depends on is settled; cleanup steps wait for the main    *)
(* part of the flow; the execution returns when every step is settled, and *)
(* it does return.  It says nothing of how ready steps are found.          *)
(***************************************************************************)
CONSTANT Node

VARIABLES preds,     \* the steps each step depends on
          cleanup,   \* the always steps
          status,    \* progress of each step
          returned   \* the execution has returned

vars == <<preds, cleanup, status, returned>>

Settled == {n \in Node : status[n] = "settled"}

(* A set of main steps that depends on nothing outside itself: no cleanup  *)
(* step is among what its members wait for.                                *)
MainPart(M) == M \cap cleanup = {} /\ \A n \in M : preds[n] \subseteq M

MainSettled == \A M \in SUBSET Node : MainPart(M) => M \subseteq Settled

Enabled(n) ==
  /\ status[n] = "waiting"
  /\ preds[n] \subseteq Settled
  /\ n \in cleanup => MainSettled

Init ==
  /\ preds \in [Node -> SUBSET Node]
  /\ cleanup \in SUBSET Node
  /\ status = [n \in Node |-> "waiting"]
  /\ returned = FALSE

Start(n) ==
  /\ Enabled(n)
  /\ status' = [status EXCEPT ![n] = "running"]
  /\ UNCHANGED <<preds, cleanup, returned>>

Settle(n) ==
  /\ status[n] = "running"
  /\ status' = [status EXCEPT ![n] = "settled"]
  /\ UNCHANGED <<preds, cleanup, returned>>

Skip(n) ==
  /\ Enabled(n)
  /\ status' = [status EXCEPT ![n] = "settled"]
  /\ UNCHANGED <<preds, cleanup, returned>>

Return ==
  /\ Settled = Node
  /\ returned' = TRUE
  /\ UNCHANGED <<preds, cleanup, status>>

Next == (\E n \in Node : Start(n) \/ Settle(n) \/ Skip(n)) \/ Return

Safety == Init /\ [][Next]_vars

Spec == Safety /\ WF_vars(Next)
=============================================================================
