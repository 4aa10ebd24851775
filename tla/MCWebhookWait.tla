----------------------------- MODULE MCWebhookWait -----------------------------
(***************************************************************************)
(* Instances of WebhookWait: two groups that overlap, a group with a       *)
(* maximum, a forbidden event, a wait without expectations, and data that  *)
(* is rejected.                                                            *)
(***************************************************************************)
EXTENDS WebhookWait

Group(min, max) == [min |-> min, max |-> max, unresolved |-> FALSE, complete |-> TRUE]
Unresolved == [min |-> None, max |-> None, unresolved |-> TRUE, complete |-> TRUE]
Wait(groups, settle, timeout) ==
  [groups |-> groups, settle |-> settle, timeout |-> timeout,
   job |-> TRUE, checks |-> TRUE, unresolved |-> FALSE]

WaitSetups ==
  {Wait(<<Group(None, None), Group(None, 1)>>, 2, 3), Wait(<<Group(2, None), Group(0, 1)>>, 1, 3),
   Wait(<<Group(0, 0)>>, 0, 3), Wait(<<Group(0, 0)>>, 2, 3), Wait(<<Group(None, 2), Unresolved>>, 0, 3)}
  \cup {Wait(<<>>, 0, 3), Wait(<<Group(None, None)>>, 3, 3), Wait(<<Group(2, 1)>>, 0, 3),
        Wait(<<[Group(None, None) EXCEPT !.complete = FALSE]>>, 0, 3),
        [Wait(<<>>, 0, 3) EXCEPT !.checks = FALSE], [Wait(<<>>, 0, 3) EXCEPT !.unresolved = TRUE],
        [Wait(<<>>, 0, 3) EXCEPT !.job = FALSE]}

Request(fits, near, ok) == [fits |-> fits, near |-> near, ok |-> ok]
RequestKinds == {Request({1}, {}, TRUE), Request({2}, {1}, TRUE), Request({1, 2}, {}, TRUE),
                 Request({1}, {2}, FALSE)}
=============================================================================
