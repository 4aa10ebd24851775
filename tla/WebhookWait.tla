------------------------------ MODULE WebhookWait ------------------------------
(***************************************************************************)
(* The webhook wait node (pkg/node/webhook_wait_node.go and                *)
(* webhook_expectations.go): it polls the control plane for the requests   *)
(* captured so far, until one passes the node's assertions or, with        *)
(* expected events, until every group of them has its requests and the     *)
(* settle window has passed, a group can no longer pass, or the context of *)
(* the wait is done: the wait timed out, the run was cancelled or a        *)
(* deadline around the node passed.  Requests are captured while it polls. *)
(*                                                                         *)
(* Abstractions.  A captured request is the groups whose assertions it     *)
(* passes, the groups it passes in part, and whether it passes the         *)
(* assertions every event must pass.  A group whose templates could not be *)
(* resolved is marked so.  Time is counted in ticks; a step may take any   *)
(* number of them.  The control plane lists the requests oldest first.     *)
(***************************************************************************)
EXTENDS Integers, Sequences, SequencesExt, FiniteSetsExt

CONSTANTS Setups,       \* the node's data, and whether its inputs are there
          Requests,     \* the kinds of requests captured
          MaxRequests,  \* bound: requests captured
          Overrun,      \* bound: ticks a wait may run on after its timeout
          PollInterval, \* webhookWaitPollInterval
          Kept          \* webhookRecentRequestsKept

None == -1              \* no min, no max, no settledAt, no claimed request

ASSUME SetupAssumption ==
  \A s \in Setups :
    /\ s.timeout \in Nat \ {0} /\ s.settle \in Nat
    /\ s.job \in BOOLEAN        \* webhook.requests_url and a job token are there
    /\ s.checks \in BOOLEAN     \* the node has assertions
    /\ s.unresolved \in BOOLEAN \* one of them references what has no value
    /\ s.groups \in Seq([min : {None} \cup Nat, max : {None} \cup Nat,
                         unresolved : BOOLEAN,
                         complete : BOOLEAN])  \* it has a name and an assertion
ASSUME RequestAssumption ==
  \A r \in Requests : r.fits \subseteq Nat /\ r.near \subseteq Nat /\ r.ok \in BOOLEAN
ASSUME BoundAssumption == /\ MaxRequests \in Nat /\ Overrun \in Nat /\ PollInterval \in Nat \ {0}
                          /\ Kept \in Nat \ {0}

VARIABLES
  setup,
  captured,   \* what the control plane captured, oldest first
  now,        \* the time since the wait began
  cancelled,  \* the context of the node is done: ctx.Context()
  pc,
  items,      \* the list the last poll received
  wake,       \* when the sleep between two polls ends
  firstSeen,  \* listener: when each request was first listed; 0 on the first poll
  polledOnce, settledAt, outcomes,   \* listener
  seen,       \* the wait without expectations: the last list nothing matched in
  judged,     \* history: when the listener last judged a list
  result

listener == <<firstSeen, polledOnce, settledAt, outcomes, judged>>
vars == <<setup, captured, now, cancelled, pc, items, wake, listener, seen, result>>

Groups == setup.groups
Expecting == Groups # <<>>

(* waitCtx: context.WithTimeout(ctx.Context(), timeout).                   *)
CtxDone == now >= setup.timeout \/ cancelled
minimum(g) == IF g.min = None THEN 1 ELSE g.min

Init ==
  /\ setup \in Setups
  /\ captured = <<>> /\ now = 0 /\ cancelled = FALSE /\ pc = "start" /\ items = <<>> /\ wake = 0
  /\ firstSeen = <<>> /\ polledOnce = FALSE /\ settledAt = None /\ outcomes = <<>>
  /\ seen = <<>> /\ judged = None
  /\ result = [status |-> "none"]

---------------------------------------------------------------------------
(* assignRequests: each request goes to the first group it satisfies that  *)
(* still needs events, else to the first group it satisfies.               *)

Evaluated(i) == ~Groups[i].unresolved
Satisfies(r, i) == Evaluated(i) /\ i \in r.fits

Chosen(claims, r) ==
  LET fits == {i \in DOMAIN Groups : Satisfies(r, i)}
      needy == {i \in fits : Len(claims[i]) < minimum(Groups[i])}
  IN IF needy # {} THEN Min(needy) ELSE IF fits # {} THEN Min(fits) ELSE None

Claim(claims, i, k) == IF i = None THEN claims ELSE [claims EXCEPT ![i] = Append(@, k)]

(* Mutant: the requests are assigned newest first.                         *)
AssignNewestFirst(list) ==
  LET after[k \in 1..Len(list) + 1] ==
        IF k > Len(list) THEN [i \in DOMAIN Groups |-> <<>>]
        ELSE LET claims == after[k + 1] IN Claim(claims, Chosen(claims, list[k]), k)
  IN after[1]

assignRequests(list) ==
  LET after[k \in 0..Len(list)] ==
        IF k = 0 THEN [i \in DOMAIN Groups |-> <<>>]
        ELSE LET claims == after[k - 1] IN Claim(claims, Chosen(claims, list[k]), k)
  IN after[Len(list)]

Matched(list, i) == {k \in DOMAIN list : Satisfies(list[k], i)}
overMax(list, i) == /\ Evaluated(i) /\ Groups[i].max # None
                    /\ Cardinality(Matched(list, i)) > Groups[i].max

(* closestEvent: the first of the requests that pass most assertions.      *)
closestEvent(list, i) ==
  LET near == {k \in DOMAIN list : i \in list[k].near}
      most == IF Matched(list, i) # {} THEN Matched(list, i) ELSE near
  IN IF most = {} THEN None ELSE Min(most)

(* judgeExpectation                                                        *)
Problem(list, claimed, i) ==
  CASE ~Evaluated(i) -> "not evaluated"
    [] overMax(list, i) -> "over max"
    [] Evaluated(i) /\ ~overMax(list, i) /\ (\E k \in ToSet(claimed) : ~list[k].ok) -> "check failed"
    [] OTHER -> IF Len(claimed) < minimum(Groups[i])
                THEN IF claimed = <<>> THEN "missing" ELSE "too few" ELSE "none"

judgeExpectation(list, claims, seenAt, i) ==
  LET claimed == claims[i]
      problem == Problem(list, claimed, i)
      foreign == Matched(list, i) \ ToSet(claimed)
  IN [requests |-> claimed, problem |-> problem, passed |-> problem = "none",
      arrivedLate |-> claimed # <<>> /\ seenAt[Head(claimed)] > 0,
      closest |-> IF problem = "over max" /\ foreign # {} THEN Min(foreign)
                  ELSE IF problem # "none" /\ Evaluated(i)
                          /\ Len(claimed) < minimum(Groups[i])
                       THEN closestEvent(list, i) ELSE None]

(* evaluateExpectations: the outcomes of the groups, and the verdict.      *)
Judge(list, seenAt) ==
  LET claims == assignRequests(list)
  IN [i \in DOMAIN Groups |-> judgeExpectation(list, claims, seenAt, i)]

Broken(out) == \E i \in DOMAIN out : out[i].problem \in {"over max", "check failed"}
Met(out) == ~Broken(out) /\ \A i \in DOMAIN out : out[i].passed \/ ~Evaluated(i)

---------------------------------------------------------------------------
(* Ends of the node.                                                       *)

(* countReceived: the requests the groups claimed.                         *)
countReceived(out) == MapThenSumSet(LAMBDA i : Len(out[i].requests), DOMAIN out)

End(status, out, recent) ==
  /\ pc' = "ended"
  /\ result' = [status |-> status, recent |-> recent, received |-> countReceived(out)]

Verdict(out) == IF \A i \in DOMAIN out : out[i].passed THEN "passed" ELSE "expectations failed"

(* recentRequestOutputs                                                    *)
recentRequestOutputs(list) == SubSeq(list, Max({1, Len(list) - Kept + 1}), Len(list))

waitInputs == setup.job /\ (setup.checks \/ Expecting)

validateExpectations ==
  /\ setup.settle < setup.timeout
  /\ \A i \in DOMAIN Groups :
       /\ Groups[i].complete
       /\ Groups[i].max = None \/ Groups[i].max >= minimum(Groups[i])

(* Execute and executeExpectations up to the first poll.                   *)
Execute ==
  /\ pc = "start"
  /\ IF waitInputs /\ (IF Expecting THEN validateExpectations ELSE ~setup.unresolved)
     THEN pc' = "loop" /\ UNCHANGED result
     ELSE End("failed", <<>>, <<>>)
  /\ UNCHANGED <<setup, captured, now, cancelled, items, wake, listener, seen>>

(* The head of both loops while the wait's context is alive.               *)
Fetch ==
  /\ pc = "loop" /\ ~CtxDone /\ pc' = "fetching"
  /\ UNCHANGED <<setup, captured, now, cancelled, items, wake, listener, seen, result>>

finalOutcomes == IF polledOnce THEN outcomes ELSE Judge(<<>>, <<>>)

(* Mutant: a timeout inside the settle window keeps the passing outcomes.  *)
KeptOutcomes == finalOutcomes

timedOutOutcomes ==
  IF settledAt = None THEN finalOutcomes
  ELSE [i \in DOMAIN finalOutcomes |->
          IF finalOutcomes[i].passed
          THEN [finalOutcomes[i] EXCEPT !.passed = FALSE, !.problem = "timed out"]
          ELSE finalOutcomes[i]]

(* The loop ends because the context is done: webhookWaitTimeout, or the   *)
(* outcomes of the groups.                                                 *)
(* Mutant: the loop is left only by a poll.                                *)
PollAgain ==
  /\ pc = "loop" /\ CtxDone /\ pc' = "fetching"
  /\ UNCHANGED <<setup, captured, now, cancelled, items, wake, listener, seen, result>>

TimedOut ==
  /\ pc = "loop" /\ CtxDone
  /\ IF Expecting
     THEN outcomes' = timedOutOutcomes /\ End(Verdict(timedOutOutcomes), timedOutOutcomes, <<>>)
     ELSE outcomes' = outcomes /\ End("timeout", <<>>, recentRequestOutputs(seen))
  /\ UNCHANGED <<setup, captured, now, cancelled, items, wake, firstSeen, polledOnce, settledAt,
                 seen, judged>>

(* fetchWebhookRequests: the list as captured when the control plane       *)
(* answers; an answer nothing can be done about; any other failure.        *)
FetchLists ==
  /\ pc = "fetching" /\ pc' = "judging" /\ items' = captured
  /\ UNCHANGED <<setup, captured, now, cancelled, wake, listener, seen, result>>

Sleep(until) == pc' = "sleep" /\ wake' = until

nextPollIn(settled) == IF settled = None THEN now + PollInterval
                       ELSE Max({now, Min({now + PollInterval, settled})})

FetchFatal ==
  /\ pc = "fetching" /\ ~CtxDone
  /\ outcomes' = IF Expecting THEN finalOutcomes ELSE outcomes
  /\ End("failed", outcomes', recentRequestOutputs(seen))
  /\ UNCHANGED <<setup, captured, now, cancelled, items, wake, firstSeen, polledOnce, settledAt,
                 seen, judged>>

FetchFails ==
  /\ pc = "fetching"
  /\ Sleep(nextPollIn(settledAt))
  /\ UNCHANGED <<setup, captured, now, cancelled, items, listener, seen, result>>

(* firstMatchingWebhookRequest, in the wait without expectations.          *)
MatchFirst ==
  /\ pc = "judging" /\ ~Expecting
  /\ IF \E k \in DOMAIN items : items[k].ok
     THEN End("passed", <<>>, <<>>) /\ UNCHANGED <<wake, seen>>
     ELSE seen' = items /\ Sleep(now + PollInterval) /\ UNCHANGED result
  /\ UNCHANGED <<setup, captured, now, cancelled, items, listener>>

requiresAnEvent == \E i \in DOMAIN Groups : minimum(Groups[i]) > 0

(* What observe keeps of a list, and whether the wait is over.             *)
SeenAt == [k \in DOMAIN items |-> IF k \in DOMAIN firstSeen THEN firstSeen[k]
                                  ELSE IF polledOnce THEN now ELSE 0]
Settling(out) == Met(out) /\ (setup.settle > 0 \/ requiresAnEvent)
WindowEnd(out) == IF settledAt = None /\ Settling(out) THEN now + setup.settle ELSE settledAt

observe ==
  /\ pc = "judging" /\ Expecting
  /\ firstSeen' = SeenAt /\ polledOnce' = TRUE /\ judged' = now
  /\ outcomes' = Judge(items, SeenAt)
  /\ settledAt' = WindowEnd(outcomes')
  /\ IF Broken(outcomes') \/ (Settling(outcomes') /\ now >= settledAt')
     THEN End(Verdict(outcomes'), outcomes', <<>>) /\ UNCHANGED wake
     ELSE Sleep(nextPollIn(settledAt')) /\ UNCHANGED result
  /\ UNCHANGED <<setup, captured, now, cancelled, items, seen>>

(* sleepCtx returns.                                                       *)
Wake ==
  /\ pc = "sleep" /\ (now >= wake \/ CtxDone) /\ pc' = "loop"
  /\ UNCHANGED <<setup, captured, now, cancelled, items, wake, listener, seen, result>>

(* The environment: a request reaches the webhook; time passes; the run is *)
(* cancelled, or the deadline of the timeout middleware or of an enclosing *)
(* poll passes.                                                            *)
Capture ==
  /\ pc # "ended" /\ Len(captured) < MaxRequests
  /\ \E r \in Requests : captured' = Append(captured, r)
  /\ UNCHANGED <<setup, now, cancelled, pc, items, wake, listener, seen, result>>

Tick ==
  /\ pc # "ended" /\ now < setup.timeout + Overrun /\ now' = now + 1
  /\ UNCHANGED <<setup, captured, cancelled, pc, items, wake, listener, seen, result>>

Cancel ==
  /\ pc # "ended" /\ ~cancelled /\ cancelled' = TRUE
  /\ UNCHANGED <<setup, captured, now, pc, items, wake, listener, seen, result>>

Ended == pc = "ended" /\ UNCHANGED vars

NodeStep == \/ Execute \/ Fetch \/ TimedOut \/ FetchLists \/ FetchFatal \/ FetchFails
            \/ MatchFirst \/ observe \/ Wake

Next == NodeStep \/ Capture \/ Tick \/ Cancel \/ Ended

Spec == Init /\ [][Next]_vars

(* The goroutine of the node is scheduled, time passes, and every fetch    *)
(* returns: its request carries the context of the wait.                   *)
FairSpec == Spec /\ WF_vars(NodeStep) /\ WF_vars(Tick)

---------------------------------------------------------------------------
(* Properties.                                                             *)

(* A request credited to a group is credited to it on every later poll:    *)
(* assignRequests starts over on each poll and the listener relies on its  *)
(* earlier answers not changing.                                           *)
CreditsAreKept ==
  [][\A i \in DOMAIN outcomes : IsPrefix(outcomes[i].requests, outcomes'[i].requests)]_vars

(* Each request can be given to a group it satisfies so that every group   *)
(* has its minimum, no group is over its maximum, and every request given  *)
(* away passes the checks on every event.                                  *)
Feasible(list) ==
  /\ \A i \in DOMAIN Groups : Groups[i].max = None \/ Cardinality(Matched(list, i)) <= Groups[i].max
  /\ \E f \in [DOMAIN list -> DOMAIN Groups \cup {None}] :
       /\ \A k \in DOMAIN list :
            IF \E i \in DOMAIN Groups : Satisfies(list[k], i)
            THEN f[k] # None /\ Satisfies(list[k], f[k]) /\ list[k].ok
            ELSE f[k] = None
       /\ \A i \in DOMAIN Groups :
            Cardinality({k \in DOMAIN list : f[k] = i}) >= minimum(Groups[i])

(* A wait that passes is justified by the requests of its last poll, every *)
(* one of its groups was evaluated, and a poll was judged when the settle  *)
(* window was over; only a wait that needs no event may pass without a     *)
(* window, and only because its context is done: its timeout, or a         *)
(* cancelled run or a deadline around the node, which the listener does    *)
(* not tell apart.                                                         *)
PassIsJustified ==
  result.status = "passed" /\ Expecting =>
    /\ \A i \in DOMAIN Groups : Evaluated(i)
    /\ Feasible(items)
    /\ IF settledAt = None THEN CtxDone /\ ~requiresAnEvent
       ELSE judged >= settledAt /\ settledAt >= setup.settle

(* The wait ends, whatever the control plane answers.                      *)
WaitEnds == <>(pc = "ended")
=============================================================================
