------------------------------- MODULE Redaction -------------------------------
(***************************************************************************)
(* The redactor of a run (pkg/redact, pkg/runner): node goroutines make    *)
(* the values of secret outputs known to it before they report, and every  *)
(* report is masked against one snapshot of what is known.  Masked node    *)
(* results are cached by snapshot and masked again for the flow result.    *)
(*                                                                         *)
(* Abstractions.  A value is an element of Value with a length, a JSON     *)
(* type and the values its text contains; a report is the set of places    *)
(* that carry a value: an output or an input under its reference, the      *)
(* response body in any form a JSON encoder writes, the compared values of *)
(* an assertion, the error message, any other detail.  What a place shows  *)
(* is the value, the mask, a fragment (the value with a part of it         *)
(* masked), or nothing.                                                    *)
(***************************************************************************)
EXTENDS Integers, Sequences, FiniteSets, FiniteSetsExt, Functions

CONSTANTS Node, Value,
          Length,        \* characters of a value
          Numeric,       \* the values that are JSON numbers
          Scientific,    \* those that fmt writes in exponent form
          Within,        \* Within[v]: the values whose text occurs in v's, v too
          Setups,        \* what the nodes read, produce and echo; secret inputs
          MinLearned,    \* MinLearnedLength
          MaxLearned     \* MaxLearnedValues

ASSUME ValueAssumption ==
  /\ Length \in [Value -> Nat] /\ Scientific \subseteq Numeric /\ Numeric \subseteq Value
  /\ \A v \in Value : v \in Within[v] /\ \A w \in Within[v] : w = v \/ Length[w] < Length[v]
ASSUME LimitAssumption == MinLearned \in Nat /\ MaxLearned \in Nat

(* The references to the outputs of the nodes in M.                        *)
RefsTo(s, M) == UNION {{<<m, o>> : o \in DOMAIN s.nodes[m].outputs} : m \in M}

(* Secret inputs are text.  after are the nodes upstream of n, where what  *)
(* it reads is produced; body are those of its flow when n is a module,    *)
(* which its outputs are bound to.  A value a node merely echoes is named  *)
(* by the output it comes from, a module echoes what its flow does.        *)
ASSUME SetupAssumption ==
  \A s \in Setups :
    /\ s.inputs \subseteq Value \ Numeric
    /\ \A n \in Node :
         LET d == s.nodes[n]
         IN /\ d.after \subseteq Node /\ d.body \subseteq d.after
            /\ d.parses \in BOOLEAN /\ d.always \in BOOLEAN
            /\ \A o \in DOMAIN d.outputs : d.outputs[o] \in Value
            /\ d.secret \subseteq DOMAIN d.outputs \ DOMAIN d.binds
            /\ d.reads \subseteq RefsTo(s, d.after) /\ d.echoes \subseteq RefsTo(s, Node)
            /\ \A r \in d.echoes : r[2] \notin DOMAIN s.nodes[r[1]].binds
            /\ \A m \in d.body : s.nodes[m].echoes \subseteq d.echoes
            /\ \A o \in DOMAIN d.binds :
                 /\ o \in DOMAIN d.outputs /\ d.binds[o] \in RefsTo(s, d.body)
                 /\ d.outputs[o] = s.nodes[d.binds[o][1]].outputs[d.binds[o][2]]

VARIABLES
  setup,
  secrets, learned, withheld, sealed,   \* Redactor.current, the secretSet
  gen,        \* identity of that snapshot: the reports hold it by pointer
  known, count,                         \* Redactor.known, .learned
  cache,      \* Redactor.masked: per node, the snapshot and the masked result
  pc, failed, \* per node: where it is, and how it failed
  message,    \* per node: the references whose values its error text carries
  todo,       \* per node: the secret outputs it has still to make known
  loaded,     \* per node: the snapshot its report is masked against
  events,     \* the places of the node.finished events sent
  final       \* the places of the flow result

current == <<secrets, learned, withheld, sealed, gen, known, count>>
vars == <<setup, current, cache, pc, failed, message, todo, loaded, events, final>>

Shape(n) == setup.nodes[n]
NoSet == [gen |-> -1, secrets |-> {}, learned |-> {}, withheld |-> {}, sealed |-> {}]
Snapshot == [gen |-> gen, secrets |-> secrets, learned |-> learned,
             withheld |-> withheld, sealed |-> sealed]
Ref(n, name) == <<n, name>>
ValueOf(ref) == Shape(ref[1]).outputs[ref[2]]

(* NewFromSources: the values of the secret inputs are known from the      *)
(* start, and never count as learned.                                      *)
Init ==
  /\ setup \in Setups
  /\ secrets = setup.inputs /\ known = setup.inputs
  /\ learned = {} /\ withheld = {} /\ sealed = {} /\ gen = 0 /\ count = 0
  /\ cache = [n \in Node |-> [gen |-> -1, places |-> {}]]
  /\ pc = [n \in Node |-> "waiting"] /\ failed = [n \in Node |-> "no"]
  /\ message = [n \in Node |-> {}]
  /\ todo = [n \in Node |-> Shape(n).secret]
  /\ loaded = [n \in Node |-> NoSet]
  /\ events = {} /\ final = {}

---------------------------------------------------------------------------
(* What a node's result carries before it is masked.                       *)

(* A place: the field, the reference it is named by, the value, and the    *)
(* output the value comes from.                                            *)
NoRef == <<>>
Place(field, ref, v, origin) == [field |-> field, ref |-> ref, value |-> v, origin |-> origin]

Origin(n, o) == IF o \in DOMAIN Shape(n).binds THEN Shape(n).binds[o] ELSE Ref(n, o)

(* applyAssertionsAndOutputs: a node that fails in an assertion or in the  *)
(* validation of its outputs keeps the outputs its response yields.        *)
HasOutputs(n) == failed[n] \in {"no", "assertion", "invalid"}

Outputs(n) == {Place("output", Ref(n, o), ValueOf(Ref(n, o)), Origin(n, o)) :
                 o \in IF HasOutputs(n) THEN DOMAIN Shape(n).outputs ELSE {}}

(* propagateNodeOutputs: what the nodes after it, and a module's child     *)
(* outputs, find of a node.                                                *)
Available(r) == pc[r[1]] = "done" /\ HasOutputs(r[1])

(* The values of the error text, under no reference.                       *)
Message(n) == {Place("message", NoRef, ValueOf(r), Origin(r[1], r[2])) : r \in message[n]}

Result(n) ==
  LET s == Shape(n)
      Response == {Place(f, NoRef, s.outputs[o], Ref(n, o)) :
                     f \in {"body", "compared"}, o \in DOMAIN s.outputs \ DOMAIN s.binds}
      Child == {Place("child", r, ValueOf(r), Origin(r[1], r[2])) :
                  r \in {x \in RefsTo(setup, s.body) : Available(x)}}
      Read == {Place("input", r, ValueOf(r), Origin(r[1], r[2])) : r \in s.reads}
      Sent == {Place(f, NoRef, ValueOf(r), Origin(r[1], r[2])) :
                 f \in {"detail", "compared"}, r \in s.reads \cup s.echoes}
  IN Outputs(n) \cup Response \cup Child \cup Read \cup Sent \cup Message(n)

(* text and mask: the secrets are replaced longest first, a number is      *)
(* compared whole with the learned ones.                                   *)
Hits(set, v) == Within[v] \cap set.secrets

Text(set, v) ==
  IF Hits(set, v) = {} THEN "plain"
  ELSE IF v \in Hits(set, v) THEN "mask" ELSE "fragment"

byValue(set, p) ==
  IF p.value \in Numeric THEN IF p.value \in set.learned THEN "mask" ELSE "plain"
  ELSE Text(set, p.value)

(* bodyForms, maskBody and maskBase64: a body that parses is masked as a   *)
(* tree, any other as text in which each form of each secret is replaced.  *)
maskBody(set, p, parses) == IF parses THEN byValue(set, p) ELSE Text(set, p.value)

(* seal, maskOutputsByName, refersToWithheld, maskComparedValues.  The     *)
(* error message of a sealed node is kept, and masked as text: a learned   *)
(* number is found in it only where fmt wrote all its digits.              *)
Shown(set, n, p, parses) ==
  LET sealedNode == n \in set.sealed
  IN CASE p.field = "message" -> IF p.value \in Scientific THEN "plain" ELSE Text(set, p.value)
       [] sealedNode /\ p.field \in {"body", "detail", "child"} -> "dropped"
       [] sealedNode /\ p.field = "compared" -> "mask"
       [] p.ref \in set.withheld -> "mask"
       [] OTHER -> IF p.field = "body" THEN maskBody(set, p, parses) ELSE byValue(set, p)

(* secretSet.result: the masked places of a node's result.                 *)
result(set, n) ==
  {[node |-> n, place |-> p, shown |-> Shown(set, n, p, Shape(n).parses)] : p \in Result(n)}

(* maskResult: a result masked against the same snapshot is reused.        *)
(* Mutant: one masked before is reused whatever was learned since.         *)
ReuseAny(set, n) == IF cache[n].gen # -1 THEN cache[n].places ELSE result(set, n)

maskResult(set, n) == IF cache[n].gen = set.gen THEN cache[n].places ELSE result(set, n)

---------------------------------------------------------------------------
(* The nodes.                                                              *)

Done(n) == pc[n] \in {"done", "skipped"}

(* The ways a node can end: a module fails with its flow, or when its flow *)
(* did not produce what its outputs are bound to.                          *)
FailedBody(n) == {m \in Shape(n).body : pc[m] = "done" /\ failed[m] # "no"}
BindsAvailable(n) == \A o \in DOMAIN Shape(n).binds : Available(Shape(n).binds[o])
Outcomes(n) ==
  IF FailedBody(n) # {} THEN {"child"}
  ELSE IF Shape(n).body # {} THEN {f \in {"no", "error"} : f = "no" => BindsAvailable(n)}
  ELSE {"no", "assertion", "invalid", "error"}

(* The error text: the expected and the actual value of the assertion that *)
(* failed, what the request was made of, or the error of the module's flow.*)
ErrorText(n, f) ==
  LET s == Shape(n)
      Used == s.reads \cup s.echoes
  IN CASE f = "no" -> {{}}
       [] f = "assertion" -> {Used \cup {Ref(n, o) : o \in DOMAIN s.outputs \ DOMAIN s.binds}}
       [] f = "child" -> {message[m] : m \in FailedBody(n)}
       [] OTHER -> {Used}

(* The node may run: nothing upstream failed, or it is run always; the     *)
(* nodes of a module's own flow end it, they do not keep it from running.  *)
Upstream(n) == Shape(n).after \ Shape(n).body
Runs(n) ==
  /\ \A r \in Shape(n).reads : Available(r)
  /\ Shape(n).always \/ \A m \in Upstream(n) : pc[m] = "done" /\ failed[m] = "no"

(* runNode, up to the result of the executor.                              *)
Execute(n) ==
  /\ pc[n] = "waiting" /\ (\A m \in Shape(n).after : Done(m)) /\ Runs(n)
  /\ pc' = [pc EXCEPT ![n] = "executed"]
  /\ \E f \in Outcomes(n) : \E text \in ErrorText(n, f) :
       failed' = [failed EXCEPT ![n] = f] /\ message' = [message EXCEPT ![n] = text]
  /\ UNCHANGED <<setup, current, cache, todo, loaded, events, final>>

Skip(n) ==
  /\ pc[n] = "waiting" /\ (\A m \in Shape(n).after : Done(m)) /\ ~Runs(n)
  /\ pc' = [pc EXCEPT ![n] = "skipped"]
  /\ UNCHANGED <<setup, current, cache, failed, message, todo, loaded, events, final>>

(* ModuleNode.withholdBoundOutputs, still inside the executor: an output   *)
(* bound to a child output masked by name is masked by name.               *)
BoundWithheld(n) == {o \in DOMAIN Shape(n).binds : Shape(n).binds[o] \in withheld}
WithholdBound(n) ==
  /\ pc[n] = "executed" /\ HasOutputs(n) /\ BoundWithheld(n) # {}
  /\ ~({Ref(n, o) : o \in BoundWithheld(n)} \subseteq withheld)
  /\ withheld' = withheld \cup {Ref(n, o) : o \in BoundWithheld(n)} /\ gen' = gen + 1
  /\ UNCHANGED <<setup, secrets, learned, sealed, known, count, cache, pc, failed, message,
                 todo, loaded, events, final>>

(* LearnOutput of one output, by the lock of the redactor one step.        *)
Fresh(v) == v \notin known
ByValue(v) == Length[v] >= MinLearned /\ count < MaxLearned

LearnOutput(n, o) ==
  LET v == Shape(n).outputs[o]
  IN \/ ~Fresh(v) /\ UNCHANGED current
     \/ /\ Fresh(v) /\ ByValue(v)
        /\ known' = known \cup {v} /\ count' = count + 1 /\ gen' = gen + 1
        /\ secrets' = secrets \cup {v} /\ learned' = learned \cup {v}
        /\ UNCHANGED <<withheld, sealed>>
     \/ /\ Fresh(v) /\ ~ByValue(v)
        /\ withheld' = withheld \cup {Ref(n, o)} /\ sealed' = sealed \cup {n} /\ gen' = gen + 1
        /\ UNCHANGED <<secrets, learned, known, count>>

(* learnSecretOutputs: a failed node's outputs are extracted from the      *)
(* response it still reports.                                              *)
learnSecretOutputs(n) ==
  /\ pc[n] = "executed" /\ todo[n] # {}
  /\ LET o == CHOOSE x \in todo[n] : TRUE
     IN LearnOutput(n, o) /\ todo' = [todo EXCEPT ![n] = @ \ {o}]
  /\ UNCHANGED <<setup, cache, pc, failed, message, loaded, events, final>>

(* The nodes of a module's flow have no observer.                          *)
(* redactingObserver.NodeFinished: load the snapshot, then mask and send.  *)
(* Mutant: the event is sent before the outputs are made known.            *)
LoadEarly(n) ==
  /\ pc[n] = "executed"
  /\ pc' = [pc EXCEPT ![n] = "reporting"] /\ loaded' = [loaded EXCEPT ![n] = Snapshot]
  /\ UNCHANGED <<setup, current, cache, failed, message, todo, events, final>>

Load(n) ==
  /\ pc[n] = "executed" /\ todo[n] = {}
  /\ HasOutputs(n) => {Ref(n, o) : o \in BoundWithheld(n)} \subseteq withheld
  /\ pc' = [pc EXCEPT ![n] = "reporting"] /\ loaded' = [loaded EXCEPT ![n] = Snapshot]
  /\ UNCHANGED <<setup, current, cache, failed, message, todo, events, final>>

NodeFinished(n) ==
  /\ pc[n] = "reporting"
  /\ LET masked == maskResult(loaded[n], n)
     IN /\ events' = IF Shape(n).nested THEN events ELSE events \cup masked
        /\ cache' = [cache EXCEPT ![n] = [gen |-> loaded[n].gen, places |-> masked]]
  /\ pc' = [pc EXCEPT ![n] = "done"] /\ loaded' = [loaded EXCEPT ![n] = NoSet]
  /\ UNCHANGED <<setup, current, failed, message, todo, final>>

(* FlowResult, for flow.finished and for what Run returns.                 *)
Reported == {n \in Node : pc[n] = "done" /\ ~Shape(n).nested}
FinalOutputs == UNION {Outputs(n) : n \in Reported}

(* The error of the flow is that of one of its failed nodes.               *)
FlowErrors ==
  LET bad == {n \in Reported : failed[n] # "no"}
  IN IF bad = {} THEN {{}} ELSE {Message(n) : n \in bad}

FlowFinished ==
  /\ final = {} /\ \A n \in Node : Done(n)
  /\ \E text \in FlowErrors :
       final' = (UNION {maskResult(Snapshot, n) : n \in Reported})
                \cup {[node |-> "flow", place |-> p, shown |-> Shown(Snapshot, "flow", p, TRUE)] :
                        p \in FinalOutputs \cup text}
  /\ UNCHANGED <<setup, current, cache, pc, failed, message, todo, loaded, events>>

Ended == (\A n \in Node : Done(n)) /\ UNCHANGED vars

Next == \/ \E n \in Node : \/ Execute(n) \/ Skip(n) \/ WithholdBound(n) \/ learnSecretOutputs(n)
                           \/ Load(n) \/ NodeFinished(n)
        \/ FlowFinished \/ Ended

Spec == Init /\ [][Next]_vars

---------------------------------------------------------------------------
(* Properties.                                                             *)

IsSecret(ref) == ref # NoRef /\ ref[2] \in Shape(ref[1]).secret

(* The text of a number in exponent form, which masking does not look for. *)
Exponent(p) == p.field = "message" /\ p.value \in Scientific

(* What a report may show of a value that comes from a secret output:      *)
(* nothing under a reference to it, nothing in the rest of its own node's  *)
(* report except in the error message, and nothing anywhere once it is     *)
(* masked by value, unless a message holds the number in exponent form.    *)
(* A withheld value is not masked by value: a failed assertion's message   *)
(* may show it, in the report of its own node too, as seal keeps messages. *)
Hidden(e) ==
  /\ e.place.ref # NoRef => e.shown \in {"mask", "dropped"}
  /\ e.node = e.place.origin[1] /\ e.place.field # "message" => e.shown \in {"mask", "dropped"}
  /\ e.place.value \in learned /\ ~Exponent(e.place) => e.shown \notin {"plain", "fragment"}

(* The events of a node, and of the nodes that read its outputs, hide its  *)
(* secret outputs, whatever other nodes learn or report in between.        *)
EventsHideSecrets ==
  \A e \in events : IsSecret(e.place.origin) /\ e.place.origin \notin Shape(e.node).echoes => Hidden(e)

(* The flow result hides every secret output, also in the result of a node *)
(* that reported the value before it was known to be secret.               *)
ResultHidesSecrets == \A e \in final : IsSecret(e.place.origin) => Hidden(e)
=============================================================================
