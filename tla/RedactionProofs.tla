---------------------------- MODULE RedactionProofs ----------------------------
(***************************************************************************)
(* Secret outputs stay hidden, proved for every set of nodes and values    *)
(* and every setup.                                                        *)
(*                                                                         *)
(* When a node reports, each secret value it may carry was made known by   *)
(* the node itself or by a node that ended before it started: either it is *)
(* masked by value in the snapshot the report is masked against, or its    *)
(* output is masked by name and the value can never be learned any more.   *)
(* What is added to the redactor later cannot change a report, and a       *)
(* cached result is reused only for the snapshot it was masked with.       *)
(***************************************************************************)
EXTENDS Redaction, TLAPS

(* The value is too short to be masked by value, or came too late.         *)
Unlearnable(v) == v \notin known /\ (Length[v] < MinLearned \/ count >= MaxLearned)

MaskedByValue(set, v) == v \in set.secrets /\ (v \in Numeric => v \in set.learned)

(* The output is made known: masked by value or by name.                   *)
Covered(ref) ==
  \/ MaskedByValue(Snapshot, ValueOf(ref))
  \/ ref \in withheld /\ ref[1] \in sealed /\ Unlearnable(ValueOf(ref))

(* The snapshot hides what the place carries.                              *)
HiddenBy(set, n, p) ==
  \/ MaskedByValue(set, p.value)
  \/ /\ Unlearnable(p.value)
     /\ p.ref # NoRef => p.ref \in set.withheld
     /\ n = p.origin[1] => n \in set.sealed

Hides(set, n) ==
  \A p \in Result(n) :
    IsSecret(p.origin) /\ p.origin \notin Shape(n).echoes => HiddenBy(set, n, p)

TypeInv ==
  /\ setup \in Setups /\ gen \in Nat /\ count \in Nat
  /\ pc \in [Node -> {"waiting", "executed", "reporting", "done", "skipped"}]
  /\ DOMAIN failed = Node /\ DOMAIN todo = Node /\ DOMAIN loaded = Node /\ DOMAIN cache = Node
  /\ DOMAIN message = Node /\ \A n \in Node : message[n] \subseteq RefsTo(setup, Node)

(* What is known is masked, and was learned unless it is an input.         *)
KnownInv ==
  /\ learned \subseteq known /\ known \subseteq secrets
  /\ known \subseteq learned \cup setup.inputs

(* A node runs after the nodes upstream of it ended and left what it reads *)
(* and what its outputs are bound to.                                      *)
Began(n) == pc[n] \in {"executed", "reporting", "done"}

Ordered(n) ==
  /\ \A m \in Shape(n).after : Done(m)
  /\ \A r \in Shape(n).reads : Available(r)
  /\ HasOutputs(n) => BindsAvailable(n)

OrderInv ==
  /\ \A n \in Node : Began(n) => Ordered(n)
  /\ \A n \in Node : pc[n] \in {"reporting", "done"} => todo[n] = {}

(* An error text carries outputs of the node itself, outputs it found, and *)
(* values it only echoes.                                                  *)
Carried(n, r) ==
  \/ r \in Shape(n).echoes
  \/ \E o \in DOMAIN Shape(n).outputs \ DOMAIN Shape(n).binds : r = <<n, o>> /\ HasOutputs(n)
  \/ Available(r)

MessageInv == \A n \in Node : Began(n) => \A r \in message[n] : Carried(n, r)

(* The secret outputs dealt with are covered, and the outputs bound to one *)
(* masked by name are.                                                     *)
CoverInv ==
  /\ \A n \in Node : \A o \in Shape(n).secret \ todo[n] : Covered(Ref(n, o))
  /\ \A n \in Node : pc[n] \in {"reporting", "done"} /\ HasOutputs(n) =>
       \A o \in BoundWithheld(n) : Ref(n, o) \in withheld

(* Snapshots in use are past or current ones, and the current one is what  *)
(* a report with its number was masked with.                               *)
CacheInv ==
  /\ \A n \in Node : pc[n] # "done" => cache[n].gen = -1
  /\ \A n \in Node : pc[n] = "reporting" =>
       /\ loaded[n].gen \in Nat /\ loaded[n].gen <= gen /\ Hides(loaded[n], n)
       /\ loaded[n].gen = gen => loaded[n] = Snapshot
  /\ \A n \in Node : pc[n] = "done" =>
       /\ cache[n].gen \in Nat /\ cache[n].gen <= gen
       /\ cache[n].gen = gen => cache[n].places = result(Snapshot, n)

(* What an event shows of a secret output it carries.                      *)
Safe(e) ==
  /\ e.place.ref # NoRef => e.shown \in {"mask", "dropped"}
  /\ e.node = e.place.origin[1] /\ e.place.field # "message" => e.shown \in {"mask", "dropped"}
  /\ \/ e.shown \in {"mask", "dropped"}
     \/ e.place.value \in Value /\ Unlearnable(e.place.value)
     \/ Exponent(e.place)

EventInv ==
  \A e \in events : IsSecret(e.place.origin) /\ e.place.origin \notin Shape(e.node).echoes
                      => Safe(e)

FinalInv == final # {} => (\A n \in Node : Done(n)) /\ ResultHidesSecrets

RedactionInv ==
  /\ TypeInv /\ KnownInv /\ OrderInv /\ MessageInv /\ CoverInv
  /\ CacheInv /\ EventInv /\ FinalInv

---------------------------------------------------------------------------
(* What a setup says of a node, and what a place of its result carries.    *)

(* A reference to the outputs of some nodes names one of them.             *)
LEMMA RefsElim ==
  ASSUME NEW M, NEW r \in RefsTo(setup, M)
  PROVE  \E m \in M : \E o \in DOMAIN Shape(m).outputs : r = <<m, o>>
BY DEF RefsTo, Shape

(* SetupAssumption, for the setup of the run.                              *)
LEMMA ShapeFacts ==
  ASSUME setup \in Setups, NEW n \in Node
  PROVE  /\ Shape(n).after \subseteq Node /\ Shape(n).body \subseteq Shape(n).after
         /\ Shape(n).parses \in BOOLEAN
         /\ \A o \in DOMAIN Shape(n).outputs : Shape(n).outputs[o] \in Value
         /\ Shape(n).secret \subseteq DOMAIN Shape(n).outputs
         /\ Shape(n).reads \subseteq RefsTo(setup, Node)
         /\ Shape(n).echoes \subseteq RefsTo(setup, Node)
         /\ \A r \in Shape(n).reads : \E m \in Shape(n).after :
              \E o \in DOMAIN Shape(m).outputs : r = <<m, o>>
         /\ \A r \in Shape(n).echoes : \E m \in Node :
              \E o \in DOMAIN Shape(m).outputs \ DOMAIN Shape(m).binds : r = <<m, o>>
         /\ \A m \in Shape(n).body : Shape(m).echoes \subseteq Shape(n).echoes
         /\ \A o \in DOMAIN Shape(n).binds : Shape(n).binds[o] \in RefsTo(setup, Node)
         /\ \A o \in DOMAIN Shape(n).binds :
              /\ o \in DOMAIN Shape(n).outputs
              /\ \E m \in Shape(n).body : \E q \in DOMAIN Shape(m).outputs :
                   Shape(n).binds[o] = <<m, q>> /\ Shape(n).outputs[o] = Shape(m).outputs[q]
<1> DEFINE d == setup.nodes[n]
<1>1. /\ d.after \subseteq Node /\ d.body \subseteq d.after /\ d.parses \in BOOLEAN
      /\ \A o \in DOMAIN d.outputs : d.outputs[o] \in Value
      /\ d.secret \subseteq DOMAIN d.outputs
      /\ d.reads \subseteq RefsTo(setup, d.after) /\ d.echoes \subseteq RefsTo(setup, Node)
      /\ \A r \in d.echoes : r[2] \notin DOMAIN setup.nodes[r[1]].binds
      /\ \A m \in d.body : setup.nodes[m].echoes \subseteq d.echoes
      /\ \A o \in DOMAIN d.binds :
           /\ o \in DOMAIN d.outputs /\ d.binds[o] \in RefsTo(setup, d.body)
           /\ d.outputs[o] = setup.nodes[d.binds[o][1]].outputs[d.binds[o][2]]
  BY SetupAssumption
<1>2. ASSUME NEW M, NEW r \in RefsTo(setup, M)
      PROVE  \E m \in M : \E o \in DOMAIN setup.nodes[m].outputs : r = <<m, o>>
  BY <1>2, RefsElim DEF Shape
<1>2a. /\ \A r \in d.reads : r \in RefsTo(setup, d.after)
       /\ \A r \in d.echoes : r \in RefsTo(setup, Node)
       /\ \A o \in DOMAIN d.binds : d.binds[o] \in RefsTo(setup, d.body)
  BY <1>1
<1>2b. /\ RefsTo(setup, d.after) \subseteq RefsTo(setup, Node)
       /\ RefsTo(setup, d.body) \subseteq RefsTo(setup, Node)
  BY <1>1 DEF RefsTo
<1>3. \A r \in d.reads : \E m \in d.after : \E o \in DOMAIN setup.nodes[m].outputs : r = <<m, o>>
  BY <1>2, <1>2a
<1>4. \A r \in d.echoes : \E m \in Node :
        \E o \in DOMAIN setup.nodes[m].outputs \ DOMAIN setup.nodes[m].binds : r = <<m, o>>
  <2> TAKE r \in d.echoes
  <2>1. PICK m \in Node : \E o \in DOMAIN setup.nodes[m].outputs : r = <<m, o>>
    BY <1>2, <1>2a
  <2>2. PICK o \in DOMAIN setup.nodes[m].outputs : r = <<m, o>>
    BY <2>1
  <2>3. r[1] = m /\ r[2] = o
    BY <2>2
  <2>4. o \notin DOMAIN setup.nodes[m].binds
    BY <1>1, <2>3
  <2> QED BY <2>2, <2>4
<1>5. ASSUME NEW o \in DOMAIN d.binds
      PROVE  \E m \in d.body : \E q \in DOMAIN setup.nodes[m].outputs :
               d.binds[o] = <<m, q>> /\ d.outputs[o] = setup.nodes[m].outputs[q]
  <2>1. PICK m \in d.body : \E q \in DOMAIN setup.nodes[m].outputs : d.binds[o] = <<m, q>>
    BY <1>2, <1>2a
  <2>2. PICK q \in DOMAIN setup.nodes[m].outputs : d.binds[o] = <<m, q>>
    BY <2>1
  <2>3. d.binds[o][1] = m /\ d.binds[o][2] = q
    BY <2>2
  <2>4. d.outputs[o] = setup.nodes[d.binds[o][1]].outputs[d.binds[o][2]]
    BY <1>1
  <2> QED BY <2>2, <2>3, <2>4
<1> QED BY <1>1, <1>2a, <1>2b, <1>3, <1>4, <1>5 DEF Shape

(* An output comes from itself, or from the child output it is bound to.   *)
LEMMA OriginFacts ==
  ASSUME setup \in Setups, NEW n \in Node, NEW o \in DOMAIN Shape(n).outputs
  PROVE  /\ ValueOf(Origin(n, o)) = Shape(n).outputs[o]
         /\ \/ o \notin DOMAIN Shape(n).binds /\ Origin(n, o) = <<n, o>>
            \/ /\ o \in DOMAIN Shape(n).binds /\ Origin(n, o) = Shape(n).binds[o]
               /\ \E m \in Shape(n).body : \E q \in DOMAIN Shape(m).outputs : Origin(n, o) = <<m, q>>
<1>1. CASE o \notin DOMAIN Shape(n).binds
  BY <1>1 DEF Origin, Ref, ValueOf
<1>2. CASE o \in DOMAIN Shape(n).binds
  <2>1. PICK m \in Shape(n).body : \E q \in DOMAIN Shape(m).outputs :
               Shape(n).binds[o] = <<m, q>> /\ Shape(n).outputs[o] = Shape(m).outputs[q]
    BY <1>2, ShapeFacts
  <2>2. PICK q \in DOMAIN Shape(m).outputs :
               Shape(n).binds[o] = <<m, q>> /\ Shape(n).outputs[o] = Shape(m).outputs[q]
    BY <2>1
  <2>3. Origin(n, o) = Shape(n).binds[o]
    BY <1>2 DEF Origin
  <2>4. ValueOf(<<m, q>>) = Shape(m).outputs[q]
    BY DEF ValueOf
  <2> QED BY <1>2, <2>2, <2>3, <2>4
<1> QED BY <1>1, <1>2

(* A reference to an output has the value of the output it comes from.     *)
LEMMA RefFacts ==
  ASSUME setup \in Setups, NEW r \in RefsTo(setup, Node)
  PROVE  /\ ValueOf(r) \in Value /\ ValueOf(r) = ValueOf(Origin(r[1], r[2]))
         /\ r # NoRef /\ r[1] \in Node
<1>1. PICK m \in Node : \E o \in DOMAIN Shape(m).outputs : r = <<m, o>>
  BY RefsElim
<1>2. PICK o \in DOMAIN Shape(m).outputs : r = <<m, o>>
  BY <1>1
<1>3. r[1] = m /\ r[2] = o /\ r # NoRef
  BY <1>2 DEF NoRef
<1>4. Shape(m).outputs[o] \in Value /\ ValueOf(Origin(m, o)) = Shape(m).outputs[o]
  BY ShapeFacts, OriginFacts
<1>5. ValueOf(r) = Shape(m).outputs[o]
  BY <1>3 DEF ValueOf
<1> QED BY <1>3, <1>4, <1>5

(* The six kinds of places of a result, as Result lists them.              *)
LEMMA PlaceKinds ==
  ASSUME NEW n, NEW p \in Result(n)
  PROVE  \/ \E o \in DOMAIN Shape(n).outputs :
              /\ HasOutputs(n)
              /\ p = Place("output", <<n, o>>, Shape(n).outputs[o], Origin(n, o))
         \/ \E f \in {"body", "compared"}, o \in DOMAIN Shape(n).outputs \ DOMAIN Shape(n).binds :
              p = Place(f, NoRef, Shape(n).outputs[o], <<n, o>>)
         \/ \E r \in RefsTo(setup, Shape(n).body) :
              Available(r) /\ p = Place("child", r, ValueOf(r), Origin(r[1], r[2]))
         \/ \E r \in Shape(n).reads : p = Place("input", r, ValueOf(r), Origin(r[1], r[2]))
         \/ \E f \in {"detail", "compared"}, r \in Shape(n).reads \cup Shape(n).echoes :
              p = Place(f, NoRef, ValueOf(r), Origin(r[1], r[2]))
         \/ \E r \in message[n] : p = Place("message", NoRef, ValueOf(r), Origin(r[1], r[2]))
<1>1. ASSUME NEW o PROVE Ref(n, o) = <<n, o>> /\ ValueOf(<<n, o>>) = Shape(n).outputs[o]
  BY DEF Ref, ValueOf
<1>2. CASE p \in Outputs(n)
  BY <1>1, <1>2 DEF Outputs
<1>3. CASE p \in Message(n)
  BY <1>3 DEF Message
<1>4. CASE p \notin Outputs(n) /\ p \notin Message(n)
  BY <1>1, <1>4 DEF Result
<1> QED BY <1>2, <1>3, <1>4

(* A place is an output or an input under a reference, or has none; its    *)
(* value is that of the output it comes from.                              *)
LEMMA PlaceFacts ==
  ASSUME TypeInv, NEW n \in Node, NEW p \in Result(n)
  PROVE  /\ p.value \in Value /\ p.value = ValueOf(p.origin)
         /\ \/ p.ref = NoRef /\ p.field \in {"body", "compared", "detail", "message"}
            \/ p.ref # NoRef /\ p.field \in {"input", "output", "child"}
<1> DEFINE Goal == /\ p.value \in Value /\ p.value = ValueOf(p.origin)
                   /\ \/ p.ref = NoRef /\ p.field \in {"body", "compared", "detail", "message"}
                      \/ p.ref # NoRef /\ p.field \in {"input", "output", "child"}
<1>a. setup \in Setups /\ message[n] \subseteq RefsTo(setup, Node)
  BY DEF TypeInv
<1>b. /\ Shape(n).reads \subseteq RefsTo(setup, Node)
      /\ Shape(n).echoes \subseteq RefsTo(setup, Node)
      /\ Shape(n).body \subseteq Node
  BY <1>a, ShapeFacts
<1>c. RefsTo(setup, Shape(n).body) \subseteq RefsTo(setup, Node)
  BY <1>b DEF RefsTo
<1>0. ASSUME NEW m, NEW o PROVE <<m, o>> # NoRef /\ ValueOf(<<m, o>>) = Shape(m).outputs[o]
  BY DEF NoRef, ValueOf
<1>1. ASSUME NEW o \in DOMAIN Shape(n).outputs,
             p = Place("output", <<n, o>>, Shape(n).outputs[o], Origin(n, o))
      PROVE  Goal
  BY <1>a, <1>0, <1>1, OriginFacts, ShapeFacts DEF Place
<1>2. ASSUME NEW f \in {"body", "compared"}, NEW o \in DOMAIN Shape(n).outputs,
             p = Place(f, NoRef, Shape(n).outputs[o], <<n, o>>)
      PROVE  Goal
  BY <1>a, <1>0, <1>2, ShapeFacts DEF Place
<1>3. ASSUME NEW f \in {"input", "child"}, NEW r \in RefsTo(setup, Node),
             p = Place(f, r, ValueOf(r), Origin(r[1], r[2]))
      PROVE  Goal
  <2>1. p.ref = r /\ p.field = f /\ p.value = ValueOf(r) /\ p.origin = Origin(r[1], r[2])
    BY <1>3 DEF Place
  <2> QED BY <1>a, <2>1, RefFacts
<1>4. ASSUME NEW f \in {"detail", "compared", "message"}, NEW r \in RefsTo(setup, Node),
             p = Place(f, NoRef, ValueOf(r), Origin(r[1], r[2]))
      PROVE  Goal
  <2>1. p.ref = NoRef /\ p.field = f /\ p.value = ValueOf(r) /\ p.origin = Origin(r[1], r[2])
    BY <1>4 DEF Place
  <2> QED BY <1>a, <2>1, RefFacts
<1> HIDE DEF Goal
<1>5. ASSUME NEW r \in RefsTo(setup, Shape(n).body),
             p = Place("child", r, ValueOf(r), Origin(r[1], r[2]))
      PROVE  Goal
  BY <1>c, <1>3, <1>5
<1>6. ASSUME NEW r \in Shape(n).reads, p = Place("input", r, ValueOf(r), Origin(r[1], r[2]))
      PROVE  Goal
  BY <1>b, <1>3, <1>6
<1>7. ASSUME NEW f \in {"detail", "compared"}, NEW r \in Shape(n).reads \cup Shape(n).echoes,
             p = Place(f, NoRef, ValueOf(r), Origin(r[1], r[2]))
      PROVE  Goal
  BY <1>b, <1>4, <1>7
<1>8. ASSUME NEW r \in message[n], p = Place("message", NoRef, ValueOf(r), Origin(r[1], r[2]))
      PROVE  Goal
  BY <1>a, <1>4, <1>8
<1>9. Goal
  BY <1>1, <1>2, <1>5, <1>6, <1>7, <1>8, PlaceKinds
<1> QED BY <1>9 DEF Goal

(* The snapshot hides the place, or the value is only echoed and its node  *)
(* has not made it known yet.                                              *)
Accounted(n, p) ==
  \/ HiddenBy(Snapshot, n, p)
  \/ p.ref = NoRef /\ p.origin \in Shape(n).echoes /\ todo[p.origin[1]] # {}

(* The node made its own outputs known.                                    *)
Dealt(n) ==
  /\ Began(n) /\ todo[n] = {}
  /\ HasOutputs(n) => \A o \in BoundWithheld(n) : Ref(n, o) \in withheld

(* A node that dealt with its own outputs carries no secret value that the *)
(* current snapshot does not hide.                                         *)
LEMMA StateHides ==
  ASSUME RedactionInv, NEW n \in Node, Dealt(n), NEW p \in Result(n), IsSecret(p.origin)
  PROVE  Accounted(n, p)
<1>0. TypeInv /\ setup \in Setups /\ p.value = ValueOf(p.origin)
  BY PlaceFacts DEF RedactionInv, TypeInv
<1>1. ASSUME NEW m, NEW o PROVE IsSecret(<<m, o>>) <=> o \in Shape(m).secret
  BY DEF IsSecret, NoRef
<1>2. ASSUME NEW m \in Node, NEW o \in Shape(m).secret, todo[m] = {}
      PROVE  \/ MaskedByValue(Snapshot, ValueOf(<<m, o>>))
             \/ <<m, o>> \in withheld /\ m \in sealed /\ Unlearnable(ValueOf(<<m, o>>))
  BY <1>2 DEF RedactionInv, CoverInv, Covered, Ref
<1>5. Snapshot.withheld = withheld /\ Snapshot.sealed = sealed
  BY DEF Snapshot
(* The place's origin is known, and the reference of the place is withheld with it. *)
<1>6. ASSUME NEW m \in Node, NEW o, p.origin = <<m, o>>, todo[m] = {},
             p.ref = NoRef \/ p.ref = <<m, o>> \/ (<<m, o>> \in withheld => p.ref \in withheld)
      PROVE  Accounted(n, p)
  BY <1>0, <1>1, <1>2, <1>5, <1>6 DEF Accounted, HiddenBy
(* A node that dealt with its outputs and has them: its own, or its flow's. *)
<1>7. ASSUME NEW m \in Node, Dealt(m), HasOutputs(m), NEW o \in DOMAIN Shape(m).outputs,
             p.ref = <<m, o>> \/ p.ref = NoRef, p.origin = Origin(m, o)
      PROVE  Accounted(n, p)
  <2>2. CASE Origin(m, o) = <<m, o>>
    BY <1>6, <1>7, <2>2 DEF Dealt
  <2>3. CASE /\ o \in DOMAIN Shape(m).binds /\ Origin(m, o) = Shape(m).binds[o]
             /\ \E k \in Shape(m).body : \E q \in DOMAIN Shape(k).outputs : Origin(m, o) = <<k, q>>
    <3>1. PICK k \in Shape(m).body : \E q \in DOMAIN Shape(k).outputs : Origin(m, o) = <<k, q>>
      BY <2>3
    <3>2. PICK q \in DOMAIN Shape(k).outputs : Origin(m, o) = <<k, q>>
      BY <3>1
    <3>3. <<k, q>> \in withheld => <<m, o>> \in withheld
      BY <1>7, <2>3, <3>2 DEF Dealt, BoundWithheld, Ref
    <3>4. Available(<<k, q>>)
      BY <1>7, <2>3, <3>2 DEF RedactionInv, OrderInv, Ordered, BindsAvailable, Dealt
    <3>5. k \in Node
      BY <1>0, ShapeFacts
    <3>6. pc[k] = "done"
      BY <3>4 DEF Available
    <3>7. todo[k] = {}
      BY <3>5, <3>6 DEF RedactionInv, OrderInv
    <3> QED BY <1>6, <1>7, <3>2, <3>3, <3>5, <3>7
  <2> QED BY <1>0, <2>2, <2>3, OriginFacts
<1>8. ASSUME NEW r \in RefsTo(setup, Node), Available(r), p.ref = r \/ p.ref = NoRef,
             p.origin = Origin(r[1], r[2])
      PROVE  Accounted(n, p)
  <2>1. PICK m \in Node : \E o \in DOMAIN Shape(m).outputs : r = <<m, o>>
    BY <1>8, RefsElim
  <2>2. PICK o \in DOMAIN Shape(m).outputs : r = <<m, o>>
    BY <2>1
  <2>3. r[1] = m /\ r[2] = o
    BY <2>2
  <2>4. pc[m] = "done" /\ HasOutputs(m)
    BY <1>8, <2>3 DEF Available
  <2>5. Dealt(m)
    BY <2>4 DEF Dealt, Began, RedactionInv, OrderInv, CoverInv
  <2> QED BY <1>7, <1>8, <2>2, <2>3, <2>4, <2>5
<1>9. ASSUME NEW r \in Shape(n).echoes, p.ref = NoRef, p.origin = Origin(r[1], r[2])
      PROVE  Accounted(n, p)
  <2>1. PICK m \in Node : \E o \in DOMAIN Shape(m).outputs \ DOMAIN Shape(m).binds : r = <<m, o>>
    BY <1>0, <1>9, ShapeFacts
  <2>2. PICK o \in DOMAIN Shape(m).outputs \ DOMAIN Shape(m).binds : r = <<m, o>>
    BY <2>1
  <2>3. r[1] = m /\ r[2] = o
    BY <2>2
  <2>4. p.origin = <<m, o>>
    BY <1>0, <1>9, <2>2, <2>3, OriginFacts
  <2>5. p.origin[1] = m
    BY <2>4
  <2> QED BY <1>6, <1>9, <2>2, <2>4, <2>5 DEF Accounted
<1>10. /\ Began(n) /\ \A r \in Shape(n).reads : Available(r)
       /\ \A r \in message[n] : Carried(n, r)
       /\ message[n] \subseteq RefsTo(setup, Node)
  BY <1>0 DEF Dealt, RedactionInv, OrderInv, Ordered, MessageInv, TypeInv
<1>11. ASSUME NEW o \in DOMAIN Shape(n).outputs, HasOutputs(n),
              p = Place("output", <<n, o>>, Shape(n).outputs[o], Origin(n, o))
       PROVE  Accounted(n, p)
  <2>1. p.ref = <<n, o>> /\ p.origin = Origin(n, o)
    BY <1>11 DEF Place
  <2> QED BY <1>7, <1>11, <2>1
<1>12. ASSUME NEW f, NEW o \in DOMAIN Shape(n).outputs,
              p = Place(f, NoRef, Shape(n).outputs[o], <<n, o>>)
       PROVE  Accounted(n, p)
  <2>1. p.ref = NoRef /\ p.origin = <<n, o>>
    BY <1>12 DEF Place
  <2> QED BY <1>6, <2>1 DEF Dealt
<1>13. ASSUME NEW r \in RefsTo(setup, Shape(n).body), Available(r),
              p = Place("child", r, ValueOf(r), Origin(r[1], r[2]))
       PROVE  Accounted(n, p)
  <2>1. p.ref = r /\ p.origin = Origin(r[1], r[2])
    BY <1>13 DEF Place
  <2>2. Shape(n).body \subseteq Node
    BY <1>0, ShapeFacts
  <2>3. r \in RefsTo(setup, Node)
    BY <1>13, <2>2 DEF RefsTo
  <2> QED BY <1>8, <1>13, <2>1, <2>3
<1>14. ASSUME NEW r \in Shape(n).reads, NEW f, NEW ref \in {r, NoRef},
              p = Place(f, ref, ValueOf(r), Origin(r[1], r[2]))
       PROVE  Accounted(n, p)
  <2>1. p.ref = ref /\ p.origin = Origin(r[1], r[2])
    BY <1>14 DEF Place
  <2>2. r \in RefsTo(setup, Node)
    BY <1>0, ShapeFacts
  <2> QED BY <1>8, <1>10, <2>1, <2>2
<1>15. ASSUME NEW r \in Shape(n).echoes, NEW f,
              p = Place(f, NoRef, ValueOf(r), Origin(r[1], r[2]))
       PROVE  Accounted(n, p)
  <2>1. p.ref = NoRef /\ p.origin = Origin(r[1], r[2])
    BY <1>15 DEF Place
  <2> QED BY <1>9, <2>1
<1>16. ASSUME NEW r \in message[n], p = Place("message", NoRef, ValueOf(r), Origin(r[1], r[2]))
       PROVE  Accounted(n, p)
  <2>1. p.ref = NoRef /\ p.origin = Origin(r[1], r[2])
    BY <1>16 DEF Place
  <2>2. CASE r \in Shape(n).echoes
    BY <1>9, <2>1, <2>2
  <2>3. ASSUME NEW o \in DOMAIN Shape(n).outputs, r = <<n, o>>, HasOutputs(n)
        PROVE  Accounted(n, p)
    <3>1. r[1] = n /\ r[2] = o
      BY <2>3
    <3> QED BY <1>7, <2>1, <2>3, <3>1
  <2>4. CASE Available(r)
    BY <1>8, <1>10, <2>1, <2>4
  <2> QED BY <1>10, <2>2, <2>3, <2>4 DEF Carried
<1> QED BY <1>11, <1>12, <1>13, <1>14, <1>15, <1>16, PlaceKinds


---------------------------------------------------------------------------
(* What is shown of a place that the snapshot hides.                       *)

(* A value masked by value is masked or dropped in every field, unless it  *)
(* stands in a message as a number in exponent form.                       *)
LEMMA MaskedShown ==
  ASSUME NEW set, NEW n, NEW p, NEW parses \in BOOLEAN, p.value \in Value,
         MaskedByValue(set, p.value), ~Exponent(p)
  PROVE  Shown(set, n, p, parses) \in {"mask", "dropped"}
<1>0. Text(set, p.value) = "mask"
  BY ValueAssumption DEF Text, Hits, MaskedByValue
<1>1. byValue(set, p) = "mask"
  BY <1>0 DEF byValue, MaskedByValue
<1>2. maskBody(set, p, parses) = "mask"
  BY <1>0, <1>1 DEF maskBody
<1> QED BY <1>0, <1>1, <1>2 DEF Shown, Exponent

(* What is masked by name is masked under its reference, and a sealed node *)
(* shows nothing outside its references.                                   *)
LEMMA NamedShown ==
  ASSUME NEW set, NEW n, NEW p, NEW parses
  PROVE  /\ p.field \in {"input", "output", "child"} /\ p.ref \in set.withheld =>
              Shown(set, n, p, parses) \in {"mask", "dropped"}
         /\ p.field \in {"body", "detail", "compared"} /\ n \in set.sealed =>
              Shown(set, n, p, parses) \in {"mask", "dropped"}
BY DEF Shown

(* A place the snapshot hides is shown safely.                             *)
LEMMA HiddenIsSafe ==
  ASSUME TypeInv, NEW n \in Node, NEW p \in Result(n), NEW set, HiddenBy(set, n, p),
         NEW parses \in BOOLEAN,
         NEW e, e.node = n, e.place = p, e.shown = Shown(set, n, p, parses)
  PROVE  Safe(e)
<1>1. /\ p.value \in Value
      /\ \/ p.ref = NoRef /\ p.field \in {"body", "compared", "detail", "message"}
         \/ p.ref # NoRef /\ p.field \in {"input", "output", "child"}
  BY PlaceFacts
<1>2. CASE MaskedByValue(set, p.value)
  <2>1. ~Exponent(p) => e.shown \in {"mask", "dropped"}
    BY <1>1, <1>2, MaskedShown
  <2>2. Exponent(p) => p.field = "message" /\ p.ref = NoRef
    BY <1>1 DEF Exponent
  <2> QED BY <2>1, <2>2 DEF Safe
<1>3. CASE /\ Unlearnable(p.value)
           /\ p.ref # NoRef => p.ref \in set.withheld
           /\ n = p.origin[1] => n \in set.sealed
  <2>1. p.ref # NoRef => e.shown \in {"mask", "dropped"}
    BY <1>1, <1>3, NamedShown
  <2>2. n = p.origin[1] /\ p.field # "message" => e.shown \in {"mask", "dropped"}
    BY <1>1, <1>3, <2>1, NamedShown
  <2> QED BY <1>1, <1>3, <2>1, <2>2 DEF Safe
<1> QED BY <1>2, <1>3 DEF HiddenBy

---------------------------------------------------------------------------
(* The redactor only grows.                                                *)

(* What every step keeps: masks stay, what could not be learned cannot be, *)
(* a change has a number of its own, names are added by nodes at work, and *)
(* the result of a node does not change once it executed.                  *)
Grow ==
  /\ setup' = setup /\ secrets \subseteq secrets' /\ learned \subseteq learned'
  /\ withheld \subseteq withheld' /\ sealed \subseteq sealed'
  /\ \A v \in Value : Unlearnable(v) => Unlearnable(v)'
  /\ Snapshot' = Snapshot \/ gen' = gen + 1
  /\ \A m \in Node : \A o : <<m, o>> \in withheld' \ withheld => pc[m] = "executed"
  /\ \A m \in Node : pc[m] # "waiting" => failed'[m] = failed[m] /\ message'[m] = message[m]
  /\ \A m \in Node : Done(m) => pc'[m] = pc[m]

(* One output made known.                                                  *)
LEMMA LearnGrows ==
  ASSUME TypeInv, NEW n \in Node, NEW o, LearnOutput(n, o), UNCHANGED <<setup, pc, failed, message>>,
         pc[n] = "executed"
  PROVE  Grow
<1> DEFINE v == Shape(n).outputs[o]
<1>1. CASE UNCHANGED current
  BY <1>1 DEF Grow, current, Unlearnable, Snapshot, Done
<1>2. CASE /\ Fresh(v) /\ ByValue(v)
           /\ known' = known \cup {v} /\ count' = count + 1 /\ gen' = gen + 1
           /\ secrets' = secrets \cup {v} /\ learned' = learned \cup {v}
           /\ UNCHANGED <<withheld, sealed>>
  <2>1. \A w \in Value : Unlearnable(w) => Unlearnable(w)'
    BY <1>2, ValueAssumption, LimitAssumption DEF TypeInv, Unlearnable, ByValue, Fresh
  <2> QED BY <1>2, <2>1 DEF Grow
<1>3. CASE /\ Fresh(v) /\ ~ByValue(v)
           /\ withheld' = withheld \cup {Ref(n, o)} /\ sealed' = sealed \cup {n} /\ gen' = gen + 1
           /\ UNCHANGED <<secrets, learned, known, count>>
  <2>1. \A w \in Value : Unlearnable(w) => Unlearnable(w)'
    BY <1>3 DEF Unlearnable
  <2>2. \A m \in Node : \A q : <<m, q>> \in withheld' \ withheld => pc[m] = "executed"
    BY <1>3 DEF Ref
  <2> QED BY <1>3, <2>1, <2>2 DEF Grow
<1> QED BY <1>1, <1>2, <1>3 DEF LearnOutput

(* Every step of the specification.                                        *)
LEMMA StepGrows == TypeInv /\ [Next]_vars => Grow
<1> SUFFICES ASSUME TypeInv, [Next]_vars PROVE Grow
  OBVIOUS
<1>0. ASSUME UNCHANGED <<setup, current>>,
             \A m \in Node : pc[m] # "waiting" => failed'[m] = failed[m] /\ message'[m] = message[m],
             \A m \in Node : Done(m) => pc'[m] = pc[m]
      PROVE  Grow
  BY <1>0 DEF Grow, current, Unlearnable, Snapshot
<1>1. ASSUME NEW n \in Node, Execute(n) PROVE Grow
  <2>1. \A m \in Node : pc[m] # "waiting" => failed'[m] = failed[m] /\ message'[m] = message[m]
    BY <1>1 DEF Execute, TypeInv
  <2>2. \A m \in Node : Done(m) => pc'[m] = pc[m]
    BY <1>1 DEF Execute, TypeInv, Done
  <2> QED BY <1>0, <1>1, <2>1, <2>2 DEF Execute
<1>2. ASSUME NEW n \in Node, WithholdBound(n) PROVE Grow
  <2>1. \A w \in Value : Unlearnable(w) => Unlearnable(w)'
    BY <1>2 DEF Unlearnable, WithholdBound
  <2>2. \A m \in Node : \A q : <<m, q>> \in withheld' \ withheld => pc[m] = "executed"
    BY <1>2 DEF Ref, WithholdBound
  <2> QED BY <1>2, <2>1, <2>2 DEF Grow, WithholdBound
<1>3. ASSUME NEW n \in Node, learnSecretOutputs(n) PROVE Grow
  BY <1>3, LearnGrows DEF learnSecretOutputs
<1>4. ASSUME NEW n \in Node, Skip(n) \/ Load(n) \/ NodeFinished(n) PROVE Grow
  <2>1. \A m \in Node : Done(m) => pc'[m] = pc[m]
    BY <1>4 DEF Skip, Load, NodeFinished, Done, TypeInv
  <2> QED BY <1>0, <1>4, <2>1 DEF Skip, Load, NodeFinished
<1>5. ASSUME FlowFinished \/ UNCHANGED vars PROVE Grow
  BY <1>0, <1>5 DEF FlowFinished, vars
<1> QED BY <1>1, <1>2, <1>3, <1>4, <1>5 DEF Next, Ended


(* What ended stays as it is, and so does what it left.                    *)
LEMMA Stays ==
  ASSUME Grow, TypeInv
  PROVE  /\ \A m \in Node : Shape(m)' = Shape(m)
         /\ \A m \in Node : pc[m] # "waiting" => (HasOutputs(m)' <=> HasOutputs(m))
         /\ \A m \in Node : Done(m) => Done(m)'
         /\ \A r \in RefsTo(setup, Node) : Done(r[1]) => (Available(r)' <=> Available(r))
         /\ \A r \in RefsTo(setup, Node) : Available(r) => Available(r)'
<1>1. \A m \in Node : pc[m] # "waiting" => (HasOutputs(m)' <=> HasOutputs(m))
  BY DEF Grow, HasOutputs
<1>2. \A m \in Node : Done(m) => Done(m)' /\ pc'[m] = pc[m] /\ pc[m] # "waiting"
  BY DEF Grow, Done
<1>3. \A r \in RefsTo(setup, Node) : r[1] \in Node
  BY RefFacts DEF TypeInv
<1>4. ASSUME NEW r \in RefsTo(setup, Node), Done(r[1]) PROVE Available(r)' <=> Available(r)
  BY <1>1, <1>2, <1>3, <1>4 DEF Available
<1>5. \A r : Available(r) => Done(r[1])
  BY DEF Available, Done
<1>6. \A m \in Node : Shape(m)' = Shape(m)
  BY DEF Grow, Shape
<1> QED BY <1>1, <1>2, <1>4, <1>5, <1>6

---------------------------------------------------------------------------
(* The invariant, conjunct by conjunct.                                    *)

(* It holds at the start: nothing is learned, executed or reported.        *)
LEMMA InitRedaction == Init => RedactionInv
<1> SUFFICES ASSUME Init PROVE RedactionInv
  OBVIOUS
<1>1. TypeInv /\ KnownInv
  BY DEF Init, TypeInv, KnownInv
<1>2. OrderInv /\ MessageInv /\ CoverInv
  BY DEF Init, OrderInv, MessageInv, CoverInv, Began
<1>3. CacheInv
  BY DEF Init, CacheInv
<1>4. EventInv /\ FinalInv
  BY DEF Init, EventInv, FinalInv
<1> QED BY <1>1, <1>2, <1>3, <1>4 DEF RedactionInv

(* An error text is made of references to outputs.                         *)
LEMMA ErrorTextRefs ==
  ASSUME TypeInv, NEW n \in Node, NEW f, NEW text \in ErrorText(n, f)
  PROVE  text \subseteq RefsTo(setup, Node)
<1>1. Shape(n).reads \cup Shape(n).echoes \subseteq RefsTo(setup, Node)
  BY ShapeFacts DEF TypeInv
<1>2. \A o \in DOMAIN Shape(n).outputs : Ref(n, o) \in RefsTo(setup, Node)
  BY DEF Ref, RefsTo, Shape
<1>3. \A m \in FailedBody(n) : message[m] \subseteq RefsTo(setup, Node)
  BY ShapeFacts DEF TypeInv, FailedBody
<1> QED BY <1>1, <1>2, <1>3 DEF ErrorText

(* The domains of the state, under every action.                           *)
LEMMA TypeStep == TypeInv /\ [Next]_vars => TypeInv'
<1> SUFFICES ASSUME TypeInv, [Next]_vars PROVE TypeInv'
  OBVIOUS
<1> USE DEF TypeInv
<1>0. ASSUME NEW n \in Node, Execute(n) PROVE TypeInv'
  <2>0. PICK f \in Outcomes(n) : \E text \in ErrorText(n, f) :
          failed' = [failed EXCEPT ![n] = f] /\ message' = [message EXCEPT ![n] = text]
    BY <1>0 DEF Execute
  <2>1. PICK text \in ErrorText(n, f) :
          failed' = [failed EXCEPT ![n] = f] /\ message' = [message EXCEPT ![n] = text]
    BY <2>0
  <2>2. text \subseteq RefsTo(setup, Node)
    BY ErrorTextRefs
  <2>3. UNCHANGED <<setup, current, cache, todo, loaded>> /\ pc' = [pc EXCEPT ![n] = "executed"]
    BY <1>0 DEF Execute
  <2>4. \A m \in Node : message'[m] \subseteq RefsTo(setup, Node)
    BY <2>1, <2>2
  <2> QED BY <2>1, <2>3, <2>4 DEF current
<1>1. ASSUME NEW n \in Node, Skip(n) PROVE TypeInv'
  BY <1>1 DEF Skip, current
<1>2. ASSUME NEW n \in Node, WithholdBound(n) PROVE TypeInv'
  BY <1>2 DEF WithholdBound
<1>3. ASSUME NEW n \in Node, learnSecretOutputs(n) PROVE TypeInv'
  BY <1>3 DEF learnSecretOutputs, LearnOutput, current
<1>4. ASSUME NEW n \in Node, Load(n) \/ NodeFinished(n) PROVE TypeInv'
  BY <1>4 DEF Load, NodeFinished, current
<1>5. ASSUME FlowFinished \/ UNCHANGED vars PROVE TypeInv'
  BY <1>5 DEF FlowFinished, vars, current
<1> QED BY <1>0, <1>1, <1>2, <1>3, <1>4, <1>5 DEF Next, Ended

(* Only LearnOutput makes values known.                                    *)
LEMMA KnownStep == KnownInv /\ [Next]_vars => KnownInv'
<1> SUFFICES ASSUME KnownInv, [Next]_vars PROVE KnownInv'
  OBVIOUS
<1> USE DEF KnownInv
<1>0. ASSUME UNCHANGED <<setup, current>> PROVE KnownInv'
  BY <1>0 DEF current
<1>1. ASSUME NEW n \in Node, WithholdBound(n) PROVE KnownInv'
  BY <1>1 DEF WithholdBound
<1>2. ASSUME NEW n \in Node, learnSecretOutputs(n) PROVE KnownInv'
  BY <1>2 DEF learnSecretOutputs, LearnOutput, current
<1>3. ASSUME NEW n \in Node, Execute(n) \/ Skip(n) \/ Load(n) \/ NodeFinished(n) PROVE KnownInv'
  BY <1>0, <1>3 DEF Execute, Skip, Load, NodeFinished
<1>4. ASSUME FlowFinished \/ UNCHANGED vars PROVE KnownInv'
  BY <1>0, <1>4 DEF FlowFinished, vars
<1> QED BY <1>1, <1>2, <1>3, <1>4 DEF Next, Ended

(* Only Execute lets a node begin.                                         *)
LEMMA BeganChange ==
  ASSUME TypeInv, [Next]_vars, NEW n \in Node, Began(n)'
  PROVE  Execute(n) \/ Began(n)
<1> USE DEF TypeInv, Began
<1>1. ASSUME NEW m \in Node, Execute(m), m # n PROVE Began(n)
  BY <1>1 DEF Execute
<1>2. ASSUME NEW m \in Node, Skip(m) \/ Load(m) \/ NodeFinished(m) PROVE Began(n)
  BY <1>2 DEF Skip, Load, NodeFinished
<1>3. ASSUME NEW m \in Node, WithholdBound(m) \/ learnSecretOutputs(m) PROVE Began(n)
  BY <1>3 DEF WithholdBound, learnSecretOutputs
<1>4. ASSUME FlowFinished \/ UNCHANGED vars PROVE Began(n)
  BY <1>4 DEF FlowFinished, vars
<1> QED BY <1>1, <1>2, <1>3, <1>4 DEF Next, Ended

(* What Execute finds: the nodes upstream ended, what the node reads is    *)
(* there, and what its outputs are bound to if it succeeds.                *)
LEMMA ExecuteFinds ==
  ASSUME TypeInv, NEW n \in Node, Execute(n)
  PROVE  /\ pc[n] = "waiting" /\ pc'[n] = "executed" /\ \A m \in Shape(n).after : Done(m)
         /\ \A r \in Shape(n).reads : Available(r)
         /\ HasOutputs(n)' => BindsAvailable(n)
         /\ \E f \in Outcomes(n) : \E text \in ErrorText(n, f) :
              failed'[n] = f /\ message'[n] = text
<1>1. PICK f \in Outcomes(n) : \E text \in ErrorText(n, f) :
        failed' = [failed EXCEPT ![n] = f] /\ message' = [message EXCEPT ![n] = text]
  BY DEF Execute
<1>2. /\ pc[n] = "waiting" /\ pc' = [pc EXCEPT ![n] = "executed"]
      /\ (\A m \in Shape(n).after : Done(m)) /\ Runs(n)
  BY DEF Execute
<1>3. failed'[n] = f
  BY <1>1 DEF TypeInv
<1>4. ASSUME HasOutputs(n)' PROVE BindsAvailable(n)
  <2>1. f \in {"no", "assertion", "invalid"}
    BY <1>3, <1>4 DEF HasOutputs
  <2>2. CASE Shape(n).body = {}
    BY <2>2, ShapeFacts DEF TypeInv, BindsAvailable
  <2>3. CASE Shape(n).body # {}
    BY <2>1, <2>3 DEF Outcomes
  <2> QED BY <2>2, <2>3
<1> QED BY <1>1, <1>2, <1>3, <1>4 DEF TypeInv, Runs

(* A node starts after its upstream ended, ends with nothing to learn, and *)
(* neither is taken back.                                                  *)
LEMMA OrderStep == TypeInv /\ OrderInv /\ [Next]_vars => OrderInv'
<1> SUFFICES ASSUME TypeInv, OrderInv, [Next]_vars PROVE OrderInv'
  OBVIOUS
<1>1. Grow /\ setup \in Setups
  BY StepGrows DEF TypeInv
<1>2. ASSUME NEW n \in Node, Began(n)' PROVE Ordered(n)'
  <2>0. /\ Shape(n)' = Shape(n) /\ Shape(n).after \subseteq Node
        /\ Shape(n).reads \subseteq RefsTo(setup, Node)
        /\ \A o \in DOMAIN Shape(n).binds : Shape(n).binds[o] \in RefsTo(setup, Node)
    BY <1>1, ShapeFacts, Stays
  <2>1. ASSUME \A m \in Shape(n).after : Done(m), \A r \in Shape(n).reads : Available(r),
               HasOutputs(n)' => BindsAvailable(n)
        PROVE  Ordered(n)'
    <3>1. (\A m \in Shape(n).after : Done(m))'
      BY <1>1, <2>0, <2>1, Stays
    <3>2. (\A r \in Shape(n).reads : Available(r))'
      BY <1>1, <2>0, <2>1, Stays
    <3>3. HasOutputs(n)' => BindsAvailable(n)'
      BY <1>1, <2>0, <2>1, Stays DEF BindsAvailable
    <3> QED BY <3>1, <3>2, <3>3 DEF Ordered
  <2>2. CASE Execute(n)
    BY <2>1, <2>2, ExecuteFinds
  <2>3. CASE Began(n)
    <3>1. Ordered(n) /\ pc[n] # "waiting"
      BY <2>3 DEF OrderInv, Began
    <3>2. HasOutputs(n)' <=> HasOutputs(n)
      BY <1>1, <3>1, Stays
    <3> QED BY <2>1, <3>1, <3>2 DEF Ordered
  <2> QED BY <1>2, <2>2, <2>3, BeganChange
<1>3. ASSUME NEW n \in Node, pc'[n] \in {"reporting", "done"} PROVE todo'[n] = {}
  <2> USE DEF TypeInv, OrderInv
  <2>1. ASSUME NEW m \in Node, Execute(m) \/ Skip(m) PROVE todo'[n] = {}
    BY <1>3, <2>1 DEF Execute, Skip
  <2>2. ASSUME NEW m \in Node, Load(m) \/ NodeFinished(m) PROVE todo'[n] = {}
    BY <1>3, <2>2 DEF Load, NodeFinished
  <2>3. ASSUME NEW m \in Node, WithholdBound(m) \/ learnSecretOutputs(m) PROVE todo'[n] = {}
    BY <1>3, <2>3 DEF WithholdBound, learnSecretOutputs
  <2>4. ASSUME FlowFinished \/ UNCHANGED vars PROVE todo'[n] = {}
    BY <1>3, <2>4 DEF FlowFinished, vars
  <2> QED BY <2>1, <2>2, <2>3, <2>4 DEF Next, Ended
<1> QED BY <1>2, <1>3 DEF OrderInv

(* An error text is about what the node produced, found or echoes; that of *)
(* a failed module is the text of a node of its flow.                      *)
LEMMA MessageStep == TypeInv /\ MessageInv /\ [Next]_vars => MessageInv'
<1> SUFFICES ASSUME TypeInv, MessageInv, [Next]_vars, NEW n \in Node, Began(n)',
                    NEW r \in message'[n]
             PROVE  Carried(n, r)'
  BY DEF MessageInv
<1>1. Grow /\ setup \in Setups /\ setup' = setup /\ Shape(n)' = Shape(n)
  BY StepGrows, Stays DEF TypeInv, Grow
<1>2. TypeInv'
  BY TypeStep
<1>3. r \in RefsTo(setup, Node)
  BY <1>1, <1>2 DEF TypeInv
<1>4. Available(r) => Carried(n, r)'
  BY <1>1, <1>3, Stays DEF Carried
<1>5. r \in Shape(n).echoes => Carried(n, r)'
  BY <1>1 DEF Carried
<1>6. ASSUME NEW o \in DOMAIN Shape(n).outputs \ DOMAIN Shape(n).binds, r = <<n, o>>,
             HasOutputs(n)'
      PROVE  Carried(n, r)'
  BY <1>1, <1>6 DEF Carried
<1>7. CASE Began(n)
  <2>1. pc[n] # "waiting"
    BY <1>7 DEF Began
  <2>2. r \in message[n] /\ (HasOutputs(n)' <=> HasOutputs(n))
    BY <1>1, <2>1, Stays DEF Grow
  <2>3. Carried(n, r)
    BY <1>7, <2>2 DEF MessageInv
  <2> QED BY <1>4, <1>5, <1>6, <2>2, <2>3 DEF Carried
<1>8. CASE Execute(n)
  <2>1. PICK f \in Outcomes(n) : \E text \in ErrorText(n, f) :
               failed'[n] = f /\ message'[n] = text
    BY <1>8, ExecuteFinds
  <2>2. message'[n] \in ErrorText(n, f) /\ failed'[n] = f
    BY <2>1
  <2>3. r \in Shape(n).reads \cup Shape(n).echoes => Carried(n, r)'
    BY <1>4, <1>5, <1>8, ExecuteFinds
  <2>4. CASE f = "assertion"
    <3>1. HasOutputs(n)'
      BY <2>2, <2>4 DEF HasOutputs
    <3>2. \/ r \in Shape(n).reads \cup Shape(n).echoes
          \/ \E o \in DOMAIN Shape(n).outputs \ DOMAIN Shape(n).binds : r = <<n, o>>
      BY <2>2, <2>4 DEF ErrorText, Ref
    <3> QED BY <1>6, <2>3, <3>1, <3>2
  <2>5. CASE f = "child"
    <3>1. PICK m \in FailedBody(n) : message'[n] = message[m]
      BY <2>2, <2>5 DEF ErrorText
    <3>2. m \in Shape(n).body /\ m \in Node /\ pc[m] = "done"
      BY <1>1, ShapeFacts DEF FailedBody
    <3>3. Carried(m, r)
      BY <3>1, <3>2 DEF MessageInv, Began
    <3>4. CASE r \in Shape(m).echoes
      BY <1>1, <1>5, <3>2, <3>4, ShapeFacts
    <3>5. ASSUME NEW o, r = <<m, o>>, HasOutputs(m) PROVE Available(r)
      <4>1. r[1] = m
        BY <3>5
      <4> QED BY <3>2, <3>5, <4>1 DEF Available
    <3> QED BY <1>4, <3>3, <3>4, <3>5 DEF Carried
  <2>6. CASE f \notin {"assertion", "child"}
    <3>1. r \in Shape(n).reads \cup Shape(n).echoes
      BY <2>2, <2>6 DEF ErrorText
    <3> QED BY <2>3, <3>1
  <2> QED BY <2>4, <2>5, <2>6
<1> QED BY <1>7, <1>8, BeganChange

(* An output made known stays covered.                                     *)
LEMMA CoveredStays ==
  ASSUME Grow, TypeInv, NEW n \in Node, NEW o \in Shape(n).secret, Covered(Ref(n, o))
  PROVE  Covered(Ref(n, o))'
<1>1. /\ setup' = setup /\ Shape(n).outputs[o] \in Value
      /\ ValueOf(Ref(n, o)) = Shape(n).outputs[o] /\ ValueOf(Ref(n, o))' = Shape(n).outputs[o]
  BY ShapeFacts DEF Grow, TypeInv, ValueOf, Ref, Shape
<1> QED BY <1>1 DEF Covered, Grow, MaskedByValue, Snapshot, Ref

(* LearnOutput covers the output it is called with: a value already known  *)
(* is masked by value, because secret inputs are text.                     *)
LEMMA LearnCovers ==
  ASSUME TypeInv, KnownInv, NEW n \in Node, NEW o \in Shape(n).secret, LearnOutput(n, o),
         UNCHANGED setup
  PROVE  Covered(Ref(n, o))'
<1> DEFINE v == Shape(n).outputs[o]
<1>1. /\ ValueOf(Ref(n, o))' = v /\ v \in Value
      /\ setup.inputs \subseteq Value \ Numeric
  BY ShapeFacts, SetupAssumption DEF TypeInv, ValueOf, Ref, Shape
<1>2. CASE ~Fresh(v) /\ UNCHANGED current
  BY <1>1, <1>2 DEF Covered, MaskedByValue, Snapshot, Fresh, KnownInv, current
<1>3. CASE Fresh(v) /\ ByValue(v) /\ secrets' = secrets \cup {v} /\ learned' = learned \cup {v}
  BY <1>1, <1>3 DEF Covered, MaskedByValue, Snapshot
<1>4. CASE /\ Fresh(v) /\ ~ByValue(v)
           /\ withheld' = withheld \cup {Ref(n, o)} /\ sealed' = sealed \cup {n}
           /\ UNCHANGED <<known, count>>
  <2>1. v \notin known' /\ (Length[v] < MinLearned \/ count' >= MaxLearned)
    BY <1>1, <1>4, ValueAssumption, LimitAssumption DEF Fresh, ByValue, TypeInv
  <2>2. Ref(n, o)' = Ref(n, o) /\ Ref(n, o)[1] = n
    BY DEF Ref
  <2>3. Ref(n, o) \in withheld' /\ n \in sealed'
    BY <1>4
  <2> HIDE DEF v
  <2> QED BY <1>1, <2>1, <2>2, <2>3 DEF Covered, Unlearnable
<1> QED BY <1>2, <1>3, <1>4 DEF LearnOutput

(* Secrets dealt with stay covered; a name is only withheld by a node at   *)
(* work, which nothing downstream of it has read yet.                      *)
LEMMA CoverStep == RedactionInv /\ [Next]_vars => CoverInv'
<1> SUFFICES ASSUME RedactionInv, [Next]_vars PROVE CoverInv'
  OBVIOUS
<1> USE DEF RedactionInv
<1>1. Grow
  BY StepGrows
<1>2. \A n \in Node : Shape(n)' = Shape(n) /\ Shape(n).secret' = Shape(n).secret
  BY <1>1 DEF Grow, Shape
<1>3. ASSUME NEW n \in Node, NEW o \in Shape(n).secret, o \notin todo'[n]
      PROVE  Covered(Ref(n, o))'
  <2>1. CASE o \notin todo[n]
    BY <1>1, <2>1, CoveredStays DEF CoverInv
  <2>2. CASE o \in todo[n]
    <3>1. PICK m \in Node : learnSecretOutputs(m)
      BY <1>3, <2>2 DEF Next, Execute, Skip, WithholdBound, Load, NodeFinished, FlowFinished,
                        Ended, vars
    <3>2. PICK q : /\ LearnOutput(m, q) /\ todo' = [todo EXCEPT ![m] = @ \ {q}]
                   /\ UNCHANGED setup
      BY <3>1 DEF learnSecretOutputs
    <3>3. m = n /\ q = o
      BY <1>3, <2>2, <3>2 DEF TypeInv
    <3> QED BY <3>2, <3>3, LearnCovers
  <2> QED BY <2>1, <2>2
<1>4. ASSUME NEW n \in Node, pc'[n] \in {"reporting", "done"}, HasOutputs(n)',
             NEW o \in BoundWithheld(n)'
      PROVE  Ref(n, o) \in withheld'
  <2>0. /\ o \in DOMAIN Shape(n).binds /\ Shape(n).binds[o] \in withheld'
        /\ withheld \subseteq withheld'
    BY <1>1, <1>2, <1>4 DEF BoundWithheld, Grow
  <2>1. CASE pc[n] \in {"reporting", "done"}
    <3>1. PICK m \in Shape(n).body : \E q \in DOMAIN Shape(m).outputs : Shape(n).binds[o] = <<m, q>>
      BY <2>0, ShapeFacts DEF TypeInv
    <3>2. m \in Node /\ pc[m] # "executed"
      BY <2>1, ShapeFacts DEF OrderInv, Ordered, Began, Done, TypeInv
    <3>3. Shape(n).binds[o] \in withheld
      BY <1>1, <2>0, <3>1, <3>2 DEF Grow
    <3>4. HasOutputs(n)
      BY <1>1, <1>4, <2>1, Stays
    <3> QED BY <2>0, <2>1, <3>3, <3>4 DEF CoverInv, BoundWithheld
  <2>2. CASE pc[n] \notin {"reporting", "done"}
    <3>1. Load(n)
      <4>1. pc'[n] # pc[n] /\ pc'[n] \notin {"executed", "skipped"} /\ pc[n] # "reporting"
        BY <1>4, <2>2
      <4>2. ASSUME NEW m \in Node, Execute(m) \/ Skip(m) \/ NodeFinished(m) PROVE FALSE
        BY <4>1, <4>2 DEF Execute, Skip, NodeFinished, TypeInv
      <4>3. ASSUME NEW m \in Node, WithholdBound(m) \/ learnSecretOutputs(m) PROVE FALSE
        BY <4>1, <4>3 DEF WithholdBound, learnSecretOutputs
      <4>4. ASSUME NEW m \in Node, Load(m) PROVE m = n
        BY <4>1, <4>4 DEF Load, TypeInv
      <4>5. ASSUME FlowFinished \/ UNCHANGED vars PROVE FALSE
        BY <4>1, <4>5 DEF FlowFinished, vars
      <4> QED BY <4>2, <4>3, <4>4, <4>5 DEF Next, Ended
    <3>2. o \in BoundWithheld(n) /\ HasOutputs(n) /\ withheld' = withheld
      BY <1>4, <2>0, <3>1 DEF Load, BoundWithheld, current, HasOutputs
    <3> QED BY <3>1, <3>2 DEF Load
  <2> QED BY <2>1, <2>2
<1> QED BY <1>2, <1>3, <1>4 DEF CoverInv


(* The result of a node that executed is the same after a step.            *)
LEMMA ResultStays ==
  ASSUME Grow, TypeInv, OrderInv, NEW n \in Node, Began(n)
  PROVE  /\ Result(n)' = Result(n) /\ Outputs(n)' = Outputs(n)
         /\ \A r : IsSecret(r)' <=> IsSecret(r)
         /\ Shape(n)' = Shape(n)
<1>1. setup' = setup /\ message'[n] = message[n] /\ (HasOutputs(n)' <=> HasOutputs(n))
  BY Stays DEF Grow, Began
<1>2. Outputs(n)' = Outputs(n)
  BY <1>1 DEF Outputs, ValueOf, Origin, Shape
<1>3. Message(n)' = Message(n)
  BY <1>1 DEF Message, ValueOf, Origin, Shape
<1>4. ASSUME NEW r \in RefsTo(setup, Shape(n).body) PROVE Available(r)' <=> Available(r)
  <2>1. PICK m \in Shape(n).body : \E o \in DOMAIN Shape(m).outputs : r = <<m, o>>
    BY <1>4, RefsElim
  <2>2. r[1] = m /\ m \in Node /\ Done(m)
    BY <2>1, ShapeFacts DEF TypeInv, OrderInv, Ordered
  <2>3. r \in RefsTo(setup, Node)
    BY <2>1, <2>2 DEF RefsTo, Shape
  <2> QED BY <2>2, <2>3, Stays
<1> DEFINE Child == {r \in RefsTo(setup, Shape(n).body) : Available(r)}
<1>5. Child' = Child
  BY <1>1, <1>4 DEF Shape
<1>6. Shape(n)' = Shape(n) /\ \A r : IsSecret(r)' <=> IsSecret(r)
  BY <1>1 DEF Shape, IsSecret
<1>7. Result(n)' = Result(n)
  BY <1>1, <1>2, <1>3, <1>5 DEF Result, ValueOf, Origin, Shape
<1> QED BY <1>2, <1>6, <1>7

(* A report under way stays hidden by the snapshot it holds.               *)
LEMMA HidesStays ==
  ASSUME Grow, TypeInv, OrderInv, NEW n \in Node, Began(n), loaded'[n] = loaded[n],
         Hides(loaded[n], n)
  PROVE  Hides(loaded[n], n)'
<1>1. \A p \in Result(n) : p.value \in Value
  BY PlaceFacts DEF TypeInv
<1>2. /\ Result(n)' = Result(n) /\ Shape(n)' = Shape(n)
      /\ \A r : IsSecret(r)' <=> IsSecret(r)
  BY ResultStays
<1>3. \A v \in Value : Unlearnable(v) => Unlearnable(v)'
  BY DEF Grow
<1>4. ASSUME NEW p \in Result(n), HiddenBy(loaded[n], n, p) PROVE HiddenBy(loaded[n], n, p)'
  <2>1. p.value \in Value
    BY <1>1
  <2>2. Unlearnable(p.value) => Unlearnable(p.value)'
    BY <1>3, <2>1
  <2> QED BY <1>4, <2>2 DEF HiddenBy, MaskedByValue
<1> QED BY <1>2, <1>4 DEF Hides

(* Where the state of a node's report changes.                             *)
LEMMA ReportChange ==
  ASSUME TypeInv, [Next]_vars, NEW n \in Node
  PROVE  \/ Load(n)
         \/ NodeFinished(n)
         \/ /\ loaded'[n] = loaded[n] /\ cache'[n] = cache[n]
            /\ pc'[n] \in {"reporting", "done"} => pc'[n] = pc[n]
            /\ pc'[n] = "done" <=> pc[n] = "done"
<1> USE DEF TypeInv
<1>1. ASSUME NEW m \in Node, Execute(m) \/ Skip(m)
      PROVE  /\ loaded' = loaded /\ cache' = cache
             /\ pc'[n] \in {"reporting", "done"} => pc'[n] = pc[n]
             /\ pc'[n] = "done" <=> pc[n] = "done"
  BY <1>1 DEF Execute, Skip
<1>2. ASSUME NEW m \in Node, WithholdBound(m) \/ learnSecretOutputs(m)
      PROVE  loaded' = loaded /\ cache' = cache /\ pc' = pc
  BY <1>2 DEF WithholdBound, learnSecretOutputs
<1>3. ASSUME NEW m \in Node, m # n, Load(m) \/ NodeFinished(m)
      PROVE  loaded'[n] = loaded[n] /\ cache'[n] = cache[n] /\ pc'[n] = pc[n]
  BY <1>3 DEF Load, NodeFinished
<1>4. ASSUME FlowFinished \/ UNCHANGED vars
      PROVE  loaded' = loaded /\ cache' = cache /\ pc' = pc
  BY <1>4 DEF FlowFinished, vars
<1> QED BY <1>1, <1>2, <1>3, <1>4 DEF Next, Ended

(* A report is masked with the snapshot its node loaded: nothing was       *)
(* cached for the node before.                                             *)
LEMMA MasksAfresh ==
  ASSUME RedactionInv, NEW n \in Node, pc[n] = "reporting"
  PROVE  maskResult(loaded[n], n) = result(loaded[n], n)
BY DEF RedactionInv, CacheInv, maskResult

(* The cache holds what the current snapshot would show, or belongs to an  *)
(* earlier snapshot.                                                       *)
LEMMA CacheStep == RedactionInv /\ [Next]_vars => CacheInv'
<1> SUFFICES ASSUME RedactionInv, [Next]_vars PROVE CacheInv'
  OBVIOUS
<1>1. Grow /\ TypeInv /\ OrderInv /\ CacheInv
  BY StepGrows DEF RedactionInv
<1>2. gen \in Nat /\ (Snapshot' = Snapshot \/ gen' = gen + 1) /\ Snapshot.gen = gen /\ Snapshot.gen' = gen'
  BY <1>1 DEF Grow, TypeInv, Snapshot
<1>2a. gen' = gen \/ gen' = gen + 1
  <2>1. Snapshot' = Snapshot => Snapshot.gen' = Snapshot.gen
    OBVIOUS
  <2> QED BY <1>2, <2>1
<1> DEFINE Reports(n) == pc[n] = "reporting" =>
             /\ loaded[n].gen \in Nat /\ loaded[n].gen <= gen /\ Hides(loaded[n], n)
             /\ loaded[n].gen = gen => loaded[n] = Snapshot
           Cached(n) == pc[n] = "done" =>
             /\ cache[n].gen \in Nat /\ cache[n].gen <= gen
             /\ cache[n].gen = gen => cache[n].places = result(Snapshot, n)
           Goal(n) == (pc[n] # "done" => cache[n].gen = -1) /\ Reports(n) /\ Cached(n)
<1>3. ASSUME NEW n \in Node PROVE Goal(n)'
  <2>0. Goal(n)
    BY <1>1 DEF CacheInv
  <2>1. CASE Load(n)
    <3>1. /\ pc[n] = "executed" /\ pc'[n] = "reporting" /\ loaded'[n] = Snapshot
          /\ cache' = cache /\ Snapshot' = Snapshot /\ gen' = gen
      BY <1>1, <2>1 DEF Load, TypeInv, current, Snapshot
    <3>2. Dealt(n)
      BY <2>1 DEF Load, Dealt, Began
    <3>3. \A p \in Result(n) : IsSecret(p.origin) /\ p.origin \notin Shape(n).echoes
                                 => HiddenBy(Snapshot, n, p)
      BY <3>2, StateHides DEF Accounted
    <3>4. Hides(loaded[n], n)'
      <4>1. /\ Result(n)' = Result(n) /\ Shape(n)' = Shape(n)
            /\ \A r : IsSecret(r)' <=> IsSecret(r)
        BY <1>1, <3>1, ResultStays DEF Began
      <4>2. \A p \in Result(n) : Unlearnable(p.value)' <=> Unlearnable(p.value)
        BY <2>1 DEF Load, current, Unlearnable
      <4>3. ASSUME NEW p \in Result(n), HiddenBy(Snapshot, n, p) PROVE HiddenBy(loaded[n], n, p)'
        BY <3>1, <4>2, <4>3 DEF HiddenBy, MaskedByValue
      <4> QED BY <3>3, <4>1, <4>3 DEF Hides
    <3> QED BY <1>2, <2>0, <3>1, <3>4
  <2>2. CASE NodeFinished(n)
    <3>1. /\ pc[n] = "reporting" /\ pc'[n] = "done" /\ gen' = gen /\ Snapshot' = Snapshot
          /\ cache'[n] = [gen |-> loaded[n].gen, places |-> maskResult(loaded[n], n)]
      BY <1>1, <2>2 DEF NodeFinished, TypeInv, current, Snapshot
    <3>2. maskResult(loaded[n], n) = result(loaded[n], n)
      BY <3>1, MasksAfresh
    <3>3. result(Snapshot, n)' = result(Snapshot, n)
      BY <1>1, <3>1, ResultStays DEF result, Began
    <3> QED BY <2>0, <3>1, <3>2, <3>3
  <2>3. CASE /\ loaded'[n] = loaded[n] /\ cache'[n] = cache[n]
             /\ pc'[n] \in {"reporting", "done"} => pc'[n] = pc[n]
             /\ pc'[n] = "done" <=> pc[n] = "done"
    <3>1. Reports(n)'
      <4>1. pc[n] = "reporting" => Hides(loaded[n], n)'
        BY <1>1, <2>0, <2>3, HidesStays DEF Began
      <4> QED BY <1>2, <1>2a, <2>0, <2>3, <4>1
    <3>2. Cached(n)'
      <4>1. pc[n] = "done" /\ Snapshot' = Snapshot => result(Snapshot, n)' = result(Snapshot, n)
        BY <1>1, ResultStays DEF result, Began
      <4> QED BY <1>2, <1>2a, <2>0, <2>3, <4>1
    <3> QED BY <2>0, <2>3, <3>1, <3>2
  <2> QED BY <1>1, <2>1, <2>2, <2>3, ReportChange
<1> QED BY <1>3 DEF CacheInv


(* The events sent stay safe: a new one shows a result hidden by its       *)
(* snapshot, and a value an old one shows in the clear is not learned any  *)
(* more.                                                                   *)
LEMMA EventStep == RedactionInv /\ [Next]_vars => EventInv'
<1> SUFFICES ASSUME RedactionInv, [Next]_vars PROVE EventInv'
  OBVIOUS
<1>1. Grow /\ TypeInv /\ EventInv
  BY StepGrows DEF RedactionInv
<1>2. \A r : IsSecret(r)' <=> IsSecret(r)
  BY <1>1 DEF Grow, IsSecret, Shape
<1>3. \A m : Shape(m)' = Shape(m)
  BY <1>1 DEF Grow, Shape
<1>4. ASSUME NEW e, Safe(e) PROVE Safe(e)'
  BY <1>1, <1>4 DEF Safe, Grow
<1>5. \/ events' = events
      \/ \E n \in Node : NodeFinished(n) /\ events' = events \cup maskResult(loaded[n], n)
  BY DEF Next, Execute, Skip, WithholdBound, learnSecretOutputs, Load, NodeFinished, FlowFinished,
         Ended, vars
<1> SUFFICES ASSUME NEW e \in events', IsSecret(e.place.origin),
                    e.place.origin \notin Shape(e.node).echoes
             PROVE  Safe(e)'
  BY <1>2, <1>3 DEF EventInv
<1>6. CASE e \in events
  BY <1>1, <1>4, <1>6 DEF EventInv
<1>7. CASE e \notin events
  <2>1. PICK n \in Node : NodeFinished(n) /\ events' = events \cup maskResult(loaded[n], n)
    BY <1>5, <1>7
  <2>2. pc[n] = "reporting" /\ e \in result(loaded[n], n)
    BY <1>7, <2>1, MasksAfresh DEF NodeFinished
  <2>3. PICK p \in Result(n) :
               e = [node |-> n, place |-> p, shown |-> Shown(loaded[n], n, p, Shape(n).parses)]
    BY <2>2 DEF result
  <2>4. HiddenBy(loaded[n], n, p)
    BY <2>2, <2>3 DEF RedactionInv, CacheInv, Hides
  <2>5. Safe(e)
    BY <1>1, <2>3, <2>4, HiddenIsSafe, PlaceFacts, ShapeFacts DEF TypeInv
  <2> QED BY <1>4, <2>5
<1> QED BY <1>6, <1>7

(* What the flow result shows of one place of a node's result.             *)
LEMMA FinalPlace ==
  ASSUME RedactionInv, \A n \in Node : Done(n), NEW n \in Node, pc[n] = "done",
         NEW p \in Result(n), IsSecret(p.origin),
         NEW e, e.node = n, e.place = p, e.shown = Shown(Snapshot, n, p, Shape(n).parses)
  PROVE  Hidden(e)
<1>0. /\ TypeInv /\ setup \in Setups /\ Shape(n).parses \in BOOLEAN
      /\ learned \subseteq known /\ known \subseteq secrets
  BY ShapeFacts DEF RedactionInv, TypeInv, KnownInv
<1>1. Dealt(n)
  BY DEF RedactionInv, OrderInv, CoverInv, Dealt, Began
<1>2. CASE HiddenBy(Snapshot, n, p)
  <2>1. Safe(e)
    BY <1>0, <1>2, HiddenIsSafe
  <2> QED BY <1>0, <2>1 DEF Safe, Hidden, Unlearnable
<1>3. CASE p.ref = NoRef /\ p.origin \in Shape(n).echoes /\ todo[p.origin[1]] # {}
  <2>1. p.origin[1] # n
    BY <1>1, <1>3 DEF Dealt
  <2>2. p.value \in learned => MaskedByValue(Snapshot, p.value)
    BY <1>0 DEF MaskedByValue, Snapshot
  <2>3. p.value \in learned /\ ~Exponent(p) => e.shown \in {"mask", "dropped"}
    BY <1>0, <2>2, MaskedShown, PlaceFacts
  <2> QED BY <1>3, <2>1, <2>3 DEF Hidden
<1> QED BY <1>1, <1>2, <1>3, StateHides DEF Accounted

(* What it shows of an output of the flow.                                 *)
LEMMA FinalOutput ==
  ASSUME RedactionInv, NEW n \in Node, pc[n] = "done", NEW p \in Outputs(n), IsSecret(p.origin)
  PROVE  Shown(Snapshot, "flow", p, TRUE) \in {"mask", "dropped"}
<1>1. p \in Result(n) /\ p.field = "output"
  BY DEF Result, Outputs, Place
<1>2. Dealt(n)
  BY DEF RedactionInv, OrderInv, CoverInv, Dealt, Began
<1>3. p.value \in Value /\ p.ref # NoRef
  BY <1>1, PlaceFacts DEF RedactionInv, TypeInv
<1>4. HiddenBy(Snapshot, n, p)
  BY <1>1, <1>2, <1>3, StateHides DEF Accounted
<1>5. CASE MaskedByValue(Snapshot, p.value)
  BY <1>1, <1>3, <1>5, MaskedShown DEF Exponent
<1>6. CASE p.ref \in Snapshot.withheld
  BY <1>1, <1>6, NamedShown
<1> QED BY <1>3, <1>4, <1>5, <1>6 DEF HiddenBy

(* What it shows of the error of the flow.                                 *)
LEMMA FinalMessage ==
  ASSUME RedactionInv, NEW n \in Node, NEW p \in Message(n),
         NEW e, e.place = p, e.shown = Shown(Snapshot, "flow", p, TRUE)
  PROVE  Hidden(e)
<1>1. p \in Result(n) /\ p.field = "message" /\ p.ref = NoRef
  BY DEF Result, Message, Place
<1>2. p.value \in Value /\ learned \subseteq secrets
  BY <1>1, PlaceFacts DEF RedactionInv, KnownInv
<1>3. p.value \in learned => MaskedByValue(Snapshot, p.value)
  BY <1>2 DEF MaskedByValue, Snapshot
<1>4. p.value \in learned /\ ~Exponent(p) => e.shown \in {"mask", "dropped"}
  BY <1>2, <1>3, MaskedShown
<1> QED BY <1>1, <1>4 DEF Hidden

(* The flow result is masked with everything the run learned, and nothing  *)
(* is learned afterwards.                                                  *)
LEMMA FinalStep == RedactionInv /\ [Next]_vars => FinalInv'
<1> SUFFICES ASSUME RedactionInv, [Next]_vars, final' # {}
             PROVE  (\A n \in Node : Done(n))' /\ ResultHidesSecrets'
  BY DEF FinalInv
<1>1. CASE FlowFinished
  <2>1. (\A n \in Node : Done(n)) /\ (\A n \in Node : Done(n))'
    BY <1>1 DEF FlowFinished, Done
  <2>2. \A e \in final' : (IsSecret(e.place.origin)' <=> IsSecret(e.place.origin))
                          /\ (Hidden(e)' <=> Hidden(e))
    BY <1>1 DEF FlowFinished, IsSecret, Hidden, Exponent, Shape, current
  <2>3. ASSUME NEW e \in final', IsSecret(e.place.origin) PROVE Hidden(e)
    <3>1. CASE \E n \in Reported : e \in maskResult(Snapshot, n)
      <4>1. PICK n \in Reported : e \in maskResult(Snapshot, n)
        BY <3>1
      <4>2. n \in Node /\ pc[n] = "done"
        BY DEF Reported
      <4>3. maskResult(Snapshot, n) = result(Snapshot, n)
        BY <4>2 DEF maskResult, Snapshot, RedactionInv, CacheInv
      <4>4. PICK p \in Result(n) :
               e = [node |-> n, place |-> p, shown |-> Shown(Snapshot, n, p, Shape(n).parses)]
        BY <4>1, <4>3 DEF result
      <4> QED BY <2>1, <2>3, <4>2, <4>4, FinalPlace
    <3>0. PICK text \in FlowErrors :
            final' = (UNION {maskResult(Snapshot, n) : n \in Reported})
                     \cup {[node |-> "flow", place |-> p, shown |-> Shown(Snapshot, "flow", p, TRUE)] :
                             p \in FinalOutputs \cup text}
      BY <1>1 DEF FlowFinished
    <3>2a. CASE \E p \in text :
                 e = [node |-> "flow", place |-> p, shown |-> Shown(Snapshot, "flow", p, TRUE)]
      <4>1. PICK p \in text :
               e = [node |-> "flow", place |-> p, shown |-> Shown(Snapshot, "flow", p, TRUE)]
        BY <3>2a
      <4>2. PICK n \in Node : p \in Message(n)
        BY <3>0 DEF FlowErrors, Reported
      <4> QED BY <4>1, <4>2, FinalMessage
    <3>2. CASE \E p \in FinalOutputs :
                 e = [node |-> "flow", place |-> p, shown |-> Shown(Snapshot, "flow", p, TRUE)]
      <4>1. PICK p \in FinalOutputs :
               e = [node |-> "flow", place |-> p, shown |-> Shown(Snapshot, "flow", p, TRUE)]
        BY <3>2
      <4>2. PICK n \in Reported : p \in Outputs(n)
        BY DEF FinalOutputs
      <4>3. n \in Node /\ pc[n] = "done"
        BY DEF Reported
      <4>4. Shown(Snapshot, "flow", p, TRUE) \in {"mask", "dropped"}
        BY <2>3, <4>1, <4>2, <4>3, FinalOutput
      <4> QED BY <4>1, <4>4 DEF Hidden
    <3> DEFINE A == UNION {maskResult(Snapshot, n) : n \in Reported}
               B == {[node |-> "flow", place |-> p, shown |-> Shown(Snapshot, "flow", p, TRUE)] :
                       p \in FinalOutputs \cup text}
    <3>3. e \in A \/ e \in B
      <4>1. final' = A \cup B
        BY <3>0
      <4> HIDE DEF A, B
      <4> QED BY <2>3, <4>1
    <3>4. e \in A => \E n \in Reported : e \in maskResult(Snapshot, n)
      OBVIOUS
    <3> QED BY <3>1, <3>2, <3>2a, <3>3, <3>4
  <2> QED BY <2>1, <2>2, <2>3 DEF ResultHidesSecrets
<1>2. CASE ~FlowFinished
  <2>1. final' = final
    BY <1>2 DEF Next, Execute, Skip, WithholdBound, learnSecretOutputs, Load, NodeFinished, Ended, vars
  <2>2. (\A n \in Node : Done(n)) /\ ResultHidesSecrets
    BY <2>1 DEF RedactionInv, FinalInv
  <2>3. UNCHANGED vars
    BY <1>2, <2>2 DEF Next, Execute, Skip, WithholdBound, learnSecretOutputs, Load, NodeFinished,
                      Ended, Done
  <2> QED BY <2>2, <2>3 DEF vars, current, Done, ResultHidesSecrets, IsSecret, Hidden, Shape
<1> QED BY <1>1, <1>2

---------------------------------------------------------------------------
(* The theorems.                                                           *)

(* The redactor, its cache and the reports agree in every reachable state. *)
THEOREM RedactionCorrect == Spec => []RedactionInv
<1>1. Init => RedactionInv
  BY InitRedaction
<1>2. RedactionInv /\ [Next]_vars => RedactionInv'
  BY TypeStep, KnownStep, OrderStep, MessageStep, CoverStep, CacheStep, EventStep, FinalStep DEF RedactionInv
<1> QED BY <1>1, <1>2, PTL DEF Spec

(* No node.finished event shows a secret output of its node, or of a node  *)
(* it reads from, whatever the redactor learns before or after it.         *)
THEOREM SecretEventsSafe == Spec => []EventsHideSecrets
<1>1. RedactionInv => EventsHideSecrets
  BY DEF RedactionInv, EventInv, Safe, Unlearnable, KnownInv, EventsHideSecrets, Hidden
<1> QED BY <1>1, RedactionCorrect, PTL

(* The flow result shows no secret output, not even where a node carried   *)
(* the value before another one made it known.                             *)
THEOREM SecretResultSafe == Spec => []ResultHidesSecrets
<1>1. RedactionInv => ResultHidesSecrets
  BY DEF RedactionInv, FinalInv, ResultHidesSecrets
<1> QED BY <1>1, RedactionCorrect, PTL

=============================================================================
