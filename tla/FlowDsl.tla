-------------------------------- MODULE FlowDsl --------------------------------
(***************************************************************************)
(* The flow-file compiler and decompiler of pkg/flowdsl.  A library of     *)
(* flow files is parsed, its module references are resolved depth first    *)
(* over the files and the poll and loop bodies in them, and every file     *)
(* without an error is lowered to the request the API stores; a stored     *)
(* flow is decompiled to a file again.  The model compiles a library,      *)
(* stores it, decompiles what is stored and compiles that once more.       *)
(*                                                                         *)
(* Abstractions.  A template is the pair <<node, output>> it refers to; a  *)
(* text is a name of which only the class matters (a numeral, a JSONPath   *)
(* with a space, one without a $); a diagnostic is its severity and what   *)
(* it is about.  Description and tags are carried unchanged and left out.  *)
(***************************************************************************)
EXTENDS Integers, Sequences, SequencesExt, FiniteSetsExt, Relation, TLC

CONSTANTS Libraries,  \* the files or the stored flows to begin with
          FlowIds,    \* the texts that are flow ids
          Numerals, Spaced, Bare  \* the classes of texts named above

(* ------------------------- Values and checks ------------------------- *)
(* A value is [t, s]: its type and its text.  A scalar of a file is [s,    *)
(* quoted].                                                                *)
Words == {"true", "false", "null"}
TypeOf(s) == IF s \in Numerals THEN "number"
             ELSE IF s \in {"true", "false"} THEN "bool"
             ELSE IF s = "null" THEN "null" ELSE "text"
quoteString(s) == s = "" \/ s \in Numerals \cup Words
valueNode(v) == [s |-> v.s, quoted |-> v.t = "text" /\ quoteString(v.s)]
decodeAny(y) == [t |-> IF y.quoted THEN "text" ELSE TypeOf(y.s), s |-> y.s]

Operators == {"equals", "contains", "less_than", "not_empty", "empty", "between"}
Valueless == {"not_empty", "empty"}

(* A check is [ext, arg, op, value], its value a sequence of values; a     *)
(* line is [ext, arg, quoted, op, words], written "status: code" if colon. *)
Line(ext, arg, op, words) ==
  [ext |-> ext, arg |-> arg, quoted |-> FALSE, op |-> op, words |-> words,
   colon |-> FALSE]
NoCheck == [ext |-> "none", arg |-> "", op |-> "", value |-> <<>>]
text(s) == [t |-> "text", s |-> s]

(* boundToken keeps a numeral a number.                                    *)
boundToken(w) == [t |-> IF w \in Numerals THEN "number" ELSE "text", s |-> w]

KnownTarget(l) ==
  \/ l.ext = "json_path" /\ l.arg \notin Bare /\ (l.arg \in Spaced => l.quoted)
  \/ l.ext \in {"header", "query_param"} /\ l.arg # ""
  \/ l.ext \in {"body", "status_code"}

parseCheck(l) ==
  IF l.colon
  THEN IF l.words[1] \in Numerals
       THEN [ext |-> "status_code", arg |-> "", op |-> "equals",
             value |-> <<text(l.words[1])>>]
       ELSE NoCheck
  ELSE IF \/ l.op \notin Operators \/ ~KnownTarget(l)
          \/ l.op = "between" /\ Len(l.words) # 2
          \/ l.op \in Valueless /\ l.words # <<>>
          \/ l.op \notin Valueless /\ l.words = <<>>
  THEN NoCheck
  ELSE [ext |-> l.ext, arg |-> l.arg, op |-> l.op,
        value |-> IF l.op = "between"
                  THEN [i \in 1..2 |-> boundToken(l.words[i])]
                  ELSE [i \in DOMAIN l.words |-> text(l.words[i])]]

(* parseExpectNode: the first bad line drops them all.                     *)
parseExpectNode(lines) ==
  LET cs == [i \in DOMAIN lines |-> parseCheck(lines[i])]
  IN IF NoCheck \in Range(cs) THEN [checks |-> <<>>, ok |-> FALSE]
     ELSE [checks |-> cs, ok |-> TRUE]

(* Mutant: a path is written as it is. *)
NeverQuote(arg) == FALSE
quoteTarget(arg) == arg \in Spaced

(* checkLine refuses a check without a usable target or value.             *)
Writable(c) ==
  /\ c.ext \in {"json_path", "header", "query_param"} => c.arg # ""
  /\ c.op = "between" => Len(c.value) = 2
  /\ c.op \in Operators \ (Valueless \cup {"between"}) => Len(c.value) = 1
checkLine(c) ==
  [ext |-> c.ext, arg |-> c.arg, quoted |-> quoteTarget(c.arg), op |-> c.op,
   words |-> IF c.op \in Valueless THEN <<>>
             ELSE [i \in DOMAIN c.value |-> c.value[i].s],
   colon |-> c.ext = "status_code" /\ c.op = "equals" /\ c.value[1].s \in Numerals]
expectNode(cs) == [i \in DOMAIN cs |-> checkLine(cs[i])]

(* ----------------------- Nodes and their fields ----------------------- *)
(* The fields of each kind and how each is read: a number that must be     *)
(* positive or natural, a word that may not be empty, an optional text, a  *)
(* method, a flag, any value, pairs of values, headers.                    *)
Fields ==
  [request |-> [method |-> "method", url |-> "word", headers |-> "headers",
                query |-> "pairs", body |-> "any", timeout_ms |-> "positive"],
   module |-> [inputs |-> "pairs"],
   delay |-> [duration_ms |-> "positive"],
   set |-> [vars |-> "pairs"],
   assert |-> [target |-> "any"],
   branch |-> [target |-> "any"],
   poll |-> [max_attempts |-> "positive", interval_ms |-> "positive",
             timeout_ms |-> "positive"],
   loop |-> [items |-> "any", item_var |-> "text", index_var |-> "text",
             max_iterations |-> "natural", continue_on_error |-> "flag"],
   webhook_wait |-> [timeout_ms |-> "positive", settle_ms |-> "natural"],
   sse |-> [url |-> "word", method |-> "method", headers |-> "headers",
            timeout_ms |-> "positive", max_events |-> "positive",
            completion_event |-> "word", stop_on_assertion_failure |-> "flag"],
   integration |-> [id |-> "word", operation |-> "text", event |-> "text",
                    inputs |-> "pairs", timeout_ms |-> "positive",
                    settle_ms |-> "natural"]]
Kinds == DOMAIN Fields

Required(kind) ==
  CASE kind = "request" -> {"method", "url"}
    [] kind = "delay" -> {"duration_ms"}
    [] kind = "set" -> {"vars"}
    [] kind = "loop" -> {"items"}
    [] kind = "sse" -> {"url"}
    [] kind = "integration" -> {"id"}
    [] OTHER -> {}

Methods == [GET |-> "GET", POST |-> "POST", get |-> "GET", post |-> "POST"]
(* HttpMethod(strings.ToUpper(method)).                                    *)
Upper(method) == IF method \in DOMAIN Methods THEN Methods[method] ELSE method

Decoded(class, v) ==
  CASE class = "any" -> decodeAny(v)
    [] class \in {"pairs", "headers"} -> {[key |-> p.key, val |-> decodeAny(p.val)] : p \in v}
    [] OTHER -> v
Acceptable(class, v) ==
  CASE class = "positive" -> v > 0
    [] class = "natural" -> v >= 0
    [] class = "word" -> v # ""
    [] class = "method" -> v = "" \/ v \in DOMAIN Methods
    [] class = "headers" -> \A p \in v : decodeAny(p.val).t = "text"
    [] OTHER -> TRUE
(* What lower leaves out: nil for empty pairs and for an empty text; the   *)
(* method of a request is written even if it is empty.                     *)
EmptyPairs(class, v) == class \in {"pairs", "headers"} /\ v = {}
Empty(kind, f, v) ==
  LET class == Fields[kind][f]
  IN \/ EmptyPairs(class, v)
     \/ (class = "text" \/ (class = "method" /\ kind # "request")) /\ v = ""

Reading(kind, fs) == [f \in DOMAIN fs \cap DOMAIN Fields[kind] |->
                        Decoded(Fields[kind][f], fs[f])]
Lowered(kind, fs) ==
  [f \in {f \in DOMAIN fs : ~Empty(kind, f, fs[f])} |->
     IF Fields[kind][f] = "method" THEN Upper(fs[f]) ELSE fs[f]]
Rendered(kind, fs) ==
  [f \in DOMAIN fs |->
     CASE Fields[kind][f] = "any" -> valueNode(fs[f])
       [] Fields[kind][f] \in {"pairs", "headers"} ->
            {[key |-> p.key, val |-> valueNode(p.val)] : p \in fs[f]}
       [] OTHER -> fs[f]]

(* A node of a file.  kinds are the kind keys it has, ref a module         *)
(* reference [form, to], outputs its declarations [name, ext, arg, secret, *)
(* short, binding], refs the templates in the texts nodeTexts collects.    *)
NoRef == [form |-> "none", to |-> ""]
NoBody == [steps |-> FALSE, nodes |-> <<>>]
FileNode(id, kind, fields) ==
  [id |-> id, display |-> "", runWhen |-> "", next |-> <<>>, nextSet |-> FALSE,
   fail |-> <<>>, kinds |-> {kind}, fields |-> fields, ref |-> NoRef,
   outputs |-> <<>>, outputsSet |-> FALSE, expect |-> <<>>, expectSet |-> FALSE,
   cases |-> <<>>, default |-> "", groups |-> <<>>, body |-> NoBody, refs |-> {}]

Output(name, ext, arg) ==
  [name |-> name, ext |-> ext, arg |-> arg, secret |-> FALSE, short |-> TRUE,
   binding |-> <<>>]
Binding(name, binding) == [Output(name, "binding", "") EXCEPT !.binding = binding]

Error == "error"
Warning == "warning"
E(what) == {<<Error, what>>}
When(cond, what) == IF cond THEN E(what) ELSE {}

(* ------------------------------- Parsing ------------------------------- *)
validID(id) == id \notin Spaced
outputsAllowed(kind) ==
  kind \in {"request", "module", "assert", "webhook_wait", "sse", "integration"}

(* parseOneOutput: a shorthand, or a mapping, which cannot name the body.  *)
BadOutput(kind, o) ==
  IF kind = "module" THEN o.ext # "binding"
  ELSE \/ o.ext \notin {"json_path", "header", "status_code", "body"}
       \/ o.short /\ o.ext = "json_path" /\ o.arg \in Bare
       \/ o.short /\ o.ext = "header" /\ o.arg = ""
       \/ ~o.short /\ o.ext = "body"
parseOutputs(kind, y) ==
  IF ~y.outputsSet THEN {}
  ELSE IF ~outputsAllowed(kind) THEN E("outputs")
  ELSE UNION {When(~validID(o.name) \/ BadOutput(kind, o), "output") : o \in Range(y.outputs)}

IsEvent(fs) == "event" \in DOMAIN fs /\ fs.event # ""
parseIntegration(fs) ==
  LET operation == "operation" \in DOMAIN fs /\ fs.operation # ""
  IN When(operation = IsEvent(fs), "operation or event")
     \cup When(IsEvent(fs) /\ "inputs" \in DOMAIN fs, "event inputs")
     \cup When(~IsEvent(fs) /\ "settle_ms" \in DOMAIN fs, "unknown field")

(* Fields: unknown ones, missing ones, and values the kind does not take.  *)
parseFields(kind, fs) ==
  When(~(DOMAIN fs \subseteq DOMAIN Fields[kind]), "unknown field")
  \cup When(~(Required(kind) \subseteq DOMAIN fs), "missing field")
  \cup UNION {When(~Acceptable(Fields[kind][f], fs[f]), f) :
                f \in DOMAIN fs \cap DOMAIN Fields[kind]}
  \cup When(kind = "set" /\ "vars" \in DOMAIN fs /\ fs.vars = {}, "vars")
  \cup (IF kind = "integration" THEN parseIntegration(fs) ELSE {})

parseCases(y) ==
  UNION {When(parseCheck(c.when) = NoCheck, "case") \cup When(c.target = "", "case target") :
         c \in Range(y.cases)}
parseBranch(y) == parseCases(y) \cup When(y.cases = <<>> /\ y.default = "", "branch")

(* A group of a webhook wait is [name, min, max, checks], -1 for no bound. *)
parseHookGroups(y) ==
  UNION {When(g.name = "", "group name") \cup When(g.min < -1 \/ g.max < -1, "group bound")
         \cup When(~parseExpectNode(g.checks).ok, "group checks") : g \in Range(y.groups)}

parseKind(kind, y) ==
  parseFields(kind, y.fields)
  \cup (CASE kind = "module" -> When(y.ref.form = "none", "module ref")
          [] kind = "branch" -> parseBranch(y)
          [] kind \in {"poll", "loop"} -> When(y.body = NoBody, "body")
          [] kind = "webhook_wait" \/ (kind = "integration" /\ IsEvent(y.fields)) ->
               parseHookGroups(y)
          [] OTHER -> {})

(* takenKind: exactly one kind key.                                        *)
takenKind(y) == IF Cardinality(y.kinds) = 1 THEN CHOOSE k \in y.kinds : TRUE ELSE "none"

checkIntegrationExpects(kind, fs, checks) ==
  When(kind = "integration" /\ IsEvent(fs) /\ \E c \in Range(checks) : c.ext = "status_code",
       "event status")

(* parseNode: what it says of a node, and the node as the compiler holds   *)
(* it.                                                                     *)
NodeProblems(y) ==
  LET kind == takenKind(y)
      exp  == parseExpectNode(y.expect)
  IN When(~validID(y.id), "id")
     \cup When(\E t \in Range(y.next \o y.fail) : ~validID(t), "edge name")
     \cup When(y.runWhen \notin {"", "on_success", "always"}, "run_when")
     \cup When(~exp.ok, "expect")
     \cup (IF kind = "none" THEN E("kind")
           ELSE parseKind(kind, y) \cup parseOutputs(kind, y)
                \cup checkIntegrationExpects(kind, y.fields, exp.checks)
                \cup When(kind = "assert" /\ ~y.expectSet, "assert"))

parseNode(y) ==
  LET kind == takenKind(y)
  IN [id |-> y.id, display |-> IF y.display = "" THEN y.id ELSE y.display,
      runWhen |-> IF y.runWhen = "always" THEN "always" ELSE "on_success",
      next |-> y.next, nextSet |-> y.nextSet, fail |-> y.fail, kind |-> kind,
      fields |-> IF kind = "none" THEN <<>> ELSE Reading(kind, y.fields),
      ref |-> y.ref, flowID |-> "", explicit |-> y.outputsSet,
      outputs |-> IF y.outputsSet /\ outputsAllowed(kind) THEN y.outputs ELSE <<>>,
      checks |-> parseExpectNode(y.expect).checks,
      cases |-> [i \in DOMAIN y.cases |-> [when |-> parseCheck(y.cases[i].when),
                                          target |-> y.cases[i].target]],
      default |-> y.default,
      groups |-> [i \in DOMAIN y.groups |->
                   [y.groups[i] EXCEPT !.checks = parseExpectNode(y.groups[i].checks).checks]],
      body |-> kind \in {"poll", "loop"} /\ y.body # NoBody, refs |-> y.refs]

(* linkSteps: a step without next leads to the following one; a branch     *)
(* keeps what its author wrote.                                            *)
linkSteps(nodes) ==
  [i \in DOMAIN nodes |->
     IF i = Len(nodes) \/ nodes[i].kind = "branch" \/ nodes[i].nextSet THEN nodes[i]
     ELSE [nodes[i] EXCEPT !.next = <<nodes[i + 1].id>>, !.nextSet = TRUE]]

Ids(nodes) == {nodes[i].id : i \in DOMAIN nodes}

(* The head of a file: name, id, role, folder, inputs, and outputs, the    *)
(* names it makes public; a body has none.                                 *)
readFile(h) ==
  When(h.name = "", "name") \cup When(h.role \notin {"", "standalone", "module"}, "role")
  \cup When(h.id # "" /\ h.id \notin FlowIds, "id")
NoHead == [name |-> "", id |-> "", role |-> "", folder |-> "", version |-> "1.0",
           inputs |-> {}, public |-> [set |-> FALSE, names |-> {}]]

(* parseGraph: one file or body, and every body in it, by address: the     *)
(* number of the file, then that of the node the body belongs to.          *)
injected(y) ==
  IF takenKind(y) # "loop" THEN {}
  ELSE {IF f \in DOMAIN y.fields /\ y.fields[f] # "" THEN y.fields[f]
        ELSE IF f = "item_var" THEN "item" ELSE "index" : f \in {"item_var", "index_var"}}

OneGraph(topology, head, inject, inline) ==
  LET ys    == topology.nodes
      nodes == [i \in DOMAIN ys |-> parseNode(ys[i])]
  IN [inline |-> inline, head |-> head, injected |-> inject, exports |-> {},
      nodes |-> IF topology.steps THEN linkSteps(nodes) ELSE nodes,
      diags |-> UNION {NodeProblems(y) : y \in Range(ys)}
                \cup (IF inline THEN {} ELSE readFile(head))
                \cup When(ys = <<>>, "no nodes")
                \cup When(Cardinality(Ids(nodes)) < Len(nodes), "duplicate id")]

RECURSIVE parseGraph(_, _, _, _, _)
parseGraph(addr, topology, head, inject, inline) ==
  LET ys     == topology.nodes
      bodies == {i \in DOMAIN ys : takenKind(ys[i]) \in {"poll", "loop"} /\ ys[i].body # NoBody}
      Inner[S \in SUBSET bodies] ==
        IF S = {} THEN <<>>
        ELSE LET i == Min(S)
             IN parseGraph(Append(addr, i), ys[i].body, NoHead, injected(ys[i]), TRUE)
                @@ Inner[S \ {i}]
  IN (addr :> OneGraph(topology, head, inject, inline)) @@ Inner[bodies]

(* ------------------------------- Lowering ------------------------------ *)
(* lowerEdges: of each node the next edges, those of a branch and the      *)
(* failure edges, each once.                                               *)
EdgesOf(n) ==
  LET Out(kind, targets) ==
        [i \in DOMAIN targets |-> [source |-> n.id, target |-> targets[i], type |-> kind]]
      routes == [i \in DOMAIN n.cases |-> n.cases[i].target] \o <<n.default>>
  IN SelectSeq(Out("success", n.next) \o Out("success", routes) \o Out("failure", n.fail),
               LAMBDA e : e.target # "")
lowerEdges(nodes) ==
  FoldLeft(LAMBDA es, e : IF e \in Range(es) THEN es ELSE Append(es, e), <<>>,
           FlattenSeq([i \in DOMAIN nodes |-> EdgesOf(nodes[i])]))

canonicalKind(key) == IF key = "set" THEN "set_variable" ELSE key
WireKind(n) ==
  IF n.kind # "integration" THEN canonicalKind(n.kind)
  ELSE IF IsEvent(n.fields) THEN "webhook_wait" ELSE "request"

NoWireBody == [nodes |-> <<>>, edges |-> <<>>]
(* The wire form of a node; an integration is one that launch fills.       *)
lowerNode(n, body) ==
  [id |-> n.id, display |-> n.display, runWhen |-> n.runWhen, kind |-> WireKind(n),
   integration |-> n.kind = "integration", data |-> Lowered(n.kind, n.fields),
   flow |-> n.flowID,
   bindings |-> IF n.kind # "module" THEN {}
                ELSE {[name |-> o.name, binding |-> o.binding] :
                        o \in {o \in Range(n.outputs) : o.binding # <<>>}},
   outputs |-> IF n.kind = "module" THEN <<>>
               ELSE [i \in DOMAIN n.outputs |->
                      [name |-> n.outputs[i].name, ext |-> n.outputs[i].ext,
                       arg |-> n.outputs[i].arg, secret |-> n.outputs[i].secret]],
   checks |-> n.checks, cases |-> n.cases, default |-> n.default,
   groups |-> n.groups, body |-> body, refs |-> n.refs]

RECURSIVE lowerInline(_, _)
lowerInline(gs, addr) ==
  LET nodes == gs[addr].nodes
  IN [nodes |-> [i \in DOMAIN nodes |->
                  lowerNode(nodes[i], IF nodes[i].body THEN lowerInline(gs, Append(addr, i))
                                      ELSE NoWireBody)],
      edges |-> lowerEdges(nodes)]

(* lower: the create request; a folder that is no id stays unset.          *)
lower(gs, addr, path) ==
  LET h == gs[addr].head
  IN [path |-> path, name |-> h.name, role |-> h.role, version |-> h.version,
      folder |-> IF h.folder \in FlowIds THEN h.folder ELSE "", id |-> h.id,
      flow |-> lowerInline(gs, addr)]

(* ------------------------------ Decompiling ---------------------------- *)
FileKind(w) ==
  IF w.integration THEN "integration" ELSE IF w.kind = "set_variable" THEN "set" ELSE w.kind

(* What oneNode refuses: outputs that do not belong to the kind, a body    *)
(* that is secret, set outputs that are not its variables, an empty body.  *)
Renderable(w) ==
  /\ \A c \in Range(w.checks) : Writable(c)
  /\ \A c \in Range(w.cases) : Writable(c.when)
  /\ \A g \in Range(w.groups) : \A c \in Range(g.checks) : Writable(c)
  /\ w.kind = "module" => w.outputs = <<>>
  /\ w.kind = "set_variable" =>
       /\ w.data.vars # {}
       /\ w.outputs = <<>> \/ {o.name : o \in Range(w.outputs)} = {p.key : p \in w.data.vars}
  /\ w.kind \notin {"module", "set_variable"} /\ w.outputs # <<>> =>
       /\ outputsAllowed(w.kind)
       /\ \A o \in Range(w.outputs) :
            /\ o.ext \in {"json_path", "header"} => o.arg # ""
            /\ o.ext = "body" => ~o.secret
  /\ w.kind \in {"poll", "loop"} => w.body.nodes # <<>>
  /\ w.integration =>
       IF w.kind = "request" THEN ~IsEvent(w.data)
       ELSE \A f \in {"operation", "inputs"} \cap DOMAIN w.data :
              Empty("integration", f, w.data[f])

edgeNames(id, edges, type) ==
  LET own == SelectSeq(edges, LAMBDA e : e.source = id /\ e.type = type)
  IN [i \in DOMAIN own |-> own[i].target]

(* oneOutput: the shorthand unless it is secret or its path lacks the $.   *)
oneOutput(o) ==
  [Output(o.name, o.ext, o.arg) EXCEPT
     !.secret = o.secret, !.short = ~o.secret /\ ~(o.ext = "json_path" /\ o.arg \in Bare)]

(* addKind: the fields that have a value; of an integration request not    *)
(* the method and the url.                                                 *)
addKind(w) ==
  LET keep == {f \in DOMAIN w.data : f \in DOMAIN Fields[FileKind(w)]
                 /\ ~(Fields[FileKind(w)][f] = "headers" /\ w.data[f] = {})
                 /\ ~(FileKind(w) \in {"module", "integration"} /\ f = "inputs" /\ w.data[f] = {})}
  IN Rendered(FileKind(w), [f \in keep |-> w.data[f]])

oneNode(w, edges, body) ==
  LET next    == edgeNames(w.id, edges, "success")
      outputs == IF w.kind = "module"
                 THEN [i \in DOMAIN SetToSeq(w.bindings) |->
                        Binding(SetToSeq(w.bindings)[i].name, SetToSeq(w.bindings)[i].binding)]
                 ELSE IF w.kind = "set_variable" THEN <<>>
                 ELSE [i \in DOMAIN w.outputs |-> oneOutput(w.outputs[i])]
  IN [FileNode(w.id, FileKind(w), addKind(w)) EXCEPT
        !.display = IF w.display = w.id THEN "" ELSE w.display,
        !.runWhen = IF w.runWhen = "on_success" THEN "" ELSE w.runWhen,
        !.next = next, !.nextSet = next # <<>>,
        !.fail = edgeNames(w.id, edges, "failure"),
        !.ref = IF w.kind = "module" THEN [form |-> "uuid", to |-> w.flow] ELSE NoRef,
        !.outputs = outputs, !.outputsSet = outputs # <<>>,
        !.expect = expectNode(w.checks), !.expectSet = w.checks # <<>>,
        !.cases = [i \in DOMAIN w.cases |-> [when |-> checkLine(w.cases[i].when),
                                            target |-> w.cases[i].target]],
        !.default = w.default,
        !.groups = [i \in DOMAIN w.groups |->
                     [w.groups[i] EXCEPT !.checks = expectNode(w.groups[i].checks)]],
        !.body = body, !.refs = w.refs]

RECURSIVE inlineBody(_), CanRender(_)
inlineBody(def) ==
  [steps |-> FALSE,
   nodes |-> [i \in DOMAIN def.nodes |->
               oneNode(def.nodes[i], def.edges,
                       IF def.nodes[i].body = NoWireBody THEN NoBody
                       ELSE inlineBody(def.nodes[i].body))]]
CanRender(def) ==
  /\ def.nodes # <<>>
  /\ \A w \in Range(def.nodes) :
        Renderable(w) /\ (w.body # NoWireBody => CanRender(w.body))

flowFile(s) ==
  [path |-> s.path,
   head |-> [NoHead EXCEPT !.name = s.name, !.id = s.id, !.role = s.role, !.folder = s.folder,
                           !.version = IF s.version = "" THEN "1.0" ELSE s.version],
   topology |-> inlineBody(s.flow)]

(* ------------------------------ Resolving ------------------------------ *)
addWebhookOutputs == {"id", "method", "headers", "query", "body", "received_at"}
Declared(n) == {o.name : o \in Range(n.outputs)}
VarNames(n) == IF "vars" \in DOMAIN n.fields THEN {p.key : p \in n.fields.vars} ELSE {}
(* What a node publishes, as far as the compiler knows; an operation of an *)
(* integration is not checked.                                             *)
Unchecked(n) == n.kind = "integration" /\ ~IsEvent(n.fields)
declaredOutputs(n) ==
  CASE n.kind = "set" -> VarNames(n)
    [] n.kind = "branch" -> {"matched", "matchedIndex"}
    [] n.kind = "poll" -> {"attempts", "result"}
    [] n.kind = "loop" -> {"results", "count"}
    [] n.kind = "delay" -> {}
    [] n.kind = "sse" -> {"events", "count", "last"} \cup Declared(n)
    [] n.kind \in {"webhook_wait", "integration"} -> addWebhookOutputs \cup Declared(n)
    [] OTHER -> Declared(n)

lintEdges(g) ==
  UNION {When(\E t \in Range(n.next \o n.fail) \cup {c.target : c \in Range(n.cases)} \cup {n.default} :
                t # "" /\ t \notin Ids(g.nodes), "unknown target") : n \in Range(g.nodes)}

(* lintRefs: a template names a node of this graph and an output of it, or *)
(* a variable of the loop, or the webhook of the job.                      *)
GoodRef(g, ref) ==
  \/ ref[1] \in g.injected /\ ref[1] \notin Ids(g.nodes)
  \/ ref[1] = "webhook" /\ "webhook" \notin Ids(g.nodes) /\ ref[2] \in {"url", "requests_url"}
  \/ \E n \in Range(g.nodes) : n.id = ref[1] /\ (Unchecked(n) \/ ref[2] \in declaredOutputs(n))
lintRefs(g) ==
  When(\E n \in Range(g.nodes) : \E ref \in n.refs : ~GoodRef(g, ref), "unknown reference")

lintFailure(g) ==
  IF \E n, d \in Range(g.nodes) : d.id \in Range(n.fail) /\ d.runWhen # "always"
  THEN {<<Warning, "on_failure">>} ELSE {}
warnFolder(g) ==
  IF ~g.inline /\ g.head.folder # "" /\ g.head.folder \notin FlowIds
  THEN {<<Warning, "folder">>} ELSE {}

nodeExports(n) ==
  (IF n.kind \in {"request", "sse", "assert", "webhook_wait", "module", "integration"}
   THEN Declared(n) ELSE VarNames(n)) \X {n.id}

(* fillExports: a name one node publishes; with outputs in the head, only  *)
(* those, each of which must exist.                                        *)
fillExports(g) ==
  LET found    == UNION {nodeExports(n) : n \in Range(g.nodes)}
      Sole(x)  == \A a, b \in found : a[1] = x /\ b[1] = x => a = b
      exports  == {[name |-> e[1], binding |-> <<e[2], e[1]>>] : e \in {e \in found : Sole(e[1])}}
      public   == g.head.public
      Contract(x) == IF public.names # {} THEN x \in public.names ELSE g.head.role = "module"
  IN [exports |-> IF public.set THEN {e \in exports : e.name \in public.names} ELSE exports,
      diags |-> (IF \E e \in found : ~Sole(e[1]) /\ Contract(e[1])
                 THEN {<<Warning, "repeated output">>} ELSE {})
                \cup When(public.set /\ \E x \in public.names : \A e \in found : e[1] # x,
                          "public output")]

checkBindingShape(n) ==
  When(\E o \in Range(n.outputs) : o.binding # <<>> /\ Len(o.binding) # 2, "binding shape")
checkInputs(n, dep) ==
  LET given == IF "inputs" \in DOMAIN n.fields THEN {p.key : p \in n.fields.inputs} ELSE {}
  IN When(dep.head.inputs # {} /\ given # dep.head.inputs, "module inputs")

Inferred(dep) ==
  LET es == SetToSeq(dep.exports) IN [i \in DOMAIN es |-> Binding(es[i].name, es[i].binding)]
(* Mutant: explicit outputs are taken as they are. *)
FillUnchecked(n, dep) ==
  [outputs |-> IF n.explicit THEN n.outputs ELSE Inferred(dep), diags |-> checkBindingShape(n)]
(* fillBindings: explicit outputs must be exports of the module; without   *)
(* any, the node has them all.                                             *)
fillBindings(n, dep) ==
  [outputs |-> IF n.explicit THEN n.outputs ELSE Inferred(dep),
   diags |-> checkBindingShape(n)
             \cup When(\E o \in Range(n.outputs) : Len(o.binding) = 2
                         /\ \A e \in dep.exports : e.binding # o.binding, "undeclared binding")]

VARIABLES
  files,   \* the flow files to compile, in the order of their paths
  target,  \* the path CompileFile is asked for; "" for CompileDir
  stored,  \* the flows the API holds: [flow, given], given if not compiled here
  graphs,  \* every file and body by address
  mark,    \* the resolver's state of each path
  stack,   \* the visits under way: the graph, its next node, what is next
  at,      \* the file or flow the loop of this phase is at
  out,     \* the Outcome
  round,   \* 1, then 2 for what was decompiled
  phase

vars == <<files, target, stored, graphs, mark, stack, at, out, round, phase>>

Fresh == 0
Visit == 1
Done == 2
NoOutcome == [flows |-> {}, diags |-> {}]
NoGraphs == [a \in {} |-> 0]

Init ==
  \E lib \in Libraries :
    /\ files = lib.files /\ target = lib.target
    /\ stored = lib.stored /\ round = IF lib.files = <<>> THEN 2 ELSE 1
    /\ phase = IF lib.files = <<>> THEN "decompile" ELSE "parse"
    /\ graphs = NoGraphs /\ mark = NoGraphs /\ stack = <<>> /\ at = 1 /\ out = NoOutcome

Paths == {files[i].path : i \in DOMAIN files}
(* by: the first file of a path.                                           *)
by(path) == Min({i \in DOMAIN files : files[i].path = path})
PathOf(addr) == files[addr[1]].path

(* loadFlowFiles: one file is read and parsed; a second file of one path   *)
(* is an error of both.                                                    *)
ParseFile ==
  /\ phase = "parse" /\ at <= Len(files)
  /\ LET f    == files[at]
         head == [f.head EXCEPT !.version = IF @ = "" THEN "1.0" ELSE @]
         twins == {i \in 1..at - 1 : files[i].path = f.path}
         new  == parseGraph(<<at>>, f.topology, head, {}, FALSE) @@ graphs
         bad  == IF twins = {} THEN {} ELSE {<<at>>, <<Max(twins)>>}
     IN graphs' = [a \in DOMAIN new |->
                     IF a \in bad THEN [new[a] EXCEPT !.diags = @ \cup E("module path")] ELSE new[a]]
  /\ at' = IF at = Len(files) THEN 1 ELSE at + 1
  /\ phase' = IF at = Len(files) THEN "resolve" ELSE "parse"
  /\ mark' = IF at = Len(files) THEN [p \in Paths |-> Fresh] ELSE mark
  /\ UNCHANGED <<files, target, stored, stack, out, round>>

Frame(addr) == [addr |-> addr, i |-> 1, step |-> "bind"]
TopFrame == stack[Len(stack)]
Here == graphs[TopFrame.addr]
ThisNode == Here.nodes[TopFrame.i]
Diagnose(gs, addr, ds) == [gs EXCEPT ![addr].diags = @ \cup ds]
Advance(step) ==
  stack' = [stack EXCEPT ![Len(stack)].step = step,
                         ![Len(stack)].i = IF step = "bind" THEN @ + 1 ELSE @]

(* resolveAll: the next file is visited unless it was from another one.    *)
VisitFile ==
  /\ phase = "resolve" /\ stack = <<>>
  /\ IF at > Len(files)
     THEN /\ phase' = "lower" /\ at' = 1
          /\ UNCHANGED <<graphs, mark, stack>>
     ELSE /\ at' = at + 1 /\ UNCHANGED phase
          /\ IF mark[files[at].path] = Fresh
             THEN /\ mark' = [mark EXCEPT ![files[at].path] = Visit]
                  /\ stack' = <<Frame(<<at>>)>>
                  /\ graphs' = Diagnose(graphs, <<at>>, warnFolder(graphs[<<at>>]))
             ELSE UNCHANGED <<graphs, mark, stack>>
  /\ UNCHANGED <<files, target, stored, out, round>>

Resolving == phase = "resolve" /\ stack # <<>>
AtNode == Resolving /\ TopFrame.step = "bind" /\ TopFrame.i <= Len(Here.nodes)
InLibrary == ThisNode.kind = "module" /\ ThisNode.ref.form = "path"

(* bindModule of a reference that needs no other file.                     *)
BindNothing ==
  /\ AtNode /\ ~InLibrary
  /\ LET n == ThisNode
         a == TopFrame.addr
     IN graphs' =
          IF n.kind # "module" THEN graphs
          ELSE IF n.ref.form = "uuid"
          THEN Diagnose([graphs EXCEPT ![a].nodes[TopFrame.i].flowID = n.ref.to], a,
                        checkBindingShape(n))
          ELSE Diagnose(graphs, a, E("outside the library"))
  /\ Advance("body")
  /\ UNCHANGED <<files, target, stored, mark, at, out, round, phase>>

(* Mutant: a file under way is taken for a resolved one. *)
NeverCyclic(path) == FALSE
Cyclic(path) == path \in Paths /\ mark[path] = Visit

(* bindModule: a reference back into a visit under way is a module cycle.  *)
BindCycle ==
  /\ AtNode /\ InLibrary /\ Cyclic(ThisNode.ref.to)
  /\ graphs' = Diagnose(graphs, TopFrame.addr, E("module cycle"))
  /\ Advance("body")
  /\ UNCHANGED <<files, target, stored, mark, at, out, round, phase>>

BindMissing ==
  /\ AtNode /\ InLibrary /\ ThisNode.ref.to \notin Paths
  /\ graphs' = Diagnose(graphs, TopFrame.addr, E("no such module"))
  /\ Advance("body")
  /\ UNCHANGED <<files, target, stored, mark, at, out, round, phase>>

(* bindModule: a fresh module is visited first.                            *)
VisitModule ==
  /\ AtNode /\ InLibrary /\ ThisNode.ref.to \in Paths
  /\ mark[ThisNode.ref.to] = Fresh
  /\ LET dep == <<by(ThisNode.ref.to)>>
     IN /\ mark' = [mark EXCEPT ![ThisNode.ref.to] = Visit]
        /\ stack' = Append(stack, Frame(dep))
        /\ graphs' = Diagnose(graphs, dep, warnFolder(graphs[dep]))
  /\ UNCHANGED <<files, target, stored, at, out, round, phase>>

(* bindModule of a resolved module: its id, its inputs, its outputs.       *)
BindModule ==
  /\ AtNode /\ InLibrary /\ ThisNode.ref.to \in Paths /\ ~Cyclic(ThisNode.ref.to)
  /\ mark[ThisNode.ref.to] # Fresh
  /\ LET n    == ThisNode
         a    == TopFrame.addr
         dep  == graphs[<<by(n.ref.to)>>]
         fill == fillBindings(n, dep)
     IN graphs' =
          IF dep.head.id \notin FlowIds THEN Diagnose(graphs, a, E("module id"))
          ELSE Diagnose([graphs EXCEPT ![a].nodes[TopFrame.i].flowID = dep.head.id,
                                       ![a].nodes[TopFrame.i].outputs = fill.outputs],
                        a, checkInputs(n, dep) \cup fill.diags)
  /\ Advance("body")
  /\ UNCHANGED <<files, target, stored, mark, at, out, round, phase>>

(* visitBody: a poll or loop body is resolved in the same way.             *)
VisitBody ==
  /\ Resolving /\ TopFrame.step = "body"
  /\ LET next == [stack EXCEPT ![Len(stack)].step = "bind", ![Len(stack)].i = @ + 1]
     IN stack' = IF ThisNode.body THEN Append(next, Frame(Append(TopFrame.addr, TopFrame.i)))
                 ELSE next
  /\ UNCHANGED <<files, target, stored, graphs, mark, at, out, round, phase>>

(* finish: the lints and the exports once every node is bound.             *)
FinishVisit ==
  /\ Resolving /\ TopFrame.step = "bind" /\ TopFrame.i > Len(Here.nodes)
  /\ LET a == TopFrame.addr
         x == fillExports(Here)
     IN /\ graphs' = Diagnose([graphs EXCEPT ![a].exports = x.exports], a,
                     lintEdges(Here) \cup lintRefs(Here) \cup lintFailure(Here) \cup x.diags)
        /\ mark' = IF Here.inline THEN mark ELSE [mark EXCEPT ![PathOf(a)] = Done]
  /\ stack' = Front(stack)
  /\ UNCHANGED <<files, target, stored, at, out, round, phase>>

(* collect: the diagnostics of a file with those of its bodies.            *)
collect(i) == UNION {graphs[a].diags : a \in {a \in DOMAIN graphs : a[1] = i}}
hasError(i) == \E d \in collect(i) : d[1] = Error
(* lower fails on a module without a flow id or a node without a body.     *)
Lowers(i) ==
  \A a \in DOMAIN graphs : a[1] = i =>
    \A n \in Range(graphs[a].nodes) : /\ n.kind = "module" => n.flowID \in FlowIds
                                      /\ n.kind \in {"poll", "loop"} => n.body

(* compileGraphs: a file without an error becomes a flow.                  *)
LowerFile ==
  /\ phase = "lower" /\ at <= Len(files)
  /\ LET here == {<<files[at].path>> \o d : d \in collect(at)}
     IN out' = IF hasError(at) THEN [out EXCEPT !.diags = @ \cup here]
               ELSE IF ~Lowers(at)
               THEN [out EXCEPT !.diags = @ \cup here \cup {<<files[at].path, Error, "lower">>}]
               ELSE [flows |-> out.flows \cup {lower(graphs, <<at>>, files[at].path)},
                     diags |-> out.diags \cup here]
  /\ at' = at + 1
  /\ UNCHANGED <<files, target, stored, graphs, mark, stack, round, phase>>

(* moduleRefs and reachable: the files a file leads to, through bodies too.*)
moduleRefs(i) ==
  {n.ref.to : n \in {n \in UNION {Range(graphs[a].nodes) : a \in {a \in DOMAIN graphs : a[1] = i}} :
                       n.kind = "module" /\ n.ref.form = "path"}}
Leads == TransitiveClosure([p, q \in Paths |-> q \in moduleRefs(by(p))], Paths)
reachable(path) == {path} \cup {q \in Paths : Leads[path, q]}

(* filterPaths: CompileFile leaves out what its file does not reach.       *)
FilterPaths ==
  /\ phase = "lower" /\ at > Len(files)
  /\ LET keep == IF target = "" THEN Paths ELSE reachable(target)
     IN out' = [flows |-> {f \in out.flows : f.path \in keep},
                diags |-> {d \in out.diags : d[1] \in keep}]
  /\ phase' = "compiled" /\ at' = 1
  /\ UNCHANGED <<files, target, stored, graphs, mark, stack, round>>

(* FillIntegrations: an operation gets its method and url; one the         *)
(* integration does not know is refused, and with it the flow.             *)
RECURSIVE Fill(_), Refused(_)
Fill(def) ==
  [def EXCEPT !.nodes =
     [i \in DOMAIN @ |->
       IF @[i].integration /\ @[i].kind = "request"
       THEN [@[i] EXCEPT !.data = [method |-> "POST", url |-> "launch"] @@ @]
       ELSE IF @[i].body # NoWireBody THEN [@[i] EXCEPT !.body = Fill(@)] ELSE @[i]]]
Refused(def) ==
  \E w \in Range(def.nodes) : \/ (w.integration /\ w.data.id = "unknown")
                             \/ (w.body # NoWireBody /\ Refused(w.body))

(* The API stores the flows; of the first round they are decompiled.       *)
Store ==
  /\ phase = "compiled"
  /\ IF round = 1
     THEN /\ stored' = {[flow |-> [f EXCEPT !.flow = Fill(@)], given |-> FALSE] :
                          f \in {f \in out.flows : ~Refused(f.flow)}}
          /\ phase' = "decompile" /\ round' = 2
          /\ files' = <<>> /\ target' = "" /\ out' = NoOutcome
          /\ graphs' = NoGraphs /\ mark' = NoGraphs
     ELSE /\ phase' = "done"
          /\ UNCHANGED <<stored, round, files, target, out, graphs, mark>>
  /\ UNCHANGED <<stack, at>>

(* Decompile every stored flow, one after the other; one it refuses is     *)
(* left out.                                                               *)
Waiting == {s \in stored : s.flow.path \notin Paths /\ CanRender(s.flow.flow)}
DecompileFlow ==
  /\ phase = "decompile" /\ Waiting # {}
  /\ \E s \in Waiting : files' = Append(files, flowFile(s.flow))
  /\ UNCHANGED <<target, stored, graphs, mark, stack, at, out, round, phase>>
CompileAgain ==
  /\ phase = "decompile" /\ Waiting = {}
  /\ phase' = IF files = <<>> THEN "done" ELSE "parse"
  /\ UNCHANGED <<files, target, stored, graphs, mark, stack, at, out, round>>

Finished == phase = "done" /\ UNCHANGED vars

Next ==
  \/ ParseFile \/ VisitFile \/ BindNothing \/ BindCycle \/ BindMissing \/ VisitModule
  \/ BindModule \/ VisitBody \/ FinishVisit \/ LowerFile \/ FilterPaths \/ Store
  \/ DecompileFlow \/ CompileAgain \/ Finished

Spec == Init /\ [][Next]_vars

(* ------------------------------ Properties ----------------------------- *)
(* What the files say, read without the compiler.                          *)
RECURSIVE RefsIn(_)
RefsIn(topology) ==
  UNION {(IF y.kinds = {"module"} /\ y.ref.form = "path" THEN {y.ref.to} ELSE {})
         \cup (IF y.body = NoBody THEN {} ELSE RefsIn(y.body)) : y \in Range(topology.nodes)}
Includes == TransitiveClosure([p, q \in Paths |-> q \in RefsIn(files[by(p)].topology)], Paths)
Asked == {p \in Paths : target \in {"", p} \/ Includes[target, p]}
Reported(p) == \E d \in out.diags : d[1] = p /\ d[2] = Error

(* Every cycle of module references among the files a compile is asked for *)
(* is reported: one of its files has an error and does not compile.  The   *)
(* resolver sees a cycle only as a reference to a file under way, from     *)
(* whichever file it happens to reach first, bodies of polls and loops     *)
(* included, and CompileFile drops the diagnostics of files it thinks are  *)
(* not reached (resolve.go bindModule, compile.go reachable).              *)
CyclesReported ==
  phase = "compiled" =>
    \A p \in Asked : Includes[p, p] =>
      \E q \in Paths : /\ Includes[p, q] /\ Includes[q, p]
                       /\ Reported(q) /\ \A f \in out.flows : f.path # q

(* Whether an output a compiled node refers to is one some node publishes, *)
(* followed through the bindings of modules into their files.              *)
RECURSIVE Traces(_, _, _, _)
Traces(addr, id, o, seen) ==
  \E n \in Range(graphs[addr].nodes) :
    /\ n.id = id
    /\ IF n.kind # "module" THEN Unchecked(n) \/ o \in declaredOutputs(n)
       ELSE \E d \in Range(n.outputs) :
              /\ d.name = o
              /\ \/ n.ref.form = "uuid"
                 \/ LET dep == by(n.ref.to)
                    IN \/ hasError(dep)
                       \/ dep \notin seen
                          /\ Traces(<<dep>>, d.binding[1], d.binding[2], seen \cup {dep})

(* Every template of a compiled flow, and every output of its module       *)
(* nodes, leads to an output that a node really publishes, through any     *)
(* number of modules, unless a file on the way has an error of its own     *)
(* (resolve.go fillBindings, fillExports and lintRefs, which each look at  *)
(* one file and rely on the order files are resolved in).                  *)
OutputsTrace ==
  phase = "compiled" =>
    \A f \in out.flows : \A a \in DOMAIN graphs : a[1] = by(f.path) =>
      \A n \in Range(graphs[a].nodes) :
        /\ \A ref \in n.refs :
             ref[1] \in Ids(graphs[a].nodes) => Traces(a, ref[1], ref[2], {a[1]})
        /\ n.kind = "module" =>
             \A d \in Range(n.outputs) : Traces(a, n.id, d.name, {a[1]})

(* A check as the file form holds it: its values are text, except that a   *)
(* bound which is a numeral is a number.                                   *)
Reread(c) ==
  [c EXCEPT !.value = IF c.op \in Valueless THEN <<>>
                      ELSE [i \in DOMAIN @ |-> IF c.op = "between" THEN boundToken(@[i].s)
                                               ELSE text(@[i].s)]]

(* A stored flow up to the differences the repository's own round-trip     *)
(* test leaves out (roundtrip_test.go, normalizeNode): empty pairs, the    *)
(* outputs of a set node, which are its variables, the order of the edges, *)
(* an empty value of an operator without one, and the type of the value of *)
(* a text operator, which the runner compares as text.                     *)
textOperators == {"equals", "contains"}
PlainCheck(c) ==
  IF c.op \in textOperators \/ (c.op \in Valueless /\ c.value = <<text("")>>)
  THEN Reread(c) ELSE c
PlainChecks(cs) == [j \in DOMAIN cs |-> PlainCheck(cs[j])]
RECURSIVE Plain(_)
Plain(def) ==
  [edges |-> Range(def.edges),
   nodes |-> [i \in DOMAIN def.nodes |->
     LET w     == def.nodes[i]
         class == Fields[FileKind(w)]
     IN [w EXCEPT !.data = [f \in {f \in DOMAIN @ \cap DOMAIN class : ~EmptyPairs(class[f], @[f])} |-> @[f]],
                  !.outputs = IF w.kind = "set_variable" THEN <<>> ELSE @,
                  !.checks = PlainChecks(@),
                  !.groups = [j \in DOMAIN @ |-> [@[j] EXCEPT !.checks = PlainChecks(@)]],
                  !.body = IF @ = NoWireBody THEN [edges |-> {}, nodes |-> <<>>] ELSE Plain(@)]]]

(* The flow with the values of its checks typed as a file types them: a    *)
(* bound that is a numeral is a number, every other value is text.  The    *)
(* API accepts other types there too; a file has no way to write them.     *)
RereadAll(cs) == [j \in DOMAIN cs |-> Reread(cs[j])]
RECURSIVE FileTyped(_)
FileTyped(def) ==
  [def EXCEPT !.nodes = [i \in DOMAIN @ |->
     [@[i] EXCEPT !.checks = RereadAll(@),
                  !.groups = [j \in DOMAIN @ |-> [@[j] EXCEPT !.checks = RereadAll(@)]],
                  !.cases = [j \in DOMAIN @ |-> [@[j] EXCEPT !.when = Reread(@)]],
                  !.body = IF @ = NoWireBody THEN @ ELSE FileTyped(@)]]]

(* Decompiling a stored flow and compiling the file gives the flow back:   *)
(* exactly, if the flow was compiled from a file; if it came from          *)
(* elsewhere and Decompile writes it, up to what the round-trip test       *)
(* leaves out, with the values of its checks in the file's types.  A flow  *)
(* with a text bound "5" or a number given to less_than is thus not given  *)
(* back as it was, but nothing else of it changes (decompile.go, lower.go).*)
RoundTrip ==
  phase = "done" =>
    \A s \in stored :
      IF s.given
      THEN CanRender(s.flow.flow) =>
             \E f \in out.flows :
               [f EXCEPT !.flow = Plain(@)] = [s.flow EXCEPT !.flow = Plain(FileTyped(@))]
      ELSE \E f \in out.flows : [f EXCEPT !.flow = Fill(@)] = s.flow
===============================================================================
