------------------------------- MODULE MCFlowDsl -------------------------------
(***************************************************************************)
(* Libraries of flow files for the model of the flow-file compiler: every  *)
(* way three files may use each other as modules, at the top or in a loop  *)
(* body, and one file or stored flow for each kind of node and each        *)
(* problem the parser reports.                                             *)
(***************************************************************************)
EXTENDS FlowDsl

Ids4 == {"ua", "ub", "uc", "ud"}
Numbers == {"5", "200"}
SpacedTexts == {"$[?(@.a == 1)]", "two words"}
BareTexts == {"name"}

HeadOf(name, id) == [NoHead EXCEPT !.name = name, !.id = id]
File(path, id, nodes) ==
  [path |-> path, head |-> HeadOf(path, id), topology |-> [steps |-> FALSE, nodes |-> nodes]]
Library(fs, t) == [files |-> fs, target |-> t, stored |-> {}]

Quoted(s) == [s |-> s, quoted |-> TRUE]
Unquoted(s) == [s |-> s, quoted |-> FALSE]

Request(id) == FileNode(id, "request", [method |-> "get", url |-> "u"])
With(y, outputs) == [y EXCEPT !.outputs = outputs, !.outputsSet = TRUE]
Publisher(id) == With(Request(id), <<Output("x", "json_path", "$.x")>>)
Reader(id, ref) == [Request(id) EXCEPT !.refs = {ref}]
Module(id, form, to) ==
  [FileNode(id, "module", <<>>) EXCEPT !.ref = [form |-> form, to |-> to]]
Explicit(id, to, binding) == With(Module(id, "path", to), <<Binding("x", binding)>>)
Body(nodes) == [steps |-> FALSE, nodes |-> nodes]
Loop(id, nodes) == [FileNode(id, "loop", [items |-> Unquoted("list")]) EXCEPT !.body = Body(nodes)]

(* The shapes of one file of a library whose other files it may use.       *)
Leaf == <<Publisher("r")>>
Inferring(q) == <<Module("m", "path", q), Reader("s", <<"m", "x">>)>>
Naming(q) == <<Explicit("m", q, <<"r", "x">>), Reader("s", <<"m", "x">>)>>
InBody(q) == <<Publisher("r"), Loop("l", <<Explicit("m", q, <<"m", "x">>), Reader("s", <<"m", "x">>)>>)>>
Calling(q) == <<Module("m", "path", q)>>
Polling(q) == <<[FileNode("p", "poll", <<>>) EXCEPT !.body = Body(<<Module("m", "path", q)>>)]>>
Shapes(qs) == {Leaf} \cup {Calling(q) : q \in qs} \cup {Polling(q) : q \in qs}
              \cup {Inferring(q) : q \in qs} \cup {Naming(q) : q \in qs}
              \cup {InBody(q) : q \in qs}

Webs ==
  {Library(<<File("a", "ua", a), File("b", "ub", b), File("c", "uc", c)>>, t) :
     a \in Shapes({"b", "c"}), b \in Shapes({"a", "c"}), c \in {Leaf, Inferring("a"), Polling("c"), Calling("b")},
     t \in {"", "b"}}

(* One node of every kind, with its fields, checks and outputs.            *)
Lines == <<[Line("status_code", "", "equals", <<"200">>) EXCEPT !.colon = TRUE],
           Line("json_path", "$.x", "between", <<"5", "max">>),
           [Line("json_path", "$[?(@.a == 1)]", "not_empty", <<>>) EXCEPT !.quoted = TRUE],
           Line("header", "h", "contains", <<"200">>)>>
Checked(y) == [y EXCEPT !.expect = Lines, !.expectSet = TRUE]
Pairs == {[key |-> "k", val |-> Quoted("5")], [key |-> "l", val |-> Unquoted("5")]}
Headers == {[key |-> "k", val |-> Quoted("5")]}
Outs == <<Output("p", "json_path", "$.p"),
          [Output("q", "json_path", "name") EXCEPT !.short = FALSE],
          [Output("h", "header", "h") EXCEPT !.secret = TRUE, !.short = FALSE],
          Output("b", "body", ""), Output("c", "status_code", "")>>
Group == [name |-> "g", min |-> 1, max |-> -1, checks |-> Lines]
PayloadGroup == [Group EXCEPT !.checks = SubSeq(Lines, 2, 3)]

EveryKind == <<
  With(Checked(FileNode("n", "request",
    [method |-> "post", url |-> "u", headers |-> Headers, query |-> Pairs,
     body |-> Quoted("true"), timeout_ms |-> 5])), Outs),
  [Checked(FileNode("n", "delay", [duration_ms |-> 5])) EXCEPT !.display = "wait"],
  [FileNode("n", "set", [vars |-> Pairs]) EXCEPT !.runWhen = "always"],
  Checked(FileNode("n", "assert", [target |-> Unquoted("null")])),
  [FileNode("n", "branch", [target |-> Quoted("null")]) EXCEPT
     !.cases = <<[when |-> Lines[3], target |-> "t"]>>, !.default = "n2"],
  [FileNode("n", "poll", [max_attempts |-> 1, interval_ms |-> 5]) EXCEPT
     !.body = [steps |-> TRUE, nodes |-> <<Publisher("r"), Reader("s", <<"r", "x">>)>>]],
  [FileNode("n", "loop", [items |-> Unquoted("list"), item_var |-> "it", max_iterations |-> 0,
                          continue_on_error |-> TRUE]) EXCEPT
     !.body = Body(<<Reader("s", <<"it", "id">>), Reader("v", <<"index", "n">>)>>)],
  [With(FileNode("n", "webhook_wait", [timeout_ms |-> 5, settle_ms |-> 0]),
        <<Output("p", "json_path", "$.p")>>) EXCEPT !.groups = <<Group>>],
  FileNode("n", "sse", [url |-> "u", method |-> "get", headers |-> {}, max_events |-> 1,
                        completion_event |-> "end", stop_on_assertion_failure |-> FALSE]),
  FileNode("n", "integration", [id |-> "stripe", operation |-> "charge", inputs |-> Pairs]),
  [FileNode("n", "integration", [id |-> "stripe", event |-> "paid", settle_ms |-> 5]) EXCEPT
     !.groups = <<PayloadGroup>>],
  FileNode("n", "integration", [id |-> "unknown", operation |-> "charge"]),
  [Module("n", "uuid", "ud") EXCEPT !.fields = [inputs |-> Pairs]] >>

(* The node between a publisher and a join, with a failure edge.           *)
Joined(y) ==
  Library(<<[File("a", "ua", <<Publisher("r"),
      [y EXCEPT !.next = IF "branch" \in y.kinds THEN <<>> ELSE <<"t">>,
                !.nextSet = "branch" \notin y.kinds, !.fail = <<"n2">>],
      [Request("t") EXCEPT !.refs = {<<"r", "x">>, <<"webhook", "url">>}],
      [Request("n2") EXCEPT !.runWhen = "always"]>>)
     EXCEPT !.head.folder = "ud", !.head.role = "module"]>>, "")
Singles == {Joined(EveryKind[i]) : i \in DOMAIN EveryKind}

(* Files the parser or the resolver finds fault with.                      *)
Bad(y) == Library(<<File("a", "ua", <<y>>)>>, "")
Faulty ==
  {Bad(y) : y \in {
     FileNode("n", "delay", [duration_ms |-> 0]),
     FileNode("n", "request", [method |-> "fetch", url |-> ""]),
     FileNode("two words", "set", [vars |-> {}]),
     FileNode("n", "assert", <<>>), FileNode("n", "branch", <<>>),
     FileNode("n", "poll", [max_attempts |-> 0]), FileNode("n", "integration", [id |-> "stripe"]),
     [Request("n") EXCEPT !.kinds = {"request", "delay"}],
     With(FileNode("n", "delay", [duration_ms |-> 5]), Outs),
     With(Request("n"), <<Output("q", "json_path", "name")>>),
     [Request("n") EXCEPT !.expect = <<Line("json_path", "$[?(@.a == 1)]", "empty", <<>>)>>],
     [Request("n") EXCEPT !.expect = <<Line("json_path", "$.x", "between", <<"5">>)>>],
     [Request("n") EXCEPT !.next = <<"gone">>],
     Module("n", "outside", "z"), Module("n", "path", "z"),
     Reader("n", <<"gone", "x">>),
     With(Module("n", "uuid", "ud"), <<Binding("x", <<"y">>)>>)}}
  \cup {Library(<<File("a", "ua", Leaf), File("a", "ub", Leaf)>>, ""),
        Library(<<File("a", "ua", <<Module("m", "path", "b")>>), File("b", "", Leaf)>>, ""),
        Library(<<File("a", "ua", <<Module("m", "path", "b")>>),
                  [File("b", "ub", Leaf) EXCEPT !.head.inputs = {"i"}, !.head.folder = "dir"]>>, ""),
        Library(<<File("a", "ua", <<Module("m", "path", "b"), Reader("s", <<"m", "x">>)>>),
                  [File("b", "ub", <<Publisher("r"), Publisher("q")>>) EXCEPT
                     !.head.public = [set |-> TRUE, names |-> {"x", "y"}]]>>, "")}

(* Steps, with a branch and a step that sets next among them.              *)
Steps ==
  {Library(<<[File("a", "ua", <<>>) EXCEPT !.topology =
     [steps |-> TRUE,
      nodes |-> <<Publisher("r"),
                  [FileNode("b", "branch", <<>>) EXCEPT
                     !.cases = <<[when |-> Lines[1], target |-> "r2"]>>, !.default = "t"],
                  [Request("r2") EXCEPT !.nextSet = TRUE], Request("t")>>]]>>, "")}

(* Flows that were not compiled here: numbers in checks, empty maps, the   *)
(* outputs of a set node, edges in any order, a secret body, a value with  *)
(* a type of its own in a bound, an ordering check or a branch case.       *)
Wire(id, kind, data) ==
  [id |-> id, display |-> id, runWhen |-> "on_success", kind |-> kind, integration |-> FALSE,
   data |-> data, flow |-> "", bindings |-> {}, outputs |-> <<>>, checks |-> <<>>,
   cases |-> <<>>, default |-> "", groups |-> <<>>, body |-> NoWireBody, refs |-> {}]
number(s) == [t |-> "number", s |-> s]
Check(op, value) == [ext |-> "json_path", arg |-> "$.x", op |-> op, value |-> value]
NumberCheck == [Check("equals", <<number("200")>>) EXCEPT !.ext = "status_code", !.arg = ""]
FileBounds == Check("between", <<number("5"), text("max")>>)
TextBounds == Check("between", <<text("5"), text("max")>>)
NumberLimit == Check("less_than", <<number("5")>>)
EmptyValue == Check("not_empty", <<text("")>>)
WireGet == [Wire("r", "request", [method |-> "GET", url |-> "u", headers |-> {}, query |-> {}])
              EXCEPT !.checks = <<NumberCheck, FileBounds, EmptyValue, Check("less_than", <<text("5")>>)>>]
WireSet == [Wire("v", "set_variable", [vars |-> {[key |-> "k", val |-> text("200")]}])
              EXCEPT !.outputs = <<[name |-> "k", ext |-> "body", arg |-> "", secret |-> FALSE]>>]
Edge(s, t, type) == [source |-> s, target |-> t, type |-> type]
Held(nodes, edges) ==
  [files |-> <<>>, target |-> "",
   stored |-> {[given |-> TRUE,
                flow |-> [path |-> "a", name |-> "a", role |-> "", version |-> "1.0", folder |-> "",
                          id |-> "ua", flow |-> [nodes |-> nodes, edges |-> edges]]]}]
HeldFlows ==
  {Held(<<WireGet, WireSet>>, es) :
     es \in {<<>>, <<Edge("v", "r", "failure"), Edge("r", "v", "success")>>}}
  \cup {Held(<<[Wire("p", "poll", <<>>) EXCEPT !.body = [nodes |-> <<WireGet>>, edges |-> <<>>]]>>, <<>>),
        Held(<<[WireGet EXCEPT !.outputs =
                 <<[name |-> "k", ext |-> "body", arg |-> "", secret |-> TRUE]>>]>>, <<>>),
        Held(<<[WireGet EXCEPT !.data.method = "", !.checks = <<TextBounds>>]>>, <<>>),
        Held(<<[WireGet EXCEPT !.checks = <<NumberLimit>>]>>, <<>>),
        Held(<<[WireGet EXCEPT !.data.method = ""]>>, <<>>)}
  \cup {Held(<<[Wire("b", "branch", <<>>) EXCEPT !.cases = <<[when |-> c, target |-> "r"]>>],
               WireGet>>, <<Edge("b", "r", "success")>>) : c \in {NumberCheck, FileBounds}}

AllLibraries == Webs \cup Singles \cup Faulty \cup Steps \cup HeldFlows
===============================================================================
