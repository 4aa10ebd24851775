------------------------------ MODULE MCRedaction ------------------------------
(***************************************************************************)
(* Instances of Redaction: a node with two secret outputs, one that reads  *)
(* them, one that echoes one beside it, a module bound to a secret output  *)
(* of its flow, and a cleanup that always runs and reads an output of a    *)
(* node that may have failed; values of every kind at the limits.          *)
(***************************************************************************)
EXTENDS Redaction, TLC

Nodes == {"mint", "use", "echo", "kid", "wrap", "clean"}
Values == {"token", "tokenplus", "pin", "number", "bignumber"}
Lengths == [v \in Values |-> CASE v \in {"token", "number"} -> 6 [] v = "tokenplus" -> 9
                               [] v = "pin" -> 4 [] OTHER -> 8]
Numbers == {"number", "bignumber"}
BigNumbers == {"bignumber"}
Contained == [v \in Values |-> IF v = "tokenplus" THEN {"token", "tokenplus"} ELSE {v}]

Plain == [after |-> {}, body |-> {}, outputs |-> <<>>, secret |-> {}, reads |-> {},
          echoes |-> {}, binds |-> <<>>, nested |-> FALSE, always |-> FALSE, parses |-> TRUE]

Scene(a, b, c, parses, inputs) ==
  [inputs |-> inputs, nodes |->
     "mint" :> [Plain EXCEPT !.outputs = "a" :> a @@ "b" :> b, !.secret = {"a", "b"},
                             !.parses = parses]
     @@ "use" :> [Plain EXCEPT !.after = {"mint", "wrap"},
                               !.reads = {<<"mint", "a">>, <<"mint", "b">>, <<"wrap", "o">>}]
     @@ "echo" :> [Plain EXCEPT !.echoes = {<<"mint", "b">>}]
     @@ "kid" :> [Plain EXCEPT !.outputs = "s" :> c, !.secret = {"s"}, !.nested = TRUE]
     @@ "wrap" :> [Plain EXCEPT !.after = {"kid"}, !.body = {"kid"}, !.outputs = "o" :> c,
                                !.binds = "o" :> <<"kid", "s">>]
     @@ "clean" :> [Plain EXCEPT !.after = {"mint", "use", "echo", "wrap"}, !.always = TRUE,
                                 !.reads = {<<"mint", "a">>}]]

Scenes == {Scene(a, b, c, c = "pin", {}) : a \in {"token", "pin"}, b \in {"tokenplus", "number"},
                                          c \in {"pin", "bignumber"}}
          \cup {Scene("token", "tokenplus", "pin", TRUE, {"token"})}
=============================================================================
