------------------------------ MODULE MCHttpNodes ------------------------------
(***************************************************************************)
(* Instances of HttpNodes: two request nodes, one beside an SSE node, and  *)
(* one node of either kind with a retry and a redirect.                    *)
(***************************************************************************)
EXTENDS HttpNodes

TwoNodes == {"a", "b"}
Setup(a, b, tries, redirects) ==
  [kind |-> [n \in TwoNodes |-> IF n = "a" THEN a ELSE b],
   attempts |-> tries, hops |-> redirects]

Mixes == {Setup("request", "request", 1, 0), Setup("request", "sse", 1, 0),
          Setup("request", "none", 2, 1), Setup("none", "sse", 2, 1)}
=============================================================================
