----------------------------- MODULE MCWorkflow -----------------------------
(* Over three interchangeable nodes: every graph with a cycle; the join      *)
(* n1, n2 -> n3 with every policy; the shortcut n1 -> n2 -> n3, n1 -> n3     *)
(* with the policies that differ in what they call.                          *)
EXTENDS Workflow, TLC

CONSTANTS n1, n2, n3

MCNodes == {n1, n2, n3}

HasLoop(g) ==
  \E e \in g : \/ e[1] = e[2] \/ <<e[2], e[1]>> \in g
               \/ \E n \in MCNodes : <<e[2], n>> \in g /\ <<n, e[1]>> \in g

Request(g, p2, p3) ==
  [edges |-> g, policy |-> [n \in MCNodes |-> CASE n = n1 -> "fail"
                                                [] n = n2 -> p2
                                                [] n = n3 -> p3]]

Join == {<<n1, n3>>, <<n2, n3>>}
Shortcut == {<<n1, n2>>, <<n2, n3>>, <<n1, n3>>}

MCRequests ==
  {Request(g, "fail", "fail") : g \in {h \in SUBSET (MCNodes \X MCNodes) : HasLoop(h)}}
  \cup {Request(Join, "fail", p) : p \in Policies}
  \cup {Request(Shortcut, p[1], p[2]) : p \in {<<"skip", "fail">>, <<"fail", "skip">>,
                                               <<"skip", "continue">>,
                                               <<"continue", "continue">>}}

\* Enough for a job to be released twice.
JoinRequests == {Request(Join, "fail", "fail")}
=============================================================================
