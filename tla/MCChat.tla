------------------------------- MODULE MCChat -------------------------------
(* Chat with one or two messages and viewers, on one or two nodes.           *)
EXTENDS Chat

OneMessage == {"m1"}
TwoMessages == {"m1", "m2"}
OneViewer == {"a"}
TwoViewers == {"a", "b"}
OnlyA == {"a"}
OneNode == {"n1"}
TwoNodes == {"n1", "n2"}
\* "a" is on the first node, the others on the second if there is one.
Apart == [v \in Viewers |-> IF v = "a" \/ Nodes = OneNode THEN "n1" ELSE "n2"]
=============================================================================
