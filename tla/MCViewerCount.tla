--------------------------- MODULE MCViewerCount ---------------------------
(* ViewerCount with two viewers on one of two nodes.                         *)
EXTENDS ViewerCount, TLC

CONSTANTS v1, v2

TwoNodes == {"n1", "n2"}
TwoEndings == {"e1", "e2"}

TwoViewers == {v1, v2}
AllOnFirst == [v \in Viewers |-> "n1"]
\* The first stream ends on the viewers' node, the second on another.
EndsApart == [e \in Endings |-> IF e = "e1" THEN "n1" ELSE "n2"]

\* Viewers of one node are interchangeable.
ViewerSymmetry == Permutations(Viewers)
=============================================================================
