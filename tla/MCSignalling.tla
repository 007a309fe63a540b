---------------------------- MODULE MCSignalling ----------------------------
(* Signalling with two candidates on each side.                              *)
EXTENDS Signalling

TwoOfPage == {"p1", "p2"}
OneOfPage == {"p1"}
TwoOfServer == {"s1", "s2"}
=============================================================================
