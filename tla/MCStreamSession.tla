--------------------------- MODULE MCStreamSession ---------------------------
(* Two sessions of one user and two nodes with one start more than nodes, so   *)
(* that one of them crashes and comes back.                                    *)
EXTENDS StreamSession
=============================================================================
