------------------------------ MODULE MCAccounts ------------------------------
(* Two browsers that want the same or different names and addresses; three    *)
(* forms or logouts between them.  All four sets are symmetric: the model     *)
(* looks only at equality of their members, and the run checks safety.        *)
EXTENDS Accounts, TLC

Symmetry == Permutations(Clients) \cup Permutations(Names)
              \cup Permutations(Mails) \cup Permutations(Passwords)
=============================================================================
