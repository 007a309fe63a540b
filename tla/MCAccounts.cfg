SPECIFICATION Spec
CONSTANTS
  Clients = {c1, c2}
  Names = {ann, bob}
  Mails = {m1, m2}
  Passwords = {p, q}
  MaxRequests = 3
  MaxRefreshes = 2
INVARIANTS TypeOK AnsweredAsStored
SYMMETRY Symmetry
