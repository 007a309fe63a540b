--------------------------- MODULE AccountsProofs ---------------------------
(* The answers of the account handlers agree with the table, and a settled    *)
(* page with its cookie, for any browsers, names, addresses, passwords and    *)
(* bounds.  The argument: rows are told apart by the number of the request    *)
(* that made them, requests under way have different numbers (Numbered), and  *)
(* how far a handler is tells whether its row is there (Outcome).             *)
EXTENDS Accounts, TLAPS, FiniteSetTheorems

Phases == {"received", "nameFree", "free", "stored", "answered"}
Statuses == {0, 200, 201, 401, 409, 422, 500}
Rows == [id : Nat \ {0}, username : Names, email : Mails, password : Passwords, by : 1..MaxRequests]
Requests == [phase : Phases, kind : {"register", "login"}, username : Names,
             email : Mails \cup {"none"}, password : Passwords, number : 1..MaxRequests,
             status : Statuses, claims : Tokens]

Types == /\ TypeOK
         /\ request \in [Clients -> Requests \cup {NoRequest}]
         /\ IsFiniteSet(users)

\* Only a registration goes beyond its first query, and it has an address.
Kinds == \A c \in Clients : request[c] \in Requests =>
            /\ request[c].kind = "register" => request[c].email \in Mails
            /\ request[c].phase \in {"nameFree", "free", "stored"} => request[c].kind = "register"

\* Rows and requests have numbers of their own.
Numbered == /\ \A u \in users : u.id <= Cardinality(users) /\ u.by <= count
            /\ \A c \in Clients : request[c] \in Requests => request[c].number <= count
            /\ \A c, d \in Clients : request[c] \in Requests /\ request[d] \in Requests =>
                  (request[c].number = request[d].number => c = d)

Unique == \A u, v \in users :
             u.username = v.username \/ u.email = v.email \/ u.id = v.id => u = v

\* The rows of table t that request n made.
MadeBy(t, n) == {u \in t : u.by = n}
\* Row u is the account that request r asks for.
AsAsked(u, r) == u.username = r.username /\ u.email = r.email /\ u.password = r.password

\* What table t holds for request r, by how far its handler is.
Fulfils(t, r) ==
  /\ r.phase \in {"received", "nameFree", "free"} => MadeBy(t, r.number) = {}
  /\ r.phase = "stored" => \E u \in MadeBy(t, r.number) : AsAsked(u, r)
  /\ r.phase = "answered" =>
       /\ r.status = 201 => \E u \in MadeBy(t, r.number) : AsAsked(u, r) /\ r.claims = Claims(u)
       /\ r.status = 200 => \E u \in t : /\ r.claims = Claims(u) /\ u.username = r.username
                                             /\ u.password = r.password
       /\ r.status \in {401, 409, 422} => MadeBy(t, r.number) = {}
Outcome == \A c \in Clients : request[c] \in Requests => Fulfils(users, request[c])

\* Cookies are of accounts.
Known == \A c \in Clients : cookie[c] = NoUser \/ \E u \in users : Claims(u) = cookie[c]

\* As long as the cookie does not change, all refreshes under way ask the same.
Settled == \A c \in Clients : settled[c] =>
              /\ \A i \in DOMAIN refreshes[c] : refreshes[c][i] = cookie[c]
              /\ refreshes[c] = <<>> => page[c] = [loading |-> FALSE, user |-> cookie[c]]

Inv == Types /\ Kinds /\ Numbered /\ Unique /\ Outcome /\ Known /\ Settled

-----------------------------------------------------------------------------
(* Requests and replies                                                       *)

\* A request under way is not "none".
LEMMA UnderWay ==
  ASSUME Types, NEW c \in Clients
  PROVE  /\ request[c].phase # "none" => request[c] \in Requests
         /\ request[c] \in Requests => request[c].phase \in Phases /\ request[c].phase # "none"
<1>1. NoRequest.phase = "none"
  BY DEF NoRequest
<1>2. \A r \in Requests : r.phase \in Phases /\ r.phase # "none"
  BY DEF Requests, Phases
<1> QED
  BY <1>1, <1>2 DEF Types

\* The phases of requests.
LEMMA PhaseTypes ==
  \A r \in Requests \cup {NoRequest} :
     r.phase \in {"none", "received", "nameFree", "free", "stored", "answered"}
  BY DEF Requests, NoRequest, Phases

\* Request r is c's, with another phase, status or claims.
Moves(c, r) == /\ request' = [request EXCEPT ![c] = r]
               /\ request[c] \in Requests /\ r \in Requests
               /\ r.kind = request[c].kind /\ r.username = request[c].username
               /\ r.email = request[c].email /\ r.password = request[c].password
               /\ r.number = request[c].number

\* Handle moves one request.
LEMMA Handles ==
  ASSUME Types, NEW c \in Clients, NEW p \in Phases, NEW q \in Phases, Handle(c, p, q)
  PROVE  \E r \in Requests : Moves(c, r) /\ request[c].phase = p /\ r.phase = q
<1> DEFINE r == [request[c] EXCEPT !.phase = q]
<1>1. request[c].phase = p /\ request[c] \in Requests
  BY UnderWay DEF Handle, Phases
<1>2. r \in Requests /\ r.phase = q
      /\ r.kind = request[c].kind /\ r.username = request[c].username /\ r.email = request[c].email
      /\ r.password = request[c].password /\ r.number = request[c].number
  BY <1>1 DEF Requests
<1>3. request' = [request EXCEPT ![c] = r]
  BY DEF Handle
<1> QED
  BY <1>1, <1>2, <1>3 DEF Moves

\* Reply ends one.
LEMMA Replies ==
  ASSUME Types, NEW c \in Clients, NEW p \in Phases, NEW s \in Statuses, NEW t \in Tokens,
         Reply(c, p, s, t)
  PROVE  \E r \in Requests : /\ Moves(c, r) /\ request[c].phase = p
                             /\ r.phase = "answered" /\ r.status = s /\ r.claims = t
<1> DEFINE r == [request[c] EXCEPT !.phase = "answered", !.status = s, !.claims = t]
<1>1. request[c].phase = p /\ request[c] \in Requests
  BY UnderWay DEF Reply, Phases
<1>2. "answered" \in Phases
  BY DEF Phases
<1>3. r \in Requests /\ r.phase = "answered" /\ r.status = s /\ r.claims = t
      /\ r.kind = request[c].kind /\ r.username = request[c].username /\ r.email = request[c].email
      /\ r.password = request[c].password /\ r.number = request[c].number
  BY <1>1, <1>2 DEF Requests
<1>4. request' = [request EXCEPT ![c] = r]
  BY DEF Reply
<1> QED
  BY <1>1, <1>3, <1>4 DEF Moves

\* The claims of a row are a token.
LEMMA ClaimsAreTokens ==
  ASSUME Types
  PROVE  NoUser \in Tokens /\ \A u \in users : Claims(u) \in Tokens
  BY DEF Types, TypeOK, Claims, Tokens

\* What a handler may do to its request and the table.
Queries(c, r) == /\ users' = users /\ r.kind = "register" /\ r.phase \in {"nameFree", "free"}
                 /\ request[c].phase \in {"received", "nameFree"}
Refuses(c, r) == /\ users' = users /\ r.phase = "answered" /\ r.status \in {401, 409, 422, 500}
                 /\ request[c].phase \in {"received", "nameFree", "free"}
Inserts(c, r) == /\ Insert(c) /\ Taken(c) \cup MailTaken(c) = {} /\ request[c].phase = "free"
                 /\ r.phase = "stored" \/ (r.phase = "answered" /\ r.status = 500)
Grants(c, r) == /\ users' = users /\ r.phase = "answered"
                /\ \/ r.status = 500 /\ request[c].phase \in {"received", "stored"}
                   \/ /\ r.status = 201 /\ request[c].phase = "stored"
                      /\ \E u \in Taken(c) : r.claims = Claims(u)
                   \/ /\ r.status = 200 /\ FindByUsername(c) # {}
                      /\ \E u \in Taken(c) : r.claims = Claims(u)

\* A step of a handler is one of these.
LEMMA ServerStep ==
  ASSUME Types, Kinds, NEW c \in Clients, Server(c)
  PROVE  /\ UNCHANGED <<secret, sameSite, count, pageVars>>
         /\ \E r \in Requests : /\ Moves(c, r)
                                /\ Queries(c, r) \/ Refuses(c, r) \/ Inserts(c, r) \/ Grants(c, r)
<1> DEFINE Goal == \E r \in Requests :
              Moves(c, r) /\ (Queries(c, r) \/ Refuses(c, r) \/ Inserts(c, r) \/ Grants(c, r))
<1>1. {"received", "nameFree", "free", "stored", "answered"} \subseteq Phases
  BY DEF Phases
<1>2. {401, 409, 422, 500, 200, 201} \subseteq Statuses
  BY DEF Statuses
<1>3. NoUser \in Tokens /\ \A u \in users : Claims(u) \in Tokens
  BY ClaimsAreTokens
<1>4. ASSUME NEW p \in {"received", "nameFree", "free"}, NEW s \in {401, 409, 422, 500},
             Reply(c, p, s, NoUser), users' = users
      PROVE  Goal
  <2>1. PICK r \in Requests : /\ Moves(c, r) /\ request[c].phase = p
                              /\ r.phase = "answered" /\ r.status = s
    BY <1>1, <1>2, <1>3, <1>4, Replies
  <2>2. Refuses(c, r)
    BY <1>4, <2>1 DEF Refuses
  <2> QED
    BY <2>1, <2>2
<1>5. ASSUME NEW p \in {"received", "nameFree"}, NEW q \in {"nameFree", "free"},
             Handle(c, p, q), users' = users, request[c].kind = "register"
      PROVE  Goal
  <2>1. PICK r \in Requests : Moves(c, r) /\ request[c].phase = p /\ r.phase = q
    BY <1>1, <1>5, Handles
  <2>2. Queries(c, r)
    BY <1>5, <2>1 DEF Queries, Moves
  <2> QED
    BY <2>1, <2>2
<1>6. CASE Invalid(c)
  <2>1. Reply(c, "received", 422, NoUser) /\ users' = users
    BY <1>6 DEF Invalid
  <2>2. Goal
    BY <1>4, <2>1
  <2> QED
    BY <2>1, <2>2 DEF Reply
<1>7. CASE IsUsernameTaken(c)
  <2>1. Registers(c) /\ users' = users
        /\ (Handle(c, "received", "nameFree") \/ Reply(c, "received", 409, NoUser))
    BY <1>7 DEF IsUsernameTaken
  <2>2. Goal
    BY <1>4, <1>5, <2>1 DEF Registers
  <2> QED
    BY <2>1, <2>2 DEF Reply, Handle
<1>8. CASE IsEmailTaken(c)
  <2>1. request[c].phase = "nameFree" /\ users' = users
        /\ (Handle(c, "nameFree", "free") \/ Reply(c, "nameFree", 409, NoUser))
    BY <1>8 DEF IsEmailTaken
  <2>2. request[c].kind = "register"
    BY <2>1, UnderWay DEF Kinds
  <2>3. Goal
    BY <1>4, <1>5, <2>1, <2>2
  <2> QED
    BY <2>1, <2>3 DEF Reply, Handle
<1>9. CASE UniqueViolation(c)
  <2>1. Reply(c, "free", 409, NoUser) /\ users' = users
    BY <1>9 DEF UniqueViolation
  <2>2. Goal
    BY <1>4, <2>1
  <2> QED
    BY <2>1, <2>2 DEF Reply
<1>10. CASE Throws(c)
  <2>1. PICK p \in {"received", "nameFree", "free"} : Reply(c, p, 500, NoUser)
    BY <1>10 DEF Throws
  <2>2. users' = users
    BY <1>10 DEF Throws
  <2>3. Goal
    BY <1>4, <2>1, <2>2
  <2> QED
    BY <2>1, <2>3 DEF Reply
<1>11. CASE Unauthorized(c)
  <2>1. Reply(c, "received", 401, NoUser) /\ users' = users
    BY <1>11 DEF Unauthorized
  <2>2. Goal
    BY <1>4, <2>1
  <2> QED
    BY <2>1, <2>2 DEF Reply
<1>12. CASE Create(c)
  <2>1. Handle(c, "free", "stored") /\ Taken(c) \cup MailTaken(c) = {} /\ Insert(c)
    BY <1>12 DEF Create
  <2>2. PICK r \in Requests : Moves(c, r) /\ request[c].phase = "free" /\ r.phase = "stored"
    BY <1>1, <2>1, Handles
  <2>3. Inserts(c, r)
    BY <2>1, <2>2 DEF Inserts
  <2> QED
    BY <2>1, <2>2, <2>3 DEF Handle
<1>13. CASE CommitInDoubt(c)
  <2>1. Reply(c, "free", 500, NoUser) /\ Taken(c) \cup MailTaken(c) = {} /\ Insert(c)
    BY <1>13 DEF CommitInDoubt
  <2>2. PICK r \in Requests : /\ Moves(c, r) /\ request[c].phase = "free"
                              /\ r.phase = "answered" /\ r.status = 500
    BY <1>1, <1>2, <1>3, <2>1, Replies
  <2>3. Inserts(c, r)
    BY <2>1, <2>2 DEF Inserts
  <2> QED
    BY <2>1, <2>2, <2>3 DEF Reply
<1>14. ASSUME NEW p \in {"received", "stored"}, NEW ok \in {200, 201}, Grant(c, p, ok),
              ok = 201 <=> p = "stored", ok = 200 => FindByUsername(c) # {}
       PROVE  Goal /\ UNCHANGED <<secret, sameSite, count, pageVars>>
  <2>1. PICK u \in Taken(c) : Reply(c, p, IF secret THEN ok ELSE 500, IF secret THEN Claims(u) ELSE NoUser)
    BY <1>14 DEF Grant
  <2>2. users' = users /\ u \in users
    BY <1>14 DEF Grant, Taken
  <2>3. CASE secret
    <3>1. Reply(c, p, ok, Claims(u))
      BY <2>1, <2>3
    <3>2. PICK r \in Requests : /\ Moves(c, r) /\ request[c].phase = p /\ r.phase = "answered"
                                /\ r.status = ok /\ r.claims = Claims(u)
      BY <1>1, <1>2, <1>3, <2>2, <3>1, Replies
    <3>3. Grants(c, r)
      BY <1>14, <2>1, <2>2, <3>2 DEF Grants
    <3> QED
      BY <3>1, <3>2, <3>3 DEF Reply
  <2>4. CASE ~secret
    <3>1. Reply(c, p, 500, NoUser)
      BY <2>1, <2>4
    <3>2. PICK r \in Requests : /\ Moves(c, r) /\ request[c].phase = p /\ r.phase = "answered"
                                /\ r.status = 500
      BY <1>1, <1>2, <1>3, <3>1, Replies
    <3>3. Grants(c, r)
      BY <2>2, <3>2 DEF Grants
    <3> QED
      BY <3>1, <3>2, <3>3 DEF Reply
  <2> QED
    BY <2>3, <2>4
<1>15. CASE Registered(c)
  <2>1. Grant(c, "stored", 201)
    BY <1>15 DEF Registered
  <2> QED
    BY <1>14, <2>1
<1>16. CASE LoggedIn(c)
  <2>1. Grant(c, "received", 200) /\ FindByUsername(c) # {}
    BY <1>16 DEF LoggedIn
  <2> QED
    BY <1>14, <2>1
<1> QED
  BY <1>6, <1>7, <1>8, <1>9, <1>10, <1>11, <1>12, <1>13, <1>15, <1>16 DEF Server

\* The row that INSERT makes.
LEMMA Inserted ==
  ASSUME Types, Kinds, NEW c \in Clients, request[c] \in Requests, request[c].phase = "free", Insert(c),
         Taken(c) \cup MailTaken(c) = {}
  PROVE  \E row \in Rows :
           /\ users' = users \cup {row} /\ row \notin users
           /\ \A u \in users : u.username # row.username /\ u.email # row.email
           /\ AsAsked(row, request[c]) /\ row.by = request[c].number
           /\ row.id = Cardinality(users) + 1
           /\ IsFiniteSet(users') /\ Cardinality(users') = Cardinality(users) + 1
<1> DEFINE row == [id |-> Cardinality(users) + 1, username |-> request[c].username,
                   email |-> request[c].email, password |-> request[c].password,
                   by |-> request[c].number]
<1>1. users' = users \cup {row}
  BY DEF Insert
<1>2. Cardinality(users) \in Nat
  BY FS_CardinalityType DEF Types
<1>3. request[c].kind = "register" /\ request[c].email \in Mails
  BY DEF Kinds
<1>4. Cardinality(users) + 1 \in Nat \ {0}
  BY <1>2
<1>5. row \in Rows
  BY <1>3, <1>4 DEF Rows, Requests
<1>6. /\ row.username = request[c].username /\ row.email = request[c].email
      /\ row.password = request[c].password /\ row.by = request[c].number
      /\ row.id = Cardinality(users) + 1
  OBVIOUS
<1> HIDE DEF row
<1>7. \A u \in users : u.username # row.username /\ u.email # row.email
  BY <1>6 DEF Taken, MailTaken
<1>8. row \notin users
  BY <1>7
<1>9. IsFiniteSet(users') /\ Cardinality(users') = Cardinality(users) + 1
  BY <1>1, <1>8, FS_AddElement DEF Types
<1> QED
  BY <1>1, <1>5, <1>6, <1>7, <1>8, <1>9 DEF AsAsked

\* The handlers' steps keep types, numbers and uniqueness.
LEMMA ServerKeepsTable ==
  ASSUME Types, Kinds, Numbered, Unique, NEW c \in Clients, Server(c)
  PROVE  Types' /\ Kinds' /\ Numbered' /\ Unique'
<1>1. UNCHANGED <<secret, sameSite, count, pageVars>>
  BY ServerStep
<1>2. PICK r \in Requests : /\ Moves(c, r)
                            /\ Queries(c, r) \/ Refuses(c, r) \/ Inserts(c, r) \/ Grants(c, r)
  BY ServerStep
<1>3. /\ request' = [request EXCEPT ![c] = r] /\ request \in [Clients -> Requests \cup {NoRequest}]
      /\ request[c] \in Requests
  BY <1>2 DEF Moves, Types
<1>4. /\ request' \in [Clients -> Requests \cup {NoRequest}] /\ request'[c] = r
      /\ \A d \in Clients \ {c} : request'[d] = request[d]
  BY <1>3
<1>5. users' = users \/ Inserts(c, r)
  BY <1>2 DEF Queries, Refuses, Grants
<1>6. request[c].phase \in Phases
  BY <1>3 DEF Requests
<1>7. Kinds'
  <2>1. /\ r.kind = request[c].kind /\ r.email = request[c].email
        /\ request[c].kind = "register" => request[c].email \in Mails
        /\ request[c].phase \in {"nameFree", "free", "stored"} => request[c].kind = "register"
    BY <1>2, <1>3 DEF Moves, Kinds
  <2>2. r.phase \in {"nameFree", "free", "stored"} => r.kind = "register"
    BY <1>2, <2>1 DEF Queries, Refuses, Inserts, Grants
  <2> QED
    BY <1>4, <2>1, <2>2 DEF Kinds
<1>8. \A d \in Clients : (request'[d] \in Requests <=> request[d] \in Requests)
                          /\ (request[d] \in Requests => request'[d].number = request[d].number)
  BY <1>2, <1>3, <1>4 DEF Moves
<1>9. CASE users' = users
  <2>1. Types'
    BY <1>1, <1>4, <1>9, PhaseTypes DEF Types, TypeOK, pageVars
  <2>2. Numbered' /\ Unique'
    BY <1>1, <1>8, <1>9 DEF Numbered, Unique
  <2> QED
    BY <1>7, <2>1, <2>2
<1>10. CASE Inserts(c, r)
  <2>1. PICK row \in Rows :
           /\ users' = users \cup {row} /\ row \notin users
           /\ \A u \in users : u.username # row.username /\ u.email # row.email
           /\ row.by = request[c].number
           /\ row.id = Cardinality(users) + 1
           /\ IsFiniteSet(users') /\ Cardinality(users') = Cardinality(users) + 1
    BY <1>3, <1>10, Inserted DEF Inserts
  <2>2. Cardinality(users) \in Nat
    BY FS_CardinalityType DEF Types
  <2>3. \A u \in users : u \in Rows /\ u.id \in Nat /\ u.id <= Cardinality(users) /\ u.by <= count
    BY DEF Types, TypeOK, Rows, Numbered
  <2>4. Unique'
    BY <2>1, <2>2, <2>3 DEF Unique
  <2>5. Numbered'
    <3>1. row.by <= count
      BY <1>3, <2>1 DEF Numbered
    <3>2. \A u \in users' : u.id <= Cardinality(users') /\ u.by <= count'
      BY <1>1, <2>1, <2>2, <2>3, <3>1
    <3> QED
      BY <1>1, <1>8, <3>2 DEF Numbered
  <2>6. users' \subseteq Rows
    BY <2>1, <2>3
  <2>7. Types'
    BY <1>1, <1>4, <2>1, <2>6, PhaseTypes DEF Types, TypeOK, Rows, pageVars
  <2> QED
    BY <1>7, <2>4, <2>5, <2>7
<1> QED
  BY <1>5, <1>9, <1>10

\* Rows of other requests do not change a request's outcome.
LEMMA OutcomeStands ==
  ASSUME NEW r, NEW t, NEW s, Fulfils(t, r), t \subseteq s, \A u \in s \ t : u.by # r.number
  PROVE  Fulfils(s, r)
<1>1. MadeBy(s, r.number) = MadeBy(t, r.number)
  BY DEF MadeBy
<1> QED
  BY <1>1 DEF Fulfils

\* The handlers' steps keep the answers in agreement with the table.
LEMMA ServerKeepsOutcome ==
  ASSUME Types, Kinds, Numbered, Unique, Outcome, NEW c \in Clients, Server(c)
  PROVE  Outcome' /\ users \subseteq users'
<1>1. PICK r \in Requests : /\ Moves(c, r)
                            /\ Queries(c, r) \/ Refuses(c, r) \/ Inserts(c, r) \/ Grants(c, r)
  BY ServerStep
<1>2. /\ request' = [request EXCEPT ![c] = r] /\ request \in [Clients -> Requests \cup {NoRequest}]
      /\ request[c] \in Requests /\ r.number = request[c].number
      /\ r.username = request[c].username /\ r.email = request[c].email
      /\ r.password = request[c].password
  BY <1>1 DEF Moves, Types
<1>3. request'[c] = r /\ \A d \in Clients \ {c} : request'[d] = request[d]
  BY <1>2
<1>4. Fulfils(users, request[c])
  BY <1>2 DEF Outcome
<1>5. users \subseteq users' /\ \A u \in users' \ users : u.by = request[c].number
  <2>1. CASE users' = users
    BY <2>1
  <2>2. CASE Inserts(c, r)
    BY <1>2, <2>2, Inserted DEF Inserts
  <2> QED
    BY <1>1, <2>1, <2>2 DEF Queries, Refuses, Grants
<1>6. ASSUME NEW d \in Clients \ {c}, request'[d] \in Requests PROVE Fulfils(users', request'[d])
  <2>1. request[d] \in Requests /\ Fulfils(users, request[d]) /\ request[d].number # request[c].number
    BY <1>2, <1>3, <1>6 DEF Outcome, Numbered
  <2> QED
    BY <1>3, <1>5, <2>1, OutcomeStands
<1>7. Fulfils(users', r)
  <2>1. CASE Queries(c, r)
    BY <1>2, <1>4, <2>1 DEF Queries, Fulfils
  <2>2. CASE Refuses(c, r)
    BY <1>2, <1>4, <2>2 DEF Refuses, Fulfils
  <2>3. CASE Inserts(c, r)
    <3>1. PICK row \in Rows : /\ users' = users \cup {row} /\ AsAsked(row, request[c])
                              /\ row.by = request[c].number
      BY <1>2, <2>3, Inserted DEF Inserts
    <3>2. row \in MadeBy(users', r.number) /\ AsAsked(row, r)
      BY <1>2, <3>1 DEF MadeBy, AsAsked
    <3> QED
      BY <2>3, <3>2 DEF Inserts, Fulfils
  <2>4. CASE Grants(c, r)
    <3>1. users' = users /\ r.phase = "answered"
      BY <2>4 DEF Grants
    <3>2. CASE r.status = 500
      BY <3>1, <3>2 DEF Fulfils
    <3>3. CASE r.status = 201
      <4>1. request[c].phase = "stored" /\ \E u \in Taken(c) : r.claims = Claims(u)
        BY <2>4, <3>3 DEF Grants
      <4>2. PICK u \in MadeBy(users, r.number) : AsAsked(u, r)
        BY <1>2, <1>4, <4>1 DEF Fulfils, AsAsked
      <4>3. PICK w \in Taken(c) : r.claims = Claims(w)
        BY <4>1
      <4>4. w = u
        BY <1>2, <4>2, <4>3 DEF Unique, Taken, MadeBy, AsAsked
      <4> QED
        BY <3>1, <3>3, <4>2, <4>3, <4>4 DEF Fulfils
    <3>4. CASE r.status = 200
      <4>1. FindByUsername(c) # {} /\ \E u \in Taken(c) : r.claims = Claims(u)
        BY <2>4, <3>4 DEF Grants
      <4>2. PICK u \in Taken(c) : u.password = request[c].password
        BY <4>1 DEF FindByUsername
      <4>3. PICK w \in Taken(c) : r.claims = Claims(w)
        BY <4>1
      <4>4. w = u /\ u \in users /\ u.username = r.username
        BY <1>2, <4>2, <4>3 DEF Unique, Taken
      <4> QED
        BY <1>2, <3>1, <3>4, <4>2, <4>3, <4>4 DEF Fulfils
    <3> QED
      BY <2>4, <3>2, <3>3, <3>4 DEF Grants
  <2> QED
    BY <1>1, <2>1, <2>2, <2>3, <2>4
<1> QED
  BY <1>3, <1>5, <1>6, <1>7 DEF Outcome

\* The handlers' steps keep the invariant: cookies and pages are not theirs.
LEMMA ServerInv == ASSUME Inv, NEW c \in Clients, Server(c) PROVE Inv'
<1>1. UNCHANGED pageVars
  BY ServerStep DEF Inv
<1>2. Types' /\ Kinds' /\ Numbered' /\ Unique'
  BY ServerKeepsTable DEF Inv
<1>3. Outcome' /\ users \subseteq users'
  BY ServerKeepsOutcome DEF Inv
<1>4. Known'
  BY <1>1, <1>3 DEF Inv, Known, pageVars, Claims
<1>5. Settled'
  BY <1>1 DEF Inv, Settled, pageVars
<1> QED
  BY <1>2, <1>3, <1>4, <1>5 DEF Inv

-----------------------------------------------------------------------------
(* The page's steps                                                           *)

\* A form is sent: its number is new, so no row is its.
LEMMA SubmitInv ==
  ASSUME Inv, NEW c \in Clients, Submit(c)
  PROVE  Types' /\ Kinds' /\ Numbered' /\ Unique' /\ Outcome' /\ Known' /\ Settled'
<1>1. PICK form \in Forms("register", Mails) \cup Forms("login", {"none"}) :
         request' = [request EXCEPT ![c] = form]
  BY DEF Submit
<1>2. count < MaxRequests /\ count' = count + 1 /\ UNCHANGED <<serverVars, pageVars>>
  BY DEF Submit
<1>3. count \in Nat /\ MaxRequests \in Nat /\ count + 1 \in 1..MaxRequests /\ count' \in 0..MaxRequests
  BY <1>2, AccountsAssumption DEF Inv, Types, TypeOK
<1>4. NoUser \in Tokens
  BY DEF Tokens
<1>5. "received" \in Phases /\ 0 \in Statuses
  BY DEF Phases, Statuses
<1>6. /\ form \in Requests /\ form.phase = "received" /\ form.number = count + 1
      /\ form.kind = "register" => form.email \in Mails
  BY <1>1, <1>3, <1>4, <1>5, Zenon DEF Forms, Requests
<1>7. /\ request \in [Clients -> Requests \cup {NoRequest}]
      /\ request' \in [Clients -> Requests \cup {NoRequest}]
      /\ request'[c] = form /\ \A d \in Clients \ {c} : request'[d] = request[d]
  BY <1>1, <1>6 DEF Inv, Types
<1>8. /\ \A u \in users : u.by \in Nat /\ u.by <= count
      /\ \A d \in Clients : request[d] \in Requests => request[d].number \in Nat /\ request[d].number <= count
  <2>1. \A u \in users : u.by \in 1..MaxRequests /\ u.by <= count
    BY DEF Inv, Types, TypeOK, Numbered
  <2>2. \A d \in Clients : request[d] \in Requests =>
           request[d].number \in 1..MaxRequests /\ request[d].number <= count
    BY DEF Inv, Numbered, Requests
  <2> QED
    BY <1>3, <2>1, <2>2
<1>9. Types'
  BY <1>2, <1>3, <1>7, PhaseTypes DEF Inv, Types, TypeOK, serverVars, pageVars
<1>10. Kinds'
  BY <1>6, <1>7 DEF Inv, Kinds
<1>11. Numbered'
  <2>1. \A d \in Clients : request'[d] \in Requests => request'[d].number <= count'
    BY <1>2, <1>3, <1>6, <1>7, <1>8
  <2>2. ASSUME NEW d \in Clients, NEW e \in Clients, request'[d] \in Requests, request'[e] \in Requests,
               request'[d].number = request'[e].number
        PROVE  d = e
    <3>1. \A k \in Clients \ {c} : request'[k] \in Requests => request'[k].number # count + 1
      BY <1>3, <1>7, <1>8
    <3>2. CASE d # c /\ e # c
      BY <1>7, <2>2, <3>2 DEF Inv, Numbered
    <3> QED
      BY <1>6, <1>7, <2>2, <3>1, <3>2
  <2>3. \A u \in users : u.id <= Cardinality(users) /\ u.by <= count'
    BY <1>2, <1>3, <1>8 DEF Inv, Numbered
  <2> QED
    BY <1>2, <2>1, <2>2, <2>3 DEF Numbered, serverVars
<1>12. Outcome'
  <2>1. MadeBy(users, form.number) = {}
    BY <1>3, <1>6, <1>8 DEF MadeBy
  <2>2. Fulfils(users, form)
    BY <1>6, <2>1 DEF Fulfils
  <2> QED
    BY <1>2, <1>7, <2>2 DEF Inv, Outcome, serverVars
<1>13. Unique' /\ Known' /\ Settled'
  BY <1>2 DEF Inv, Unique, Known, Settled, serverVars, pageVars, Claims
<1> QED
  BY <1>9, <1>10, <1>11, <1>12, <1>13

\* A request that is over leaves the others as they are.
LEMMA RequestOver ==
  ASSUME Inv, NEW c \in Clients, request' = [request EXCEPT ![c] = NoRequest],
         UNCHANGED <<serverVars, count>>
  PROVE  /\ request' \in [Clients -> Requests \cup {NoRequest}]
         /\ Kinds' /\ Numbered' /\ Outcome'
<1>1. NoRequest \notin Requests
  BY DEF NoRequest, Requests, Phases
<1>2. request \in [Clients -> Requests \cup {NoRequest}]
  BY DEF Inv, Types
<1>3. /\ request' \in [Clients -> Requests \cup {NoRequest}]
      /\ \A d \in Clients : request'[d] \in Requests => request'[d] = request[d]
  BY <1>1, <1>2
<1>4. Kinds'
  BY <1>3 DEF Inv, Kinds
<1>5. Numbered'
  BY <1>3 DEF Inv, Numbered, serverVars
<1>6. Outcome'
  BY <1>3 DEF Inv, Outcome, serverVars
<1> QED
  BY <1>3, <1>4, <1>5, <1>6

\* Appending one element.
LEMMA Appending ==
  ASSUME NEW S, NEW s \in Seq(S), NEW e \in S
  PROVE  /\ Append(s, e) \in Seq(S)
         /\ Len(Append(s, e)) = Len(s) + 1 /\ Len(s) \in Nat
         /\ Append(s, e) # <<>>
  OBVIOUS

\* Joining two sequences.
LEMMA Joining ==
  ASSUME NEW S, NEW s \in Seq(S), NEW t \in Seq(S)
  PROVE  /\ s \o t \in Seq(S) /\ Len(s \o t) = Len(s) + Len(t)
         /\ \A i \in 1..Len(s) : (s \o t)[i] = s[i]
         /\ \A i \in 1..Len(t) : (s \o t)[Len(s) + i] = t[i]
  OBVIOUS

\* Removing one: the rest were there.
LEMMA Removing ==
  ASSUME NEW S, NEW s \in Seq(S), NEW i \in DOMAIN s
  PROVE  /\ RemoveAt(s, i) \in Seq(S) /\ s[i] \in S
         /\ \A j \in DOMAIN RemoveAt(s, i) : \E k \in DOMAIN s : RemoveAt(s, i)[j] = s[k]
<1> DEFINE a == SubSeq(s, 1, i - 1)
           b == SubSeq(s, i + 1, Len(s))
<1>1. i \in 1..Len(s) /\ Len(s) \in Nat /\ DOMAIN s = 1..Len(s) /\ s[i] \in S
  OBVIOUS
<1>2. /\ a \in Seq(S) /\ Len(a) = i - 1
      /\ \A k \in 1..i - 1 : a[k] = s[k]
  BY <1>1
<1>3. /\ b \in Seq(S) /\ Len(b) = Len(s) - i
      /\ \A k \in 1..Len(s) - i : b[k] = s[i + k]
  BY <1>1
<1>4. RemoveAt(s, i) = a \o b
  BY DEF RemoveAt
<1> HIDE DEF a, b
<1>5. a \in Seq(S) /\ b \in Seq(S)
  BY <1>2, <1>3
<1> DEFINE w == a \o b
<1>6. /\ w \in Seq(S) /\ Len(w) = Len(a) + Len(b)
      /\ \A k \in 1..Len(a) : w[k] = a[k]
      /\ \A k \in 1..Len(b) : w[Len(a) + k] = b[k]
  BY <1>5, Joining
<1>7. RemoveAt(s, i) = w
  BY <1>4
<1> HIDE DEF w
<1>8. Len(w) = Len(s) - 1 /\ DOMAIN w = 1..Len(w)
  BY <1>1, <1>2, <1>3, <1>6
<1>9. ASSUME NEW j \in 1..Len(s) - 1 PROVE \E k \in DOMAIN s : w[j] = s[k]
  <2>1. CASE j <= i - 1
    <3>1. w[j] = a[j] /\ a[j] = s[j] /\ j \in DOMAIN s
      BY <1>1, <1>2, <1>6, <2>1
    <3> QED
      BY <3>1
  <2>2. CASE j > i - 1
    <3> DEFINE k == j - (i - 1)
    <3>1. k \in 1..Len(s) - i /\ Len(a) + k = j /\ i + k \in 1..Len(s)
      BY <1>1, <1>2, <2>2
    <3> HIDE DEF k
    <3>2. w[j] = b[k] /\ b[k] = s[i + k] /\ i + k \in DOMAIN s
      BY <1>1, <1>3, <1>6, <3>1
    <3> QED
      BY <3>2
  <2> QED
    BY <1>1, <2>1, <2>2
<1> QED
  BY <1>1, <1>6, <1>7, <1>8, <1>9

\* refresh after the cookie became that of an account, or was dropped.
LEMMA RefreshKeeps ==
  ASSUME Inv, NEW c \in Clients, NEW t \in Tokens, Refresh(c, t),
         t = NoUser \/ \E u \in users : Claims(u) = t
  PROVE  /\ cookie' \in [Clients -> Tokens] /\ refreshes' \in [Clients -> Seq(Tokens)]
         /\ settled' \in [Clients -> BOOLEAN] /\ UNCHANGED <<serverVars, page>>
         /\ Unique' /\ Known' /\ Settled'
<1>1. /\ cookie \in [Clients -> Tokens] /\ refreshes \in [Clients -> Seq(Tokens)]
      /\ settled \in [Clients -> BOOLEAN]
  BY DEF Inv, Types, TypeOK
<1>2. /\ cookie' = [cookie EXCEPT ![c] = t]
      /\ refreshes' = [refreshes EXCEPT ![c] = Append(@, t)]
      /\ settled' = [settled EXCEPT ![c] = refreshes[c] = <<>> \/ (@ /\ t = cookie[c])]
      /\ UNCHANGED <<serverVars, page>>
  BY DEF Refresh
<1>3. /\ cookie'[c] = t /\ refreshes'[c] = Append(refreshes[c], t)
      /\ \A d \in Clients \ {c} : /\ cookie'[d] = cookie[d] /\ refreshes'[d] = refreshes[d]
                                  /\ settled'[d] = settled[d]
  BY <1>1, <1>2
<1>4. settled'[c] = (refreshes[c] = <<>> \/ (settled[c] /\ t = cookie[c]))
  BY <1>1, <1>2, Zenon
<1>5. Append(refreshes[c], t) \in Seq(Tokens) /\ Append(refreshes[c], t) # <<>>
  BY <1>1, Appending
<1>6. cookie' \in [Clients -> Tokens] /\ refreshes' \in [Clients -> Seq(Tokens)]
  BY <1>1, <1>2, <1>5
<1>7. settled' \in [Clients -> BOOLEAN]
  BY <1>1, <1>2, Zenon
<1>8. Unique' /\ Known'
  BY <1>2, <1>3 DEF Inv, Unique, Known, serverVars, Claims
<1>9. ASSUME settled'[c], NEW i \in DOMAIN refreshes'[c] PROVE refreshes'[c][i] = t
  <2>1. i \in 1..Len(refreshes[c]) + 1 /\ refreshes[c] \in Seq(Tokens)
    BY <1>1, <1>3, <1>9
  <2>2. CASE i = Len(refreshes[c]) + 1
    BY <1>3, <2>1, <2>2
  <2>3. CASE i \in DOMAIN refreshes[c]
    <3>1. refreshes[c] # <<>>
      BY <2>3
    <3>2. settled[c] /\ t = cookie[c]
      BY <1>4, <1>9, <3>1
    <3>3. refreshes[c][i] = t
      BY <2>3, <3>2 DEF Inv, Settled
    <3> QED
      BY <1>3, <2>1, <2>3, <3>3
  <2> QED
    BY <2>1, <2>2, <2>3
<1>10. Settled'
  <2>1. page' = page
    BY <1>2
  <2>2. ASSUME NEW d \in Clients \ {c}, settled'[d]
        PROVE  /\ \A i \in DOMAIN refreshes'[d] : refreshes'[d][i] = cookie'[d]
               /\ refreshes'[d] = <<>> => page'[d] = [loading |-> FALSE, user |-> cookie'[d]]
    BY <1>3, <2>1, <2>2 DEF Inv, Settled
  <2>3. ASSUME settled'[c]
        PROVE  /\ \A i \in DOMAIN refreshes'[c] : refreshes'[c][i] = cookie'[c]
               /\ refreshes'[c] # <<>>
    BY <1>3, <1>5, <1>9, <2>3
  <2> QED
    BY <2>2, <2>3 DEF Settled
<1> QED
  BY <1>2, <1>6, <1>7, <1>8, <1>10

\* The steps of a page keep the invariant.
LEMMA PageInv ==
  ASSUME Inv, NEW c \in Clients,
         \/ Submit(c) \/ Success(c) \/ Failure(c) \/ AnswerCut(c) \/ Logout(c)
         \/ Refreshed(c) \/ RefreshFails(c) \/ Reload(c) \/ Expire(c)
  PROVE  Inv'
<1>0. /\ cookie \in [Clients -> Tokens] /\ refreshes \in [Clients -> Seq(Tokens)]
      /\ page \in [Clients -> [loading : BOOLEAN, user : Tokens]]
      /\ settled \in [Clients -> BOOLEAN] /\ NoUser \in Tokens
  BY DEF Inv, Types, TypeOK, Tokens
<1>1. CASE Submit(c)
  BY <1>1, SubmitInv DEF Inv
<1>2. CASE Success(c)
  <2>1. /\ request[c].phase = "answered" /\ request[c].status \in {200, 201}
        /\ Refresh(c, request[c].claims)
        /\ request' = [request EXCEPT ![c] = NoRequest] /\ count' = count
    BY <1>2 DEF Success, Ok
  <2>2. request[c] \in Requests
    BY <2>1, UnderWay DEF Inv
  <2>3. Fulfils(users, request[c]) /\ request[c].claims \in Tokens
    BY <2>2 DEF Inv, Outcome, Requests
  <2>4. \E u \in users : Claims(u) = request[c].claims
    BY <2>1, <2>3 DEF Fulfils, MadeBy
  <2>5. /\ cookie' \in [Clients -> Tokens] /\ refreshes' \in [Clients -> Seq(Tokens)]
        /\ settled' \in [Clients -> BOOLEAN] /\ UNCHANGED <<serverVars, page>>
        /\ Unique' /\ Known' /\ Settled'
    BY <2>1, <2>3, <2>4, RefreshKeeps
  <2>6. /\ request' \in [Clients -> Requests \cup {NoRequest}]
        /\ Kinds' /\ Numbered' /\ Outcome'
    BY <2>1, <2>5, RequestOver
  <2>7. Types'
    BY <2>1, <2>5, <2>6, PhaseTypes DEF Inv, Types, TypeOK, serverVars
  <2> QED
    BY <2>5, <2>6, <2>7 DEF Inv
<1>3. CASE Failure(c)
  <2>1. request' = [request EXCEPT ![c] = NoRequest] /\ UNCHANGED <<serverVars, count, pageVars>>
    BY <1>3 DEF Failure
  <2>2. /\ request' \in [Clients -> Requests \cup {NoRequest}]
        /\ Kinds' /\ Numbered' /\ Outcome'
    BY <2>1, RequestOver
  <2>3. Types'
    BY <2>1, <2>2, PhaseTypes DEF Inv, Types, TypeOK, serverVars, pageVars
  <2>4. Unique' /\ Known' /\ Settled'
    BY <2>1 DEF Inv, Unique, Known, Settled, serverVars, pageVars, Claims
  <2> QED
    BY <2>2, <2>3, <2>4 DEF Inv
<1>4. CASE Logout(c)
  <2> DEFINE t == IF sameSite THEN NoUser ELSE cookie[c]
  <2>1. Refresh(c, t) /\ count < MaxRequests /\ count' = count + 1 /\ request' = request
    BY <1>4 DEF Logout
  <2>2. t \in Tokens /\ (t = NoUser \/ \E u \in users : Claims(u) = t)
    BY <1>0 DEF Inv, Known
  <2> HIDE DEF t
  <2>3. /\ cookie' \in [Clients -> Tokens] /\ refreshes' \in [Clients -> Seq(Tokens)]
        /\ settled' \in [Clients -> BOOLEAN] /\ UNCHANGED <<serverVars, page>>
        /\ Unique' /\ Known' /\ Settled'
    BY <2>1, <2>2, RefreshKeeps
  <2>4. count \in Nat /\ count' \in 0..MaxRequests
    BY <2>1, AccountsAssumption DEF Inv, Types, TypeOK
  <2>5. Types'
    BY <2>1, <2>3, <2>4 DEF Inv, Types, TypeOK, serverVars
  <2>6. Numbered'
    <3>1. /\ \A u \in users : u.by \in 1..MaxRequests /\ u.by <= count
          /\ \A d \in Clients : request[d] \in Requests =>
                request[d].number \in 1..MaxRequests /\ request[d].number <= count
      BY DEF Inv, Types, TypeOK, Numbered, Requests
    <3>2. /\ \A u \in users : u.by <= count'
          /\ \A d \in Clients : request[d] \in Requests => request[d].number <= count'
      BY <2>1, <2>4, <3>1, AccountsAssumption
    <3> QED
      BY <2>1, <2>3, <3>2 DEF Inv, Numbered, serverVars
  <2>7. Kinds' /\ Outcome'
    BY <2>1, <2>3 DEF Inv, Kinds, Outcome, serverVars
  <2> QED
    BY <2>3, <2>5, <2>6, <2>7 DEF Inv
<1>5. ASSUME UNCHANGED <<serverVars, request, count>>,
             cookie' \in [Clients -> Tokens], refreshes' \in [Clients -> Seq(Tokens)],
             page' \in [Clients -> [loading : BOOLEAN, user : Tokens]],
             settled' \in [Clients -> BOOLEAN], Known', Settled'
      PROVE  Inv'
  <2>1. Types'
    BY <1>5 DEF Inv, Types, TypeOK, serverVars
  <2>2. Kinds' /\ Numbered' /\ Unique' /\ Outcome'
    BY <1>5 DEF Inv, Kinds, Numbered, Unique, Outcome, serverVars
  <2> QED
    BY <1>5, <2>1, <2>2 DEF Inv
<1>6. CASE Refreshed(c)
  <2>1. PICK i \in DOMAIN refreshes[c] :
           /\ page' = [page EXCEPT ![c] = [loading |-> FALSE, user |-> refreshes[c][i]]]
           /\ refreshes' = [refreshes EXCEPT ![c] = RemoveAt(@, i)]
           /\ UNCHANGED <<serverVars, request, count, cookie, settled>>
    BY <1>6 DEF Refreshed
  <2>2. /\ RemoveAt(refreshes[c], i) \in Seq(Tokens) /\ refreshes[c][i] \in Tokens
        /\ \A j \in DOMAIN RemoveAt(refreshes[c], i) :
              \E k \in DOMAIN refreshes[c] : RemoveAt(refreshes[c], i)[j] = refreshes[c][k]
    BY <1>0, Removing
  <2>3. refreshes' \in [Clients -> Seq(Tokens)] /\ page' \in [Clients -> [loading : BOOLEAN, user : Tokens]]
    BY <1>0, <2>1, <2>2
  <2>4. /\ refreshes'[c] = RemoveAt(refreshes[c], i)
        /\ page'[c] = [loading |-> FALSE, user |-> refreshes[c][i]]
        /\ \A d \in Clients \ {c} : refreshes'[d] = refreshes[d] /\ page'[d] = page[d]
    BY <1>0, <2>1
  <2>5. ASSUME settled[c]
        PROVE  /\ \A j \in DOMAIN refreshes'[c] : refreshes'[c][j] = cookie[c]
               /\ page'[c] = [loading |-> FALSE, user |-> cookie[c]]
    <3>1. \A k \in DOMAIN refreshes[c] : refreshes[c][k] = cookie[c]
      BY <2>5 DEF Inv, Settled
    <3> QED
      BY <2>2, <2>4, <3>1
  <2>6. ASSUME NEW d \in Clients \ {c}, settled[d]
        PROVE  /\ \A j \in DOMAIN refreshes'[d] : refreshes'[d][j] = cookie[d]
               /\ refreshes'[d] = <<>> => page'[d] = [loading |-> FALSE, user |-> cookie[d]]
    BY <2>4, <2>6 DEF Inv, Settled
  <2>7. Settled'
    <3>1. cookie' = cookie /\ settled' = settled
      BY <2>1
    <3> QED
      BY <2>5, <2>6, <3>1 DEF Settled
  <2>8. Known'
    BY <2>1 DEF Inv, Known, serverVars, Claims
  <2> QED
    BY <1>0, <1>5, <2>1, <2>3, <2>7, <2>8
<1>7. CASE RefreshFails(c)
  <2>1. PICK i \in DOMAIN refreshes[c] :
           /\ page' = [page EXCEPT ![c] = [loading |-> FALSE, user |-> NoUser]]
           /\ refreshes' = [refreshes EXCEPT ![c] = RemoveAt(@, i)]
           /\ settled' = [settled EXCEPT ![c] = FALSE]
           /\ UNCHANGED <<serverVars, request, count, cookie>>
    BY <1>7 DEF RefreshFails
  <2>2. RemoveAt(refreshes[c], i) \in Seq(Tokens)
    BY <1>0, Removing
  <2>3. refreshes' \in [Clients -> Seq(Tokens)] /\ page' \in [Clients -> [loading : BOOLEAN, user : Tokens]]
    BY <1>0, <2>1, <2>2
  <2>4. settled' \in [Clients -> BOOLEAN] /\ ~settled'[c]
        /\ \A d \in Clients \ {c} : settled'[d] = settled[d]
    BY <1>0, <2>1
  <2>5. \A d \in Clients \ {c} : refreshes'[d] = refreshes[d] /\ page'[d] = page[d]
    BY <1>0, <2>1
  <2>6. Settled'
    BY <2>1, <2>4, <2>5 DEF Inv, Settled
  <2>7. Known'
    BY <2>1 DEF Inv, Known, serverVars, Claims
  <2> QED
    BY <1>0, <1>5, <2>1, <2>3, <2>4, <2>6, <2>7
<1>8. CASE Reload(c)
  <2>1. /\ page' = [page EXCEPT ![c] = [loading |-> TRUE, user |-> NoUser]]
        /\ refreshes' = [refreshes EXCEPT ![c] = <<cookie[c]>>]
        /\ settled' = [settled EXCEPT ![c] = TRUE]
        /\ UNCHANGED <<serverVars, request, count, cookie>>
    BY <1>8 DEF Reload, Loaded
  <2>2. refreshes' \in [Clients -> Seq(Tokens)] /\ page' \in [Clients -> [loading : BOOLEAN, user : Tokens]]
    BY <1>0, <2>1
  <2>3. settled' \in [Clients -> BOOLEAN] /\ \A d \in Clients \ {c} : settled'[d] = settled[d]
    BY <1>0, <2>1
  <2>4. /\ \A d \in Clients \ {c} : refreshes'[d] = refreshes[d] /\ page'[d] = page[d]
        /\ refreshes'[c] = <<cookie[c]>>
    BY <1>0, <2>1
  <2>5. refreshes'[c] # <<>> /\ \A i \in DOMAIN refreshes'[c] : refreshes'[c][i] = cookie[c]
    BY <2>4
  <2>6. Settled'
    BY <2>1, <2>3, <2>4, <2>5 DEF Inv, Settled
  <2>7. Known'
    BY <2>1 DEF Inv, Known, serverVars, Claims
  <2> QED
    BY <1>0, <1>5, <2>1, <2>2, <2>3, <2>6, <2>7
<1>9. CASE Expire(c)
  <2>1. /\ cookie' = [cookie EXCEPT ![c] = NoUser]
        /\ settled' = [settled EXCEPT ![c] = FALSE]
        /\ UNCHANGED <<serverVars, request, count, refreshes, page>>
    BY <1>9 DEF Expire
  <2>2. /\ cookie' \in [Clients -> Tokens] /\ cookie'[c] = NoUser
        /\ \A d \in Clients \ {c} : cookie'[d] = cookie[d]
    BY <1>0, <2>1
  <2>3. settled' \in [Clients -> BOOLEAN] /\ ~settled'[c]
        /\ \A d \in Clients \ {c} : settled'[d] = settled[d]
    BY <1>0, <2>1
  <2>4. Settled'
    BY <2>1, <2>2, <2>3 DEF Inv, Settled
  <2>5. Known'
    BY <2>1, <2>2 DEF Inv, Known, serverVars, Claims
  <2> QED
    BY <1>0, <1>5, <2>1, <2>2, <2>3, <2>4, <2>5
<1>10. CASE AnswerCut(c)
  <2> DEFINE t == request[c].claims
  <2>1. /\ request[c].phase = "answered" /\ request[c].status \in {200, 201}
        /\ cookie' = [cookie EXCEPT ![c] = t]
        /\ settled' = [settled EXCEPT ![c] = settled[c] /\ t = cookie[c]]
        /\ request' = [request EXCEPT ![c] = NoRequest]
        /\ UNCHANGED <<serverVars, count, refreshes, page>>
    BY <1>10 DEF AnswerCut, Ok
  <2>2. request[c] \in Requests
    BY <2>1, UnderWay DEF Inv
  <2>3. Fulfils(users, request[c]) /\ t \in Tokens
    BY <2>2 DEF Inv, Outcome, Requests
  <2>4. \E u \in users : Claims(u) = t
    BY <2>1, <2>3 DEF Fulfils, MadeBy
  <2> HIDE DEF t
  <2>5. /\ cookie' \in [Clients -> Tokens] /\ cookie'[c] = t
        /\ \A d \in Clients \ {c} : cookie'[d] = cookie[d]
    BY <1>0, <2>1, <2>3
  <2>6. /\ settled' \in [Clients -> BOOLEAN] /\ (settled'[c] => settled[c] /\ t = cookie[c])
        /\ \A d \in Clients \ {c} : settled'[d] = settled[d]
    <3> DEFINE b == settled[c] /\ t = cookie[c]
    <3>1. b \in BOOLEAN /\ settled' = [settled EXCEPT ![c] = b]
      BY <2>1
    <3>2. b => settled[c] /\ t = cookie[c]
      OBVIOUS
    <3> HIDE DEF b
    <3>3. settled'[c] = b /\ settled' \in [Clients -> BOOLEAN]
      BY <1>0, <3>1
    <3>4. \A d \in Clients \ {c} : settled'[d] = settled[d]
      BY <1>0, <3>1
    <3> QED
      BY <3>2, <3>3, <3>4
  <2>7. \A d \in Clients : settled'[d] => settled[d] /\ cookie'[d] = cookie[d]
    BY <2>5, <2>6
  <2>8. Settled'
    BY <2>1, <2>7 DEF Inv, Settled
  <2>9. Known' /\ Unique'
    BY <2>1, <2>4, <2>5 DEF Inv, Known, Unique, serverVars, Claims
  <2>10. /\ request' \in [Clients -> Requests \cup {NoRequest}]
         /\ Kinds' /\ Numbered' /\ Outcome'
    BY <2>1, RequestOver
  <2>11. Types'
    BY <2>1, <2>5, <2>6, <2>10, PhaseTypes DEF Inv, Types, TypeOK, serverVars
  <2> QED
    BY <2>8, <2>9, <2>10, <2>11 DEF Inv
<1> QED
  BY <1>1, <1>2, <1>3, <1>4, <1>6, <1>7, <1>8, <1>9, <1>10

-----------------------------------------------------------------------------
(* The theorems                                                               *)

\* The table is empty, no request is under way, every page asks who it is.
LEMMA InitInv == Init => Inv
<1> SUFFICES ASSUME Init PROVE Inv
  OBVIOUS
<1>1. NoUser \in Tokens /\ <<NoUser>> \in Seq(Tokens) /\ <<NoUser>> # <<>>
      /\ \A i \in DOMAIN <<NoUser>> : <<NoUser>>[i] = NoUser
  BY DEF Tokens
<1>2. NoRequest \notin Requests /\ NoRequest.phase = "none"
  BY DEF NoRequest, Requests, Phases
<1>3. [loading |-> TRUE, user |-> NoUser] \in [loading : BOOLEAN, user : Tokens]
  BY <1>1
<1>4. 0 \in 0..MaxRequests
  BY AccountsAssumption
<1>5. IsFiniteSet(users)
  BY FS_EmptySet DEF Init
<1>6. TypeOK
  <2>1. cookie \in [Clients -> Tokens] /\ refreshes \in [Clients -> Seq(Tokens)]
    BY <1>1 DEF Init, Loaded
  <2>2. page \in [Clients -> [loading : BOOLEAN, user : Tokens]] /\ settled \in [Clients -> BOOLEAN]
    BY <1>3 DEF Init
  <2>3. secret \in BOOLEAN /\ sameSite \in BOOLEAN
    BY DEF Init
  <2>4. count \in 0..MaxRequests /\ \A c \in Clients : request[c].phase = "none"
    BY <1>2, <1>4 DEF Init
  <2> QED
    BY <2>1, <2>2, <2>3, <2>4 DEF Init, TypeOK
<1>7. Types
  BY <1>5, <1>6 DEF Init, Types
<1>8. Kinds /\ Numbered /\ Unique /\ Outcome
  BY <1>2 DEF Init, Kinds, Numbered, Unique, Outcome
<1>9. Known /\ Settled
  BY <1>1 DEF Init, Known, Settled, Loaded
<1> QED
  BY <1>7, <1>8, <1>9 DEF Inv

\* The inductive invariant holds in every behaviour.
THEOREM InvHolds == Spec => []Inv
<1>1. ASSUME Inv, [Next]_vars PROVE Inv'
  <2>1. CASE Next
    BY <1>1, <2>1, ServerInv, PageInv DEF Next
  <2>2. CASE UNCHANGED vars
    BY <1>1, <2>2 DEF vars, serverVars, pageVars, Inv, Types, TypeOK, Kinds, Numbered, Unique,
                      Outcome, Known, Settled
  <2> QED
    BY <1>1, <2>1, <2>2
<1> QED
  BY InitInv, <1>1, PTL DEF Spec

\* Types of the table, the requests, the cookies and the pages.
THEOREM TypeOKHolds == Spec => []TypeOK
<1>1. Inv => TypeOK
  BY DEF Inv, Types
<1> QED
  BY <1>1, InvHolds, PTL

\* However registrations and logins of any number of browsers interleave, the
\* handlers of UserRoutes.cpp answer what the table says, every token is that
\* of an account, and a settled page shows who its cookie says is logged in.
THEOREM AnsweredAsStoredHolds == Spec => []AnsweredAsStored
<1>1. ASSUME Inv PROVE AnsweredAsStored
  <2>1. \A u, v \in users : u.username = v.username \/ u.email = v.email \/ u.id = v.id => u = v
    BY <1>1 DEF Inv, Unique
  <2>2. ASSUME NEW c \in Clients, request[c].phase = "answered"
        PROVE  LET r == request[c] IN
                 /\ r.status = 201 => \E u \in Stored(c) : /\ Claims(u) = r.claims /\ u.username = r.username
                                                           /\ u.email = r.email /\ u.password = r.password
                 /\ r.status = 200 => \E u \in users : /\ Claims(u) = r.claims
                                                       /\ u.username = r.username /\ u.password = r.password
                 /\ r.status \in {401, 409, 422} => Stored(c) = {}
    <3>1. request[c] \in Requests
      BY <1>1, <2>2, UnderWay DEF Inv
    <3>2. Fulfils(users, request[c])
      BY <1>1, <3>1 DEF Inv, Outcome
    <3>3. Stored(c) = MadeBy(users, request[c].number)
      BY DEF Stored, MadeBy
    <3> QED
      BY <2>2, <3>2, <3>3 DEF Fulfils, AsAsked
  <2>3. \A c \in Clients : cookie[c] = NoUser \/ \E u \in users : Claims(u) = cookie[c]
    BY <1>1 DEF Inv, Known
  <2>4. \A c \in Clients :
           settled[c] /\ refreshes[c] = <<>> => page[c] = [loading |-> FALSE, user |-> cookie[c]]
    BY <1>1 DEF Inv, Settled
  <2> QED
    BY <2>1, <2>2, <2>3, <2>4 DEF AnsweredAsStored
<1> QED
  BY <1>1, InvHolds, PTL

=============================================================================
