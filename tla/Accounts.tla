------------------------------- MODULE Accounts -------------------------------
(* Registration, login, logout and the session of the page: the handlers of   *)
(* UserRoutes.cpp against the users table, the token cookie of each browser,  *)
(* and AuthProvider's refresh in the page (useAuth.tsx).                      *)
(*                                                                            *)
(* A password stands for its hash.  A token is the claims it carries; when it *)
(* expires the browser has dropped its cookie, since both live as long.       *)
EXTENDS Naturals, FiniteSets, Sequences, SequencesExt

CONSTANTS Clients,       \* browsers
          Names, Mails, Passwords,
          MaxRequests,   \* bound on the forms sent and the logouts
          MaxRefreshes   \* bound on the refreshes a page has under way

ASSUME AccountsAssumption == /\ IsFiniteSet(Clients) /\ IsFiniteSet(Names)
                             /\ IsFiniteSet(Mails) /\ IsFiniteSet(Passwords)
                             /\ MaxRequests \in Nat /\ MaxRefreshes \in Nat

VARIABLES secret,      \* JWT_SECRET is configured
          sameSite,    \* page and API are on one site
          users,       \* the table users; by: the request that made the row
          request,     \* the form each client has sent, with its handler
          count,       \* how many forms and logouts were sent
          cookie,      \* the claims of its token cookie
          refreshes,   \* the answers to GET /api/users/me under way
          page,        \* AuthProvider's state: what it shows
          settled      \* history: no change of the cookie while a refresh was
                       \* under way, and the last was answered
serverVars == <<secret, sameSite, users>>
pageVars == <<cookie, refreshes, page, settled>>
vars == <<serverVars, request, count, pageVars>>

NoUser == [id |-> 0, username |-> "none"]
Claims(u) == [id |-> u.id, username |-> u.username]

NoRequest == [phase |-> "none"]
Forms(kind, mails) == [phase : {"received"}, kind : {kind}, username : Names, email : mails,
                       password : Passwords, number : {count + 1}, status : {0}, claims : {NoUser}]

\* useEffect: a page asks /api/users/me when it is loaded.
Loaded(claims) == <<claims>>

Init == /\ secret \in BOOLEAN /\ sameSite \in BOOLEAN
        /\ users = {}
        /\ request = [c \in Clients |-> NoRequest] /\ count = 0
        /\ cookie = [c \in Clients |-> NoUser]
        /\ refreshes = [c \in Clients |-> Loaded(NoUser)]
        /\ page = [c \in Clients |-> [loading |-> TRUE, user |-> NoUser]]
        /\ settled = [c \in Clients |-> TRUE]

-----------------------------------------------------------------------------
(* The server                                                                 *)

\* The handler of c's request goes from phase p to phase q.
Handle(c, p, q) == /\ request[c].phase = p
                   /\ request' = [request EXCEPT ![c].phase = q]
                   /\ UNCHANGED <<secret, sameSite, count, pageVars>>

\* It ends with a status; claims: of the token in Set-Cookie.
Reply(c, p, status, claims) ==
  /\ request[c].phase = p
  /\ request' = [request EXCEPT ![c].phase = "answered", ![c].status = status, ![c].claims = claims]
  /\ UNCHANGED <<secret, sameSite, count, pageVars>>

\* A field is missing or malformed; else the first query follows.
Invalid(c) == Reply(c, "received", 422, NoUser) /\ UNCHANGED users

Registers(c) == request[c].phase # "none" /\ request[c].kind = "register"
Logins(c) == request[c].phase # "none" /\ request[c].kind = "login"

Taken(c) == {u \in users : u.username = request[c].username}
MailTaken(c) == {u \in users : u.email = request[c].email}

IsUsernameTaken(c) == /\ Registers(c)
                      /\ IF Taken(c) = {} THEN Handle(c, "received", "nameFree")
                                          ELSE Reply(c, "received", 409, NoUser)
                      /\ UNCHANGED users

IsEmailTaken(c) == /\ request[c].phase = "nameFree"
                   /\ IF MailTaken(c) = {} THEN Handle(c, "nameFree", "free")
                                           ELSE Reply(c, "nameFree", 409, NoUser)
                   /\ UNCHANGED users

Insert(c) == users' = users \cup {[id |-> Cardinality(users) + 1, username |-> request[c].username,
                                   email |-> request[c].email, password |-> request[c].password,
                                   by |-> request[c].number]}

\* INSERT, under the table's UNIQUE constraints.
Create(c) == /\ request[c].phase = "free"
             /\ Taken(c) \cup MailTaken(c) = {}
             /\ Handle(c, "free", "stored")
             /\ Insert(c)

\* Mutated form of UniqueViolation: the exception is taken for success.
UniqueViolationIgnored(c) == /\ request[c].phase = "free"
                             /\ Taken(c) \cup MailTaken(c) # {}
                             /\ Reply(c, "free", 201, NoUser)
                             /\ UNCHANGED users

UniqueViolation(c) == /\ request[c].phase = "free"
                      /\ Taken(c) \cup MailTaken(c) # {}
                      /\ Reply(c, "free", 409, NoUser)
                      /\ UNCHANGED users

\* Another error of the database: HandleRead answers with a 500,
Throws(c) == /\ \E p \in {"received", "nameFree", "free"} : Reply(c, p, 500, NoUser)
             /\ UNCHANGED users

\* also when only the answer to the commit was lost.
CommitInDoubt(c) == /\ request[c].phase = "free"
                    /\ Taken(c) \cup MailTaken(c) = {}
                    /\ Reply(c, "free", 500, NoUser)
                    /\ Insert(c)

\* jwt::Create and Set-Cookie; without JWT_SECRET a 500.
Grant(c, p, ok) == /\ request[c].phase = p
                   /\ \E u \in Taken(c) : Reply(c, p, IF secret THEN ok ELSE 500,
                                                IF secret THEN Claims(u) ELSE NoUser)
                   /\ UNCHANGED users

Registered(c) == Grant(c, "stored", 201)

FindByUsername(c) == {u \in Taken(c) : u.password = request[c].password}

LoggedIn(c) == Logins(c) /\ FindByUsername(c) # {} /\ Grant(c, "received", 200)

\* No such user, or another password.
Unauthorized(c) == /\ Logins(c) /\ FindByUsername(c) = {}
                   /\ Reply(c, "received", 401, NoUser)
                   /\ UNCHANGED users

Server(c) == \/ Invalid(c) \/ IsUsernameTaken(c) \/ IsEmailTaken(c)
             \/ Create(c) \/ UniqueViolation(c) \/ Throws(c) \/ CommitInDoubt(c) \/ Registered(c)
             \/ LoggedIn(c) \/ Unauthorized(c)

-----------------------------------------------------------------------------
(* The page                                                                   *)

\* submittingRef: one form at a time.
Submit(c) == /\ request[c].phase = "none" /\ count < MaxRequests
             /\ \E form \in Forms("register", Mails) \cup Forms("login", {"none"}) :
                  request' = [request EXCEPT ![c] = form]
             /\ count' = count + 1
             /\ UNCHANGED <<serverVars, pageVars>>

\* refresh, with the cookie as it now is.
Refresh(c, claims) ==
  /\ Len(refreshes[c]) < MaxRefreshes
  /\ cookie' = [cookie EXCEPT ![c] = claims]
  /\ refreshes' = [refreshes EXCEPT ![c] = Append(@, claims)]
  /\ settled' = [settled EXCEPT ![c] = refreshes[c] = <<>> \/ (@ /\ claims = cookie[c])]
  /\ UNCHANGED <<serverVars, page>>

Ok(c) == request[c].phase = "answered" /\ request[c].status \in {200, 201}

\* res.ok: the cookie is set, then refresh.
Success(c) == /\ Ok(c)
              /\ Refresh(c, request[c].claims)
              /\ request' = [request EXCEPT ![c] = NoRequest]
              /\ UNCHANGED count

\* Another status, or the answer is lost: an error is shown.
Failure(c) == /\ request[c].phase = "answered"
              /\ request' = [request EXCEPT ![c] = NoRequest]
              /\ UNCHANGED <<serverVars, count, pageVars>>

\* The answer is cut behind its headers: the browser has the cookie, res.text()
\* throws, and nothing is refreshed.
AnswerCut(c) == /\ Ok(c)
                /\ cookie' = [cookie EXCEPT ![c] = request[c].claims]
                /\ settled' = [settled EXCEPT ![c] = @ /\ request[c].claims = cookie[c]]
                /\ request' = [request EXCEPT ![c] = NoRequest]
                /\ UNCHANGED <<serverVars, count, refreshes, page>>

\* Mutated form of Logout: the cookie stays, with an empty token.
LogoutBlank(c) == /\ page[c].user # NoUser /\ count < MaxRequests
                  /\ Refresh(c, [NoUser EXCEPT !.username = ""])
                  /\ count' = count + 1
                  /\ UNCHANGED request

\* The navbar's button.  A page on another site may not set a cookie with
\* SameSite=Lax: the token stays.  (A fetch that is rejected has had no headers
\* and is followed by nothing: it changes neither cookie nor page.)
Logout(c) == /\ page[c].user # NoUser /\ count < MaxRequests
             /\ Refresh(c, IF sameSite THEN NoUser ELSE cookie[c])
             /\ count' = count + 1
             /\ UNCHANGED request

\* An answer to /api/users/me; refreshes may overtake one another.
Refreshed(c) == \E i \in DOMAIN refreshes[c] :
  /\ page' = [page EXCEPT ![c] = [loading |-> FALSE, user |-> refreshes[c][i]]]
  /\ refreshes' = [refreshes EXCEPT ![c] = RemoveAt(@, i)]
  /\ UNCHANGED <<serverVars, request, count, cookie, settled>>

\* fetch throws: the page takes itself for logged out.
RefreshFails(c) == \E i \in DOMAIN refreshes[c] :
  /\ page' = [page EXCEPT ![c] = [loading |-> FALSE, user |-> NoUser]]
  /\ refreshes' = [refreshes EXCEPT ![c] = RemoveAt(@, i)]
  /\ settled' = [settled EXCEPT ![c] = FALSE]
  /\ UNCHANGED <<serverVars, request, count, cookie>>

Reload(c) == /\ request[c].phase = "none"
             /\ page' = [page EXCEPT ![c] = [loading |-> TRUE, user |-> NoUser]]
             /\ refreshes' = [refreshes EXCEPT ![c] = Loaded(cookie[c])]
             /\ settled' = [settled EXCEPT ![c] = TRUE]
             /\ UNCHANGED <<serverVars, request, count, cookie>>

\* SESSION_SECONDS have passed.
Expire(c) == /\ cookie[c] # NoUser
             /\ cookie' = [cookie EXCEPT ![c] = NoUser]
             /\ settled' = [settled EXCEPT ![c] = FALSE]
             /\ UNCHANGED <<serverVars, request, count, refreshes, page>>

Next == \E c \in Clients : \/ Server(c)
                           \/ Submit(c) \/ Success(c) \/ Failure(c) \/ AnswerCut(c) \/ Logout(c)
                           \/ Refreshed(c) \/ RefreshFails(c) \/ Reload(c) \/ Expire(c)

Spec == Init /\ [][Next]_vars

-----------------------------------------------------------------------------
Tokens == [id : Nat \ {0}, username : Names] \cup {NoUser}

TypeOK == /\ secret \in BOOLEAN /\ sameSite \in BOOLEAN
          /\ users \subseteq [id : Nat \ {0}, username : Names, email : Mails, password : Passwords,
                              by : 1..MaxRequests]
          /\ count \in 0..MaxRequests
          /\ \A c \in Clients : request[c].phase \in
               {"none", "received", "nameFree", "free", "stored", "answered"}
          /\ cookie \in [Clients -> Tokens]
          /\ refreshes \in [Clients -> Seq(Tokens)]
          /\ page \in [Clients -> [loading : BOOLEAN, user : Tokens]]
          /\ settled \in [Clients -> BOOLEAN]

Stored(c) == {u \in users : u.by = request[c].number}

\* What the handlers answer is what the table says, however requests interleave:
\* success means the account is there as it was asked for, a refusal that the
\* request made none; names and addresses are unique and every token is that of
\* an account.  And a page whose cookie did not change while it asked shows who
\* is logged in.
AnsweredAsStored ==
  /\ \A u, v \in users : u.username = v.username \/ u.email = v.email \/ u.id = v.id => u = v
  /\ \A c \in Clients : request[c].phase = "answered" =>
       LET r == request[c] IN
         /\ r.status = 201 => \E u \in Stored(c) : /\ Claims(u) = r.claims /\ u.username = r.username
                                                   /\ u.email = r.email /\ u.password = r.password
         /\ r.status = 200 => \E u \in users : /\ Claims(u) = r.claims
                                               /\ u.username = r.username /\ u.password = r.password
         /\ r.status \in {401, 409, 422} => Stored(c) = {}
  /\ \A c \in Clients : cookie[c] = NoUser \/ \E u \in users : Claims(u) = cookie[c]
  /\ \A c \in Clients :
       settled[c] /\ refreshes[c] = <<>> => page[c] = [loading |-> FALSE, user |-> cookie[c]]
=============================================================================
