----------------------------- MODULE ChatProofs -----------------------------
(* The chat's safety, for any messages, viewers and nodes.  What a page       *)
(* shows is persisted because what is published is, and stays so; what a page *)
(* is sent comes in the order of publication because of how the frames sent,  *)
(* the relay's position in its broadcast and the messages still in the        *)
(* channel lie in the log relative to one another (Order).                    *)
EXTENDS Chat, TLAPS, FiniteSetTheorems

\* m comes before k in s.
Before(s, m, k) == \E i, j \in DOMAIN s : i < j /\ s[i] = m /\ s[j] = k

Types == TypeOK /\ seen \in [Viewers -> Nat]

\* Every row has a number of its own.
Numbers == /\ \A m \in Messages : id[m] <= serial
           /\ \A m \in Messages : pc[m] \notin {"typed", "dropped"} => id[m] > 0
           /\ \A m, k \in Messages : id[m] = id[k] /\ id[m] > 0 => m = k

\* Whatever is under way to a page is a committed row.
Stored == /\ \A i \in DOMAIN log : log[i] \in Rows
          /\ \A v \in Viewers : \A i \in DOMAIN answer[v] : answer[v][i] \in Rows
          /\ \A v \in Viewers : \A i \in DOMAIN messages[v] : messages[v][i] \in Rows

\* What the relays and the viewers have was published.
Published == /\ \A n \in Nodes : \A i \in DOMAIN channel[n] : Holds(log, channel[n][i])
             /\ \A v \in Viewers : \A i \in DOMAIN frames[v] : Holds(log, frames[v][i])

\* Viewer v is through with the message at the head of its relay's channel.
Served(v) == relay[NodeOf[v]] = "sending" /\ v \notin sending[NodeOf[v]]

\* Channels and frames follow the log, and what a viewer was sent comes before
\* what its relay has still to send it.
Order == /\ \A n \in Nodes : \A i, j \in DOMAIN channel[n] :
               i < j => Before(log, channel[n][i], channel[n][j])
         /\ \A v \in Viewers : \A i, j \in DOMAIN frames[v] :
               i < j => Before(log, frames[v][i], frames[v][j])
         /\ \A v \in Viewers : \A i \in DOMAIN frames[v] : \A j \in DOMAIN channel[NodeOf[v]] :
               j > 1 \/ ~Served(v) => Before(log, frames[v][i], channel[NodeOf[v]][j])

\* Neither an answer nor a page has a message twice.
Once == /\ \A v \in Viewers : \A i, j \in DOMAIN answer[v] :
              answer[v][i] = answer[v][j] => i = j
        /\ ShownOnce

Inv == Types /\ Numbers /\ Stored /\ Published /\ Order /\ Once

\* A frame that a page processes is on the page from then on: comparing ids
\* never takes one message for another (StreamView.tsx, the id check in
\* ws.onmessage).
ReceivedIsShown ==
  [][\A v \in Viewers : seen'[v] # seen[v] => Holds(messages'[v], frames[v][seen[v] + 1])]_vars

\* The relay of viewer v's node still has m to send to v.
ToCome(v, m) == \E i \in DOMAIN channel[NodeOf[v]] :
                   channel[NodeOf[v]][i] = m /\ (i = 1 => ~Served(v))

\* No relay skips a viewer: a message that a viewer was registered for is among
\* its frames or still in its relay's channel, until the viewer leaves or the
\* relay loses Redis (ChatRelay, ViewerRegistry::Broadcast).
NothingSkipped ==
  \A m \in Messages : \A v \in audience[m] :
     v \in viewers_ /\ relay[NodeOf[v]] # "exited" =>
        Holds(frames[v], m) \/ Holds(channel[NodeOf[v]], m)

\* NothingSkipped with the place of the broadcast; who was there and is gone has
\* left for good.
Delivery == \A m \in Messages : \A v \in audience[m] :
               /\ v \notin viewers_ => history[v] = "left"
               /\ v \in viewers_ /\ relay[NodeOf[v]] # "exited" =>
                     Holds(frames[v], m) \/ ToCome(v, m)

-----------------------------------------------------------------------------
(* Sequences                                                                  *)

\* Appending one element.
LEMMA Appending ==
  ASSUME NEW S, NEW s \in Seq(S), NEW e \in S
  PROVE  /\ Append(s, e) \in Seq(S)
         /\ Len(Append(s, e)) = Len(s) + 1
         /\ DOMAIN Append(s, e) = 1..Len(s) + 1
         /\ DOMAIN s = 1..Len(s)
         /\ \A i \in DOMAIN s : Append(s, e)[i] = s[i]
         /\ Append(s, e)[Len(s) + 1] = e
         /\ Append(s, e) # <<>>
  OBVIOUS

\* An element of a sequence to which e may have been appended: e itself, after
\* all the others, or an element at its old place.
LEMMA Grown ==
  ASSUME NEW S, NEW s \in Seq(S), NEW e \in S, NEW t, t = s \/ t = Append(s, e),
         NEW j \in DOMAIN t
  PROVE  \/ /\ t[j] = e
            /\ \A i \in DOMAIN t : i < j => i \in DOMAIN s /\ t[i] = s[i]
         \/ /\ j \in DOMAIN s /\ t[j] = s[j]
            /\ \A i \in DOMAIN t : i < j => i \in DOMAIN s /\ t[i] = s[i]
<1>1. CASE t = s
  BY <1>1
<1>2. CASE t = Append(s, e)
  BY <1>2, Appending
<1> QED
  BY <1>1, <1>2

\* Taking off the first.
LEMMA Tailing ==
  ASSUME NEW S, NEW s \in Seq(S), s # <<>>
  PROVE  /\ Tail(s) \in Seq(S)
         /\ Head(s) = s[1] /\ Head(s) \in S /\ 1 \in DOMAIN s
         /\ \A i \in DOMAIN Tail(s) : i + 1 \in DOMAIN s /\ i \in Nat \ {0} /\ Tail(s)[i] = s[i + 1]
  OBVIOUS

\* What a step does to the messages' places: nothing is uncommitted.
LEMMA RowsStay ==
  ASSUME TypeOK, [Next]_vars
  PROVE  \A m \in Rows : m \in Rows'
<1> USE DEF database, relays, pages
<1>1. ASSUME NEW m \in Messages, CallbackStep(m) PROVE \A k \in Rows : k \in Rows'
  BY <1>1 DEF CallbackStep, Insert, Commit, Publish, Ignore, InsertFails, PublishFails, Goto,
              Rows, TypeOK
<1>2. ASSUME pc' = pc PROVE \A k \in Rows : k \in Rows'
  BY <1>2 DEF Rows
<1>3. (\E m \in Messages : CallbackStep(m)) \/ pc' = pc
  BY DEF Next, RelayStep, PageStep, RelayNext, RelaySend, RelayDone, RelayExits, Join, Leave,
         GetRecent, ShowHistory, HistoryFails, Receive, Idle, vars
<1> QED
  BY <1>1, <1>2, <1>3

\* What GetRecent returns is a sequence of rows in which none comes twice.
LEMMA RecentOnce ==
  ASSUME TypeOK, NEW n \in 0..Cardinality(Rows), NEW h \in [1..n -> Rows], IsRecent(h)
  PROVE  /\ h \in Seq(Messages)
         /\ \A i \in DOMAIN h : h[i] \in Rows
         /\ \A i, j \in DOMAIN h : h[i] = h[j] => i = j
<1>1. Rows \subseteq Messages
  BY DEF Rows
<1>2. IsFiniteSet(Rows)
  BY <1>1, ChatAssumption, FS_Subset
<1>3. Cardinality(Rows) \in Nat
  BY <1>2, FS_CardinalityType
<1>4. n \in Nat
  BY <1>3
<1>5. h \in Seq(Messages)
  BY <1>1, <1>4
<1>6. ASSUME NEW i \in DOMAIN h, NEW j \in DOMAIN h, h[i] = h[j] PROVE i = j
  <2>1. i \in Nat /\ j \in Nat
    BY <1>4
  <2>2. \A k \in DOMAIN h : id[h[k]] \in Nat
    BY <1>1 DEF TypeOK
  <2>3. ~(i < j) /\ ~(j < i)
    BY <1>6, <2>2 DEF IsRecent
  <2> QED
    BY <2>1, <2>3
<1> QED
  BY <1>5, <1>6

-----------------------------------------------------------------------------
(* Types                                                                      *)

\* Every step keeps the types.
LEMMA NextTypes == Types /\ [Next]_vars => Types'
<1> SUFFICES ASSUME Types, [Next]_vars PROVE Types'
  OBVIOUS
<1> USE DEF database, relays, pages
<1>0. \A S : <<>> \in Seq(S)
  OBVIOUS
<1>1. ASSUME NEW m \in Messages, CallbackStep(m) PROVE Types'
  <2>1. CASE Publish(m)
    <3>1. log' \in Seq(Messages)
      BY <2>1 DEF Publish, Types, TypeOK
    <3>2. channel' \in [Nodes -> Seq(Messages)]
      BY <2>1 DEF Publish, Types, TypeOK
    <3>3. \A n \in Nodes : relay[n] = "sending" => channel'[n] # <<>>
      <4> SUFFICES ASSUME NEW n \in Nodes, relay[n] = "sending" PROVE channel'[n] # <<>>
        OBVIOUS
      <4>1. channel'[n] = Append(channel[n], m)
        BY <2>1 DEF Publish
      <4>2. channel[n] \in Seq(Messages)
        BY DEF Types, TypeOK
      <4> QED
        BY <4>1, <4>2, Appending
    <3> QED
      BY <2>1, <3>1, <3>2, <3>3 DEF Publish, Goto, Types, TypeOK
  <2>2. CASE Insert(m)
    BY <2>2 DEF Insert, Goto, Types, TypeOK
  <2>3. CASE Commit(m) \/ Ignore(m) \/ InsertFails(m) \/ PublishFails(m)
    <3>1. pc' \in [Messages -> {"typed", "inserted", "committed", "published", "unpublished", "dropped"}]
      BY <2>3 DEF Commit, Ignore, InsertFails, PublishFails, Goto, Types, TypeOK
    <3>2. UNCHANGED <<database, relays, viewers_, audience, pages>>
      BY <2>3 DEF Commit, Ignore, InsertFails, PublishFails
    <3> QED
      BY <3>1, <3>2 DEF Types, TypeOK
  <2> QED
    BY <1>1, <2>1, <2>2, <2>3 DEF CallbackStep
<1>2. ASSUME NEW n \in Nodes, RelayStep(n) \/ RelayExits(n) PROVE Types'
  <2>1. CASE RelayNext(n)
    <3>1. Local(n) \subseteq Viewers /\ \A v \in Local(n) : NodeOf[v] = n
      BY DEF Local, Types, TypeOK
    <3> QED
      BY <2>1, <3>1 DEF RelayNext, Types, TypeOK
  <2>2. CASE RelaySend(n)
    <3>1. PICK v \in sending[n] :
             /\ sending' = [sending EXCEPT ![n] = @ \ {v}]
             /\ frames' = IF v \in viewers_
                            THEN [frames EXCEPT ![v] = Append(@, Head(channel[n]))]
                            ELSE frames
      BY <2>2 DEF RelaySend
    <3>2. v \in Viewers /\ channel[n] \in Seq(Messages) /\ channel[n] # <<>> /\ frames[v] \in Seq(Messages)
      BY <2>2 DEF RelaySend, Types, TypeOK
    <3>3. Head(channel[n]) \in Messages
      BY <3>2, Tailing
    <3>4. Append(frames[v], Head(channel[n])) \in Seq(Messages)
          /\ Len(Append(frames[v], Head(channel[n]))) = Len(frames[v]) + 1
      BY <3>2, <3>3, Appending
    <3>5. frames' \in [Viewers -> Seq(Messages)]
      BY <3>1, <3>2, <3>4 DEF Types, TypeOK
    <3>6. \A u \in Viewers : seen[u] \in 0..Len(frames'[u])
      <4> TAKE u \in Viewers
      <4>1. Len(frames[u]) \in Nat /\ seen[u] \in 0..Len(frames[u])
        BY DEF Types, TypeOK
      <4>2. frames'[u] = frames[u] \/ (u = v /\ frames'[u] = Append(frames[v], Head(channel[n])))
        BY <3>1 DEF Types, TypeOK
      <4> QED
        BY <4>1, <4>2, <3>4
    <3> QED
      BY <2>2, <3>1, <3>2, <3>5, <3>6 DEF RelaySend, Types, TypeOK
  <2>3. CASE RelayDone(n)
    <3>1. Tail(channel[n]) \in Seq(Messages)
      BY <2>3, Tailing DEF RelayDone, Types, TypeOK
    <3> QED
      BY <2>3, <3>1 DEF RelayDone, Types, TypeOK
  <2>4. CASE RelayExits(n)
    BY <1>0, <2>4 DEF RelayExits, Types, TypeOK
  <2> QED
    BY <1>2, <2>1, <2>2, <2>3, <2>4 DEF RelayStep
<1>3. ASSUME NEW v \in Viewers, Join(v) \/ Leave(v) \/ PageStep(v) \/ Receive(v) PROVE Types'
  <2>1. CASE Join(v)
    BY <2>1 DEF Join, Types, TypeOK
  <2>2. CASE Leave(v)
    BY <2>2 DEF Leave, Types, TypeOK
  <2>3. CASE GetRecent(v)
    <3>1. PICK n \in 0..Cardinality(Rows) : \E h \in [1..n -> Rows] :
             IsRecent(h) /\ answer' = [answer EXCEPT ![v] = h]
      BY <2>3 DEF GetRecent
    <3>2. PICK h \in [1..n -> Rows] : IsRecent(h) /\ answer' = [answer EXCEPT ![v] = h]
      BY <3>1
    <3>3. h \in Seq(Messages)
      BY <3>2, RecentOnce DEF Types
    <3> QED
      BY <2>3, <3>2, <3>3 DEF GetRecent, Types, TypeOK
  <2>4. CASE ShowHistory(v)
    BY <2>4 DEF ShowHistory, Types, TypeOK
  <2>5. CASE HistoryFails(v)
    BY <2>5 DEF HistoryFails, Types, TypeOK
  <2>6. CASE Receive(v)
    <3> DEFINE m == frames[v][seen[v] + 1]
    <3>1. frames[v] \in Seq(Messages) /\ seen[v] \in Nat /\ seen[v] + 1 \in 1..Len(frames[v])
      BY <2>6 DEF Receive, Types, TypeOK
    <3>2. m \in Messages
      BY <3>1
    <3>3. messages' = messages \/ messages' = [messages EXCEPT ![v] = Append(@, m)]
      BY <2>6 DEF Receive
    <3> HIDE DEF m
    <3>4. messages' \in [Viewers -> Seq(Messages)]
      <4>1. messages \in [Viewers -> Seq(Messages)]
        BY DEF Types, TypeOK
      <4>2. Append(messages[v], m) \in Seq(Messages)
        BY <3>2, <4>1, Appending
      <4> QED
        BY <3>3, <4>1, <4>2
    <3>5. seen' \in [Viewers -> Nat] /\ \A u \in Viewers : seen'[u] \in 0..Len(frames[u])
      BY <2>6, <3>1 DEF Receive, Types, TypeOK
    <3> QED
      BY <2>6, <3>4, <3>5 DEF Receive, Types, TypeOK
  <2> QED
    BY <1>3, <2>1, <2>2, <2>3, <2>4, <2>5, <2>6 DEF PageStep
<1>4. CASE UNCHANGED vars
  BY <1>4 DEF vars, Types, TypeOK
<1> QED
  BY <1>1, <1>2, <1>3, <1>4 DEF Next, Idle

-----------------------------------------------------------------------------
(* Rows and their numbers                                                     *)

\* Every step keeps the rows' numbers apart.
LEMMA NextNumbers == TypeOK /\ Numbers /\ [Next]_vars => Numbers'
<1> SUFFICES ASSUME TypeOK, Numbers, [Next]_vars PROVE Numbers'
  OBVIOUS
<1> USE DEF database, relays, pages
<1>1. ASSUME NEW m \in Messages, Insert(m) PROVE Numbers'
  BY <1>1 DEF Insert, Goto, Numbers, TypeOK
<1>2. ASSUME NEW m \in Messages,
             Commit(m) \/ Publish(m) \/ Ignore(m) \/ InsertFails(m) \/ PublishFails(m)
      PROVE  Numbers'
  <2>1. id' = id /\ serial' = serial
    BY <1>2 DEF Commit, Publish, Ignore, InsertFails, PublishFails
  <2>2. \A k \in Messages : pc'[k] \notin {"typed", "dropped"} => pc[k] \notin {"typed", "dropped"}
    BY <1>2 DEF Commit, Publish, Ignore, InsertFails, PublishFails, Goto, TypeOK
  <2> QED
    BY <2>1, <2>2 DEF Numbers
<1>3. CASE UNCHANGED <<pc, id, serial>>
  BY <1>3 DEF Numbers
<1>4. (\E m \in Messages : CallbackStep(m)) \/ UNCHANGED <<pc, id, serial>>
  BY DEF Next, RelayStep, PageStep, RelayNext, RelaySend, RelayDone, RelayExits, Join, Leave,
         GetRecent, ShowHistory, HistoryFails, Receive, Idle, vars
<1> QED
  BY <1>1, <1>2, <1>3, <1>4 DEF CallbackStep

\* Every step keeps what is under way to the pages committed.
LEMMA NextStored ==
  Types /\ Stored /\ Published /\ [Next]_vars => Stored' /\ Published'
<1> SUFFICES ASSUME Types, Stored, Published, [Next]_vars PROVE Stored' /\ Published'
  OBVIOUS
<1> USE DEF database, relays, pages
<1>0. \A k \in Rows : k \in Rows'
  BY RowsStay DEF Types
<1>1. ASSUME NEW m \in Messages, Publish(m) PROVE Stored' /\ Published'
  <2>1. log \in Seq(Messages) /\ channel \in [Nodes -> Seq(Messages)]
    BY DEF Types, TypeOK
  <2>2. log' = Append(log, m) /\ UNCHANGED <<answer, messages, frames>>
    BY <1>1 DEF Publish
  <2>3. m \in Rows'
    BY <1>1 DEF Publish, Goto, Rows, Types, TypeOK
  <2>4. \A i \in DOMAIN log' : log'[i] = m \/ (i \in DOMAIN log /\ log'[i] = log[i])
    BY <2>1, <2>2, Appending
  <2>5. \A k : Holds(log, k) => Holds(log, k)'
    BY <2>1, <2>2, Appending DEF Holds
  <2>6. Holds(log, m)'
    BY <2>1, <2>2, Appending DEF Holds
  <2>7. Stored'
    BY <1>0, <2>2, <2>3, <2>4 DEF Stored
  <2>8. ASSUME NEW n \in Nodes, NEW i \in DOMAIN channel'[n]
        PROVE  channel'[n][i] = m \/ (i \in DOMAIN channel[n] /\ channel'[n][i] = channel[n][i])
    <3>1. channel'[n] = Append(channel[n], m) \/ channel'[n] = channel[n]
      BY <1>1 DEF Publish
    <3>2. channel[n] \in Seq(Messages)
      BY <2>1
    <3> QED
      BY <2>8, <3>1, <3>2, Grown
  <2>9. Published'
    BY <2>2, <2>5, <2>6, <2>8 DEF Published
  <2> QED
    BY <2>7, <2>9
<1>2. ASSUME NEW n \in Nodes, RelaySend(n) PROVE Stored' /\ Published'
  <2>1. PICK v \in sending[n] :
           frames' = IF v \in viewers_
                       THEN [frames EXCEPT ![v] = Append(@, Head(channel[n]))]
                       ELSE frames
    BY <1>2 DEF RelaySend
  <2>2. /\ v \in Viewers /\ channel[n] \in Seq(Messages) /\ channel[n] # <<>>
        /\ frames \in [Viewers -> Seq(Messages)]
    BY <1>2 DEF RelaySend, Types, TypeOK
  <2>3. Head(channel[n]) \in Messages /\ Holds(log, Head(channel[n]))
    BY <2>2, Tailing DEF Published
  <2>4. ASSUME NEW u \in Viewers, NEW i \in DOMAIN frames'[u]
        PROVE  frames'[u][i] = Head(channel[n]) \/ (i \in DOMAIN frames[u] /\ frames'[u][i] = frames[u][i])
    <3>1. frames'[u] = frames[u] \/ frames'[u] = Append(frames[u], Head(channel[n]))
      BY <2>1, <2>2
    <3> QED
      BY <2>2, <2>3, <2>4, <3>1, Grown
  <2>5. log' = log /\ channel' = channel /\ UNCHANGED <<pc, answer, messages>>
    BY <1>2 DEF RelaySend
  <2> QED
    BY <2>3, <2>4, <2>5 DEF Stored, Published, Holds, Rows
<1>3. ASSUME NEW n \in Nodes, RelayDone(n) PROVE Stored' /\ Published'
  <2>1. channel' = [channel EXCEPT ![n] = Tail(@)] /\ UNCHANGED <<pc, log, frames, answer, messages>>
    BY <1>3 DEF RelayDone
  <2>2. channel \in [Nodes -> Seq(Messages)] /\ channel[n] # <<>>
    BY <1>3 DEF RelayDone, Types, TypeOK
  <2>3. \A i \in DOMAIN Tail(channel[n]) : Holds(log, Tail(channel[n])[i])
    BY <2>2, Tailing DEF Published
  <2> QED
    BY <2>1, <2>2, <2>3 DEF Stored, Published, Holds, Rows
<1>4. ASSUME NEW n \in Nodes, RelayExits(n) PROVE Stored' /\ Published'
  BY <1>4 DEF RelayExits, Stored, Published, Holds, Rows, Types, TypeOK
<1>5. ASSUME NEW v \in Viewers, GetRecent(v) PROVE Stored' /\ Published'
  <2>1. PICK n \in 0..Cardinality(Rows) : \E h \in [1..n -> Rows] :
           IsRecent(h) /\ answer' = [answer EXCEPT ![v] = h]
    BY <1>5 DEF GetRecent
  <2>2. PICK h \in [1..n -> Rows] : IsRecent(h) /\ answer' = [answer EXCEPT ![v] = h]
    BY <2>1
  <2>3. UNCHANGED <<pc, log, channel, frames, messages>> /\ answer \in [Viewers -> Seq(Messages)]
    BY <1>5 DEF GetRecent, Types, TypeOK
  <2> QED
    BY <2>2, <2>3 DEF Stored, Published, Holds, Rows
<1>6. ASSUME NEW v \in Viewers, ShowHistory(v) PROVE Stored' /\ Published'
  BY <1>6 DEF ShowHistory, Stored, Published, Holds, Rows, Types, TypeOK
<1>7. ASSUME NEW v \in Viewers, Receive(v) PROVE Stored' /\ Published'
  <2> DEFINE m == frames[v][seen[v] + 1]
  <2>1. /\ frames[v] \in Seq(Messages) /\ seen[v] + 1 \in DOMAIN frames[v]
        /\ messages \in [Viewers -> Seq(Messages)]
    BY <1>7 DEF Receive, Types, TypeOK
  <2>2. m \in Rows /\ m \in Messages
    BY <2>1 DEF Stored, Published, Holds, Rows
  <2>3. messages' = messages \/ messages' = [messages EXCEPT ![v] = Append(@, m)]
    BY <1>7 DEF Receive
  <2>4. UNCHANGED <<pc, log, channel, frames, answer>>
    BY <1>7 DEF Receive
  <2> HIDE DEF m
  <2>5. ASSUME NEW u \in Viewers, NEW i \in DOMAIN messages'[u]
        PROVE  messages'[u][i] = m \/ (i \in DOMAIN messages[u] /\ messages'[u][i] = messages[u][i])
    <3>1. messages'[u] = messages[u] \/ messages'[u] = Append(messages[u], m)
      BY <2>1, <2>3
    <3>2. messages[u] \in Seq(Messages)
      BY <2>1
    <3> QED
      BY <2>2, <2>5, <3>1, <3>2, Grown
  <2> QED
    BY <2>2, <2>4, <2>5 DEF Stored, Published, Holds, Rows
<1>8. CASE UNCHANGED <<log, channel, frames, answer, messages>>
  BY <1>0, <1>8 DEF Stored, Published, Holds
<1>9. \/ \E m \in Messages : Publish(m)
      \/ \E n \in Nodes : RelaySend(n) \/ RelayDone(n) \/ RelayExits(n)
      \/ \E v \in Viewers : GetRecent(v) \/ ShowHistory(v) \/ Receive(v)
      \/ UNCHANGED <<log, channel, frames, answer, messages>>
  BY DEF Next, CallbackStep, RelayStep, PageStep, Insert, Commit, Ignore, InsertFails,
         PublishFails, RelayNext, Join, Leave, HistoryFails, Idle, vars
<1> QED
  BY <1>1, <1>2, <1>3, <1>4, <1>5, <1>6, <1>7, <1>8, <1>9

-----------------------------------------------------------------------------
(* The order of publication                                                   *)

\* Publishing m keeps what was before what, and m comes after all that was
\* published.
LEMMA PublishedLast ==
  ASSUME TypeOK, NEW m \in Messages, Publish(m)
  PROVE  /\ \A k, l : Before(log, k, l) => Before(log', k, l)
         /\ \A k : Holds(log, k) => Before(log', k, m)
<1>1. log \in Seq(Messages) /\ log' = Append(log, m)
  BY DEF TypeOK, Publish
<1>2. /\ DOMAIN log = 1..Len(log) /\ DOMAIN log' = 1..Len(log) + 1 /\ Len(log) \in Nat
      /\ \A i \in DOMAIN log : log'[i] = log[i]
      /\ log'[Len(log) + 1] = m
  BY <1>1, Appending
<1>3. \A i \in DOMAIN log : i \in DOMAIN log' /\ i < Len(log) + 1
  BY <1>2
<1>4. Len(log) + 1 \in DOMAIN log'
  BY <1>2
<1>5. ASSUME NEW k, NEW l, Before(log, k, l) PROVE Before(log', k, l)
  BY <1>2, <1>3, <1>5 DEF Before
<1>6. ASSUME NEW k, Holds(log, k) PROVE Before(log', k, m)
  BY <1>2, <1>3, <1>4, <1>6 DEF Before, Holds
<1> QED
  BY <1>5, <1>6

\* Every step keeps the order.
LEMMA NextOrder == Types /\ Published /\ Order /\ [Next]_vars => Order'
<1> SUFFICES ASSUME Types, Published, Order, [Next]_vars PROVE Order'
  OBVIOUS
<1> USE DEF database, relays, pages
<1>0. /\ TypeOK /\ channel \in [Nodes -> Seq(Messages)] /\ frames \in [Viewers -> Seq(Messages)]
      /\ relay \in [Nodes -> {"listening", "sending", "exited"}]
      /\ sending \in [Nodes -> SUBSET Viewers]
      /\ \A v \in Viewers : NodeOf[v] \in Nodes
  BY ChatAssumption DEF Types, TypeOK
<1>1. ASSUME NEW m \in Messages, Publish(m) PROVE Order'
  <2>1. /\ \A k, l : Before(log, k, l) => Before(log', k, l)
        /\ \A k : Holds(log, k) => Before(log', k, m)
    BY <1>0, <1>1, PublishedLast
  <2>2. UNCHANGED <<relay, sending, frames>>
    BY <1>1 DEF Publish
  <2>3. ASSUME NEW n \in Nodes, NEW j \in DOMAIN channel'[n]
        PROVE  /\ channel'[n][j] = m \/ (j \in DOMAIN channel[n] /\ channel'[n][j] = channel[n][j])
               /\ \A i \in DOMAIN channel'[n] :
                     i < j => i \in DOMAIN channel[n] /\ channel'[n][i] = channel[n][i]
    <3>1. channel'[n] = Append(channel[n], m) \/ channel'[n] = channel[n]
      BY <1>1 DEF Publish
    <3>2. channel[n] \in Seq(Messages)
      BY <1>0
    <3> QED
      BY <2>3, <3>1, <3>2, Grown
  <2>4. ASSUME NEW n \in Nodes, NEW i \in DOMAIN channel'[n], NEW j \in DOMAIN channel'[n], i < j
        PROVE  Before(log', channel'[n][i], channel'[n][j])
    <3>1. i \in DOMAIN channel[n] /\ channel'[n][i] = channel[n][i] /\ Holds(log, channel[n][i])
      BY <2>3, <2>4 DEF Published
    <3>2. CASE channel'[n][j] = m
      BY <2>1, <3>1, <3>2
    <3>3. CASE j \in DOMAIN channel[n] /\ channel'[n][j] = channel[n][j]
      BY <2>1, <2>4, <3>1, <3>3 DEF Order
    <3> QED
      BY <2>3, <3>2, <3>3
  <2>5. ASSUME NEW v \in Viewers, NEW i \in DOMAIN frames[v], NEW j \in DOMAIN channel'[NodeOf[v]],
               j > 1 \/ ~Served(v)
        PROVE  Before(log', frames[v][i], channel'[NodeOf[v]][j])
    <3>1. Holds(log, frames[v][i])
      BY DEF Published
    <3>2. CASE channel'[NodeOf[v]][j] = m
      BY <2>1, <3>1, <3>2
    <3>3. CASE j \in DOMAIN channel[NodeOf[v]] /\ channel'[NodeOf[v]][j] = channel[NodeOf[v]][j]
      BY <2>1, <2>5, <3>3 DEF Order
    <3> QED
      BY <1>0, <2>3, <3>2, <3>3
  <2> QED
    BY <2>1, <2>2, <2>4, <2>5 DEF Order, Served
<1>2. ASSUME NEW n \in Nodes, RelayNext(n) PROVE Order'
  <2>1. UNCHANGED <<log, channel, frames>> /\ relay[n] = "listening"
        /\ relay' = [relay EXCEPT ![n] = "sending"] /\ sending' = [sending EXCEPT ![n] = Local(n)]
    BY <1>2 DEF RelayNext
  <2>2. \A v \in Viewers : Served(v) => Served(v)'
    BY <1>0, <2>1 DEF Served
  <2> QED
    BY <2>1, <2>2 DEF Order
<1>3. ASSUME NEW n \in Nodes, RelaySend(n) PROVE Order'
  <2>1. PICK v \in sending[n] :
           /\ sending' = [sending EXCEPT ![n] = @ \ {v}]
           /\ frames' = IF v \in viewers_
                          THEN [frames EXCEPT ![v] = Append(@, Head(channel[n]))]
                          ELSE frames
    BY <1>3 DEF RelaySend
  <2>2. v \in Viewers /\ NodeOf[v] = n /\ relay[n] = "sending" /\ channel[n] # <<>>
    BY <1>0, <1>3 DEF RelaySend, TypeOK
  <2>3. UNCHANGED <<log, channel, relay>>
    BY <1>3 DEF RelaySend
  <2>4. ~Served(v) /\ Served(v)'
    BY <1>0, <2>1, <2>2, <2>3 DEF Served
  <2>5. \A u \in Viewers \ {v} : (Served(u) <=> Served(u)') /\ frames'[u] = frames[u]
    BY <1>0, <2>1, <2>2, <2>3 DEF Served
  <2>6. 1 \in DOMAIN channel[n] /\ Head(channel[n]) = channel[n][1] /\ Head(channel[n]) \in Messages
    BY <1>0, <2>2, Tailing
  <2>7. \A i \in DOMAIN frames[v] : \A j \in DOMAIN channel[n] : Before(log, frames[v][i], channel[n][j])
    BY <2>2, <2>4 DEF Order
  <2>8. \A j \in DOMAIN channel[n] : j > 1 => Before(log, Head(channel[n]), channel[n][j])
    <3>1. DOMAIN channel[n] \subseteq Nat
      BY <1>0
    <3> QED
      BY <2>6, <3>1 DEF Order
  <2>9. ASSUME NEW j \in DOMAIN frames'[v]
        PROVE  /\ frames'[v][j] = Head(channel[n]) \/ (j \in DOMAIN frames[v] /\ frames'[v][j] = frames[v][j])
               /\ \A i \in DOMAIN frames'[v] :
                     i < j => i \in DOMAIN frames[v] /\ frames'[v][i] = frames[v][i]
    <3>1. frames'[v] = frames[v] \/ frames'[v] = Append(frames[v], Head(channel[n]))
      BY <1>0, <2>1, <2>2
    <3>2. frames[v] \in Seq(Messages)
      BY <1>0, <2>2
    <3> QED
      BY <2>6, <2>9, <3>1, <3>2, Grown
  <2>10. ASSUME NEW i \in DOMAIN frames'[v], NEW j \in DOMAIN frames'[v], i < j
         PROVE  Before(log, frames'[v][i], frames'[v][j])
    <3>1. i \in DOMAIN frames[v] /\ frames'[v][i] = frames[v][i]
      BY <2>9, <2>10
    <3>2. CASE frames'[v][j] = Head(channel[n])
      BY <2>6, <2>7, <3>1, <3>2
    <3>3. CASE j \in DOMAIN frames[v] /\ frames'[v][j] = frames[v][j]
      BY <2>2, <2>10, <3>1, <3>3 DEF Order
    <3> QED
      BY <2>9, <3>2, <3>3
  <2>11. ASSUME NEW i \in DOMAIN frames'[v], NEW j \in DOMAIN channel[n], j > 1
         PROVE  Before(log, frames'[v][i], channel[n][j])
    BY <2>7, <2>8, <2>9, <2>11
  <2>12. ASSUME NEW u \in Viewers, NEW i \in DOMAIN frames'[u], NEW j \in DOMAIN frames'[u], i < j
         PROVE  Before(log, frames'[u][i], frames'[u][j])
    BY <2>5, <2>10, <2>12 DEF Order
  <2>13. ASSUME NEW u \in Viewers, NEW i \in DOMAIN frames'[u], NEW j \in DOMAIN channel[NodeOf[u]],
                j > 1 \/ ~Served(u)'
         PROVE  Before(log, frames'[u][i], channel[NodeOf[u]][j])
    <3>1. CASE u = v
      BY <2>2, <2>4, <2>11, <2>13, <3>1
    <3>2. CASE u # v
      BY <2>5, <2>13, <3>2 DEF Order
    <3> QED
      BY <3>1, <3>2
  <2> QED
    BY <2>3, <2>12, <2>13 DEF Order
<1>4. ASSUME NEW n \in Nodes, RelayDone(n) PROVE Order'
  <2>1. /\ relay[n] = "sending" /\ sending[n] = {} /\ relay' = [relay EXCEPT ![n] = "listening"]
        /\ channel' = [channel EXCEPT ![n] = Tail(@)] /\ UNCHANGED <<log, frames, sending>>
    BY <1>4 DEF RelayDone
  <2>2. channel[n] \in Seq(Messages) /\ channel[n] # <<>>
    BY <1>0, <2>1 DEF TypeOK
  <2>3. /\ channel'[n] = Tail(channel[n])
        /\ \A k \in Nodes \ {n} : channel'[k] = channel[k]
    BY <1>0, <2>1
  <2>4. \A i \in DOMAIN channel'[n] :
           i + 1 \in DOMAIN channel[n] /\ i \in Nat \ {0} /\ channel'[n][i] = channel[n][i + 1]
    BY <2>2, <2>3, Tailing
  <2>5. ASSUME NEW k \in Nodes, NEW i \in DOMAIN channel'[k], NEW j \in DOMAIN channel'[k], i < j
        PROVE  Before(log, channel'[k][i], channel'[k][j])
    <3>1. CASE k = n
      <4>1. i + 1 < j + 1
        BY <2>4, <2>5, <3>1
      <4> QED
        BY <2>4, <3>1, <4>1 DEF Order
    <3>2. CASE k # n
      BY <2>3, <2>5, <3>2 DEF Order
    <3> QED
      BY <3>1, <3>2
  <2>6. ASSUME NEW u \in Viewers, NEW i \in DOMAIN frames[u], NEW j \in DOMAIN channel'[NodeOf[u]],
               j > 1 \/ ~Served(u)'
        PROVE  Before(log, frames[u][i], channel'[NodeOf[u]][j])
    <3>1. CASE NodeOf[u] = n
      <4>1. j + 1 > 1 /\ j + 1 \in DOMAIN channel[n] /\ channel'[n][j] = channel[n][j + 1]
        BY <2>4, <3>1
      <4> QED
        BY <3>1, <4>1 DEF Order
    <3>2. CASE NodeOf[u] # n
      <4>1. Served(u)' <=> Served(u)
        BY <1>0, <2>1, <3>2 DEF Served
      <4> QED
        BY <1>0, <2>3, <2>6, <3>2, <4>1 DEF Order
    <3> QED
      BY <3>1, <3>2
  <2> QED
    BY <2>1, <2>5, <2>6 DEF Order
<1>5. ASSUME NEW n \in Nodes, RelayExits(n) PROVE Order'
  <2>1. /\ relay' = [relay EXCEPT ![n] = "exited"]
        /\ channel' = [channel EXCEPT ![n] = <<>>] /\ UNCHANGED <<log, frames, sending>>
    BY <1>5 DEF RelayExits
  <2>2. /\ DOMAIN channel'[n] = {}
        /\ \A k \in Nodes \ {n} : channel'[k] = channel[k]
    BY <1>0, <2>1
  <2>3. \A u \in Viewers : NodeOf[u] # n => (Served(u)' <=> Served(u))
    BY <1>0, <2>1 DEF Served
  <2> QED
    BY <1>0, <2>1, <2>2, <2>3 DEF Order
<1>6. CASE UNCHANGED <<log, channel, relay, sending, frames>>
  BY <1>6 DEF Order, Served
<1>7. \/ \E m \in Messages : Publish(m)
      \/ \E n \in Nodes : RelayNext(n) \/ RelaySend(n) \/ RelayDone(n) \/ RelayExits(n)
      \/ UNCHANGED <<log, channel, relay, sending, frames>>
  BY DEF Next, CallbackStep, RelayStep, PageStep, Insert, Commit, Ignore, InsertFails, PublishFails,
         Join, Leave, GetRecent, ShowHistory, Receive, HistoryFails, Idle, vars
<1> QED
  BY <1>1, <1>2, <1>3, <1>4, <1>5, <1>6, <1>7

-----------------------------------------------------------------------------
(* The page's list                                                            *)

\* What Receive does to the list of page v.
LEMMA ReceiveAppends ==
  ASSUME Types, NEW v \in Viewers, Receive(v)
  PROVE  /\ frames[v] \in Seq(Messages) /\ seen[v] + 1 \in DOMAIN frames[v]
         /\ frames[v][seen[v] + 1] \in Messages
         /\ messages \in [Viewers -> Seq(Messages)]
         /\ \/ /\ \E i \in DOMAIN messages[v] : id[messages[v][i]] = id[frames[v][seen[v] + 1]]
               /\ messages' = messages
            \/ /\ \A i \in DOMAIN messages[v] : messages[v][i] # frames[v][seen[v] + 1]
               /\ messages' = [messages EXCEPT ![v] = Append(@, frames[v][seen[v] + 1])]
<1>1. frames[v] \in Seq(Messages) /\ seen[v] \in Nat /\ seen[v] + 1 \in DOMAIN frames[v]
  BY DEF Receive, Types, TypeOK
<1>2. frames[v][seen[v] + 1] \in Messages /\ messages \in [Viewers -> Seq(Messages)]
  BY <1>1 DEF Types, TypeOK
<1>3. messages' = IF \E i \in DOMAIN messages[v] : id[messages[v][i]] = id[frames[v][seen[v] + 1]]
                    THEN messages
                    ELSE [messages EXCEPT ![v] = Append(@, frames[v][seen[v] + 1])]
  BY DEF Receive
<1> QED
  BY <1>1, <1>2, <1>3

\* Every step keeps answers and pages free of repetitions.
LEMMA NextOnce == Types /\ Once /\ [Next]_vars => Once'
<1> SUFFICES ASSUME Types, Once, [Next]_vars PROVE Once'
  OBVIOUS
<1> USE DEF database, relays, pages
<1>1. ASSUME NEW v \in Viewers, GetRecent(v) PROVE Once'
  <2>1. PICK n \in 0..Cardinality(Rows) : \E h \in [1..n -> Rows] :
           IsRecent(h) /\ answer' = [answer EXCEPT ![v] = h]
    BY <1>1 DEF GetRecent
  <2>2. PICK h \in [1..n -> Rows] : IsRecent(h) /\ answer' = [answer EXCEPT ![v] = h]
    BY <2>1
  <2>3. \A i, j \in DOMAIN h : h[i] = h[j] => i = j
    BY <2>2, RecentOnce DEF Types
  <2>4. messages' = messages /\ answer \in [Viewers -> Seq(Messages)]
    BY <1>1 DEF GetRecent, Types, TypeOK
  <2> QED
    BY <2>2, <2>3, <2>4 DEF Once, ShownOnce
<1>2. ASSUME NEW v \in Viewers, ShowHistory(v) PROVE Once'
  BY <1>2 DEF ShowHistory, Once, ShownOnce, Types, TypeOK
<1>3. ASSUME NEW v \in Viewers, Receive(v) PROVE Once'
  <2>1. answer' = answer
    BY <1>3 DEF Receive
  <2>2. CASE messages' = messages
    BY <2>1, <2>2 DEF Once, ShownOnce
  <2>3. CASE messages' # messages
    <3> DEFINE m == frames[v][seen[v] + 1]
    <3>1. /\ m \in Messages /\ messages \in [Viewers -> Seq(Messages)]
          /\ \A i \in DOMAIN messages[v] : messages[v][i] # m
          /\ messages' = [messages EXCEPT ![v] = Append(@, m)]
      BY <1>3, <2>3, ReceiveAppends
    <3> HIDE DEF m
    <3>2. messages'[v] = Append(messages[v], m) /\ messages[v] \in Seq(Messages)
      BY <3>1
    <3>3. \A i, j \in DOMAIN messages[v] : messages[v][i] = messages[v][j] => i = j
      BY DEF Once, ShownOnce
    <3>4. \A i, j \in DOMAIN messages'[v] : messages'[v][i] = messages'[v][j] => i = j
      BY <3>1, <3>2, <3>3, Appending
    <3>5. \A u \in Viewers \ {v} : messages'[u] = messages[u]
      BY <3>1
    <3> QED
      BY <2>1, <3>4, <3>5 DEF Once, ShownOnce
  <2> QED
    BY <2>2, <2>3
<1>4. CASE UNCHANGED <<answer, messages>>
  BY <1>4 DEF Once, ShownOnce
<1>5. \/ \E v \in Viewers : GetRecent(v) \/ ShowHistory(v) \/ Receive(v)
      \/ UNCHANGED <<answer, messages>>
  BY DEF Next, CallbackStep, RelayStep, PageStep, Insert, Commit, Ignore, InsertFails, PublishFails,
         Publish, RelayNext, RelaySend, RelayDone, RelayExits, Join, Leave, HistoryFails, Idle, vars
<1> QED
  BY <1>1, <1>2, <1>3, <1>4, <1>5

-----------------------------------------------------------------------------
(* The theorems                                                               *)

\* Nothing is published, sent or shown yet.
LEMMA InitInv == Init => Inv
<1> SUFFICES ASSUME Init PROVE Inv
  OBVIOUS
<1>1. (\A S : <<>> \in Seq(S)) /\ Len(<<>>) = 0 /\ DOMAIN <<>> = {} /\ 0 \in 0..0
  OBVIOUS
<1>2. Viewers \ Fresh \in SUBSET Viewers
  OBVIOUS
<1>3. Types
  BY <1>1, <1>2 DEF Init, Types, TypeOK
<1>4. Numbers
  BY DEF Init, Numbers
<1>5. Stored /\ Published /\ Order /\ Once
  BY <1>1, ChatAssumption DEF Init, Stored, Published, Order, Once, ShownOnce
<1> QED
  BY <1>3, <1>4, <1>5 DEF Inv

\* The inductive invariant holds in every behaviour of the chat.
THEOREM InvHolds == Spec => []Inv
<1>1. Inv /\ [Next]_vars => Inv'
  BY NextTypes, NextNumbers, NextStored, NextOrder, NextOnce DEF Inv, Types
<1> QED
  BY InitInv, <1>1, PTL DEF Spec

\* The chat is type-correct; a relay has a message in hand exactly while it is
\* sending (ChatRelay and Broadcast).
THEOREM TypeOKHolds == Spec => []TypeOK
<1>1. Inv => TypeOK
  BY DEF Inv, Types
<1> QED
  BY <1>1, InvHolds, PTL

\* What a page shows is committed (VIewerRoutes.cpp: persist, then publish).
THEOREM ShownIsPersistedHolds == Spec => []ShownIsPersisted
<1>1. Inv => ShownIsPersisted
  BY DEF Inv, Stored, ShownIsPersisted, Range
<1> QED
  BY <1>1, InvHolds, PTL

\* No page shows a message twice, however history and WebSocket overlap
\* (StreamView.tsx).
THEOREM ShownOnceHolds == Spec => []ShownOnce
<1>1. Inv => ShownOnce
  BY DEF Inv, Once
<1> QED
  BY <1>1, InvHolds, PTL

\* Every viewer of every node is sent the messages in the order in which Redis
\* got them (ChatRelay and ViewerRegistry::Broadcast).
THEOREM SentInPublishOrderHolds == Spec => []SentInPublishOrder
<1>1. Inv => SentInPublishOrder
  BY DEF Inv, Order, Before, SentInPublishOrder
<1> QED
  BY <1>1, InvHolds, PTL

\* A frame that a page processes is on the page from then on: two messages
\* never have one id, so the id check drops only what is there already.
THEOREM ReceivedIsShownHolds == Spec => ReceivedIsShown
<1> DEFINE Shows == \A v \in Viewers :
                      seen'[v] # seen[v] => Holds(messages'[v], frames[v][seen[v] + 1])
<1>1. ASSUME Inv, [Next]_vars PROVE [Shows]_vars
  <2>1. ASSUME NEW v \in Viewers, Receive(v) PROVE Shows
    <3> DEFINE m == frames[v][seen[v] + 1]
    <3>1. \A u \in Viewers : seen'[u] # seen[u] => u = v
      BY <1>1, <2>1 DEF Receive, Inv, Types
    <3>2. /\ frames[v] \in Seq(Messages) /\ seen[v] + 1 \in DOMAIN frames[v] /\ m \in Messages
          /\ messages \in [Viewers -> Seq(Messages)]
      BY <1>1, <2>1, ReceiveAppends DEF Inv
    <3>3. Holds(messages'[v], m)
      <4>1. CASE messages' = messages
        <5>1. PICK i \in DOMAIN messages[v] : id[messages[v][i]] = id[m]
          BY <1>1, <2>1, <4>1, <3>2, ReceiveAppends, Appending DEF Inv, Holds
        <5>2. Holds(log, m)
          BY <1>1, <3>2 DEF Inv, Published
        <5>3. m \in Rows /\ messages[v][i] \in Rows
          BY <1>1, <5>2 DEF Inv, Stored, Holds
        <5>4. id[m] > 0 /\ messages[v][i] = m
          BY <1>1, <5>1, <5>3 DEF Inv, Numbers, Rows
        <5> QED
          BY <4>1, <5>4 DEF Holds
      <4>2. CASE messages' # messages
        <5>1. messages' = [messages EXCEPT ![v] = Append(@, m)]
          BY <1>1, <2>1, <4>2, ReceiveAppends DEF Inv
        <5> HIDE DEF m
        <5>2. messages'[v] = Append(messages[v], m) /\ messages[v] \in Seq(Messages)
          BY <3>2, <5>1
        <5>3. Len(messages[v]) + 1 \in DOMAIN messages'[v] /\ messages'[v][Len(messages[v]) + 1] = m
          BY <3>2, <5>2, Appending
        <5> QED
          BY <5>3 DEF Holds
      <4> QED
        BY <4>1, <4>2
    <3> QED
      BY <3>1, <3>3
  <2>2. CASE seen' = seen
    BY <2>2
  <2>3. (\E v \in Viewers : Receive(v)) \/ seen' = seen
    BY <1>1 DEF Next, CallbackStep, RelayStep, PageStep, Insert, Commit, Ignore, InsertFails,
       PublishFails, Publish, RelayNext, RelaySend, RelayDone, RelayExits, Join, Leave, GetRecent,
       ShowHistory, HistoryFails, Idle, vars, pages
  <2> QED
    BY <2>1, <2>2, <2>3
<1> QED
  BY <1>1, InvHolds, PTL DEF Spec, ReceivedIsShown

-----------------------------------------------------------------------------
(* No viewer is skipped                                                       *)

\* Every step keeps Delivery.
LEMMA NextDelivery == Types /\ Delivery /\ [Next]_vars => Delivery'
<1> SUFFICES ASSUME Types, Delivery, [Next]_vars PROVE Delivery'
  OBVIOUS
<1> USE DEF database, relays, pages
<1>0. /\ channel \in [Nodes -> Seq(Messages)] /\ frames \in [Viewers -> Seq(Messages)]
      /\ relay \in [Nodes -> {"listening", "sending", "exited"}]
      /\ sending \in [Nodes -> SUBSET Viewers] /\ viewers_ \subseteq Viewers
      /\ audience \in [Messages -> SUBSET Viewers]
      /\ history \in [Viewers -> {"asked", "answered", "over", "left"}]
      /\ \A v \in Viewers : NodeOf[v] \in Nodes
      /\ \A n \in Nodes : relay[n] = "sending" => channel[n] # <<>>
      /\ \A n \in Nodes : \A v \in sending[n] : NodeOf[v] = n
  BY ChatAssumption DEF Types, TypeOK
<1>1. ASSUME NEW k \in Messages, Publish(k) PROVE Delivery'
  <2>1. /\ audience' = [audience EXCEPT ![k] = viewers_]
        /\ UNCHANGED <<relay, sending, viewers_, frames, history>>
    BY <1>1 DEF Publish
  <2>2. ASSUME NEW n \in Nodes, relay[n] # "exited" PROVE channel'[n] = Append(channel[n], k)
    BY <1>1, <2>2 DEF Publish
  <2>3. ASSUME NEW v \in Viewers, NEW m \in Messages, relay[NodeOf[v]] # "exited", ToCome(v, m)
        PROVE  ToCome(v, m)'
    <3>1. channel[NodeOf[v]] \in Seq(Messages) /\ channel'[NodeOf[v]] = Append(channel[NodeOf[v]], k)
      BY <1>0, <2>2, <2>3
    <3>2. \A i \in DOMAIN channel[NodeOf[v]] : i \in DOMAIN channel'[NodeOf[v]]
                                             /\ channel'[NodeOf[v]][i] = channel[NodeOf[v]][i]
      BY <3>1, Appending
    <3> QED
      BY <2>1, <2>3, <3>2 DEF ToCome, Served
  <2>4. ASSUME NEW v \in Viewers, relay[NodeOf[v]] # "exited" PROVE ToCome(v, k)'
    <3> DEFINE c == channel[NodeOf[v]]
    <3>1. c \in Seq(Messages) /\ channel'[NodeOf[v]] = Append(c, k)
      BY <1>0, <2>2, <2>4
    <3>2. Len(c) + 1 \in DOMAIN channel'[NodeOf[v]] /\ channel'[NodeOf[v]][Len(c) + 1] = k
      BY <3>1, Appending
    <3>3. Len(c) + 1 = 1 => ~Served(v)
      <4>1. Len(c) + 1 = 1 => c = <<>>
        BY <3>1
      <4> QED
        BY <1>0, <4>1 DEF Served
    <3> QED
      BY <2>1, <3>2, <3>3 DEF ToCome, Served
  <2>5. ASSUME NEW m \in Messages, NEW v \in audience'[m]
        PROVE  /\ v \notin viewers_ => history[v] = "left"
               /\ v \in viewers_ /\ relay[NodeOf[v]] # "exited" =>
                     Holds(frames[v], m) \/ ToCome(v, m)'
    <3>1. CASE m = k
      BY <1>0, <2>1, <2>4, <2>5, <3>1
    <3>2. CASE m # k
      BY <1>0, <2>1, <2>3, <2>5, <3>2 DEF Delivery
    <3> QED
      BY <3>1, <3>2
  <2> QED
    BY <2>1, <2>5 DEF Delivery, Holds
<1>2. ASSUME UNCHANGED <<viewers_, audience, history>>,
             \A v \in viewers_ : relay'[NodeOf[v]] # "exited" => relay[NodeOf[v]] # "exited",
             \A v \in viewers_ : \A m \in Messages : relay'[NodeOf[v]] # "exited" =>
                (Holds(frames[v], m) \/ ToCome(v, m) => Holds(frames'[v], m) \/ ToCome(v, m)')
      PROVE  Delivery'
  BY <1>2 DEF Delivery, Holds
<1>3. ASSUME NEW n \in Nodes, RelayNext(n) PROVE Delivery'
  <2>1. /\ relay' = [relay EXCEPT ![n] = "sending"] /\ sending' = [sending EXCEPT ![n] = Local(n)]
        /\ UNCHANGED <<channel, frames, viewers_, audience, history>> /\ relay[n] = "listening"
    BY <1>3 DEF RelayNext
  <2>2. \A v \in viewers_ : Served(v)' => Served(v)
    BY <1>0, <2>1 DEF Served, Local
  <2>3. \A v \in viewers_ : \A m \in Messages : ToCome(v, m) => ToCome(v, m)'
    BY <2>1, <2>2 DEF ToCome
  <2>4. \A v \in viewers_ : relay'[NodeOf[v]] # "exited" => relay[NodeOf[v]] # "exited"
    BY <1>0, <2>1
  <2> QED
    BY <1>2, <2>1, <2>3, <2>4
<1>4. ASSUME NEW n \in Nodes, RelaySend(n) PROVE Delivery'
  <2>1. PICK w \in sending[n] :
           /\ sending' = [sending EXCEPT ![n] = @ \ {w}]
           /\ frames' = IF w \in viewers_
                          THEN [frames EXCEPT ![w] = Append(@, Head(channel[n]))]
                          ELSE frames
    BY <1>4 DEF RelaySend
  <2>2. UNCHANGED <<channel, relay, viewers_, audience, history>> /\ relay[n] = "sending"
    BY <1>4 DEF RelaySend
  <2>3. w \in Viewers /\ NodeOf[w] = n /\ channel[n] \in Seq(Messages) /\ channel[n] # <<>>
    BY <1>0, <2>2
  <2>4. \A v \in viewers_ \ {w} : (Served(v)' <=> Served(v)) /\ frames'[v] = frames[v]
    BY <1>0, <2>1, <2>2, <2>3 DEF Served
  <2>5. \A v \in viewers_ \ {w} : \A m \in Messages : ToCome(v, m) => ToCome(v, m)'
    BY <2>2, <2>4 DEF ToCome
  <2>6. ASSUME w \in viewers_, NEW m \in Messages, Holds(frames[w], m) \/ ToCome(w, m)
        PROVE  Holds(frames'[w], m) \/ ToCome(w, m)'
    <3> DEFINE h == Head(channel[n])
    <3>1. h = channel[n][1] /\ h \in Messages
      BY <2>3, Tailing
    <3>2. frames[w] \in Seq(Messages) /\ frames'[w] = Append(frames[w], h)
      BY <1>0, <2>1, <2>3, <2>6
    <3> HIDE DEF h
    <3>3. /\ \A i \in DOMAIN frames[w] : i \in DOMAIN frames'[w] /\ frames'[w][i] = frames[w][i]
          /\ Len(frames[w]) + 1 \in DOMAIN frames'[w] /\ frames'[w][Len(frames[w]) + 1] = h
      BY <3>1, <3>2, Appending
    <3>4. CASE Holds(frames[w], m)
      BY <3>3, <3>4 DEF Holds
    <3>5. CASE h = m
      BY <3>3, <3>5 DEF Holds
    <3>6. CASE ToCome(w, m) /\ h # m
      BY <2>2, <2>3, <3>1, <3>6 DEF ToCome
    <3> QED
      BY <2>6, <3>4, <3>5, <3>6
  <2> QED
    BY <1>2, <2>2, <2>4, <2>5, <2>6
<1>5. ASSUME NEW n \in Nodes, RelayDone(n) PROVE Delivery'
  <2>1. /\ relay[n] = "sending" /\ sending[n] = {} /\ relay' = [relay EXCEPT ![n] = "listening"]
        /\ channel' = [channel EXCEPT ![n] = Tail(@)]
        /\ UNCHANGED <<frames, sending, viewers_, audience, history>>
    BY <1>5 DEF RelayDone
  <2>2. channel[n] \in Seq(Messages) /\ channel[n] # <<>> /\ channel'[n] = Tail(channel[n])
    BY <1>0, <2>1
  <2>3. \A i \in DOMAIN channel[n] : i # 1 =>
           i - 1 \in DOMAIN channel'[n] /\ channel'[n][i - 1] = channel[n][i]
    BY <2>2
  <2>4. ASSUME NEW v \in viewers_, NEW m \in Messages, ToCome(v, m) PROVE ToCome(v, m)'
    <3>1. CASE NodeOf[v] = n
      <4>1. Served(v) /\ ~Served(v)'
        BY <1>0, <2>1, <3>1 DEF Served
      <4>2. PICK i \in DOMAIN channel[n] : channel[n][i] = m /\ i # 1
        BY <2>4, <3>1, <4>1 DEF ToCome
      <4>3. i - 1 \in DOMAIN channel'[n] /\ channel'[n][i - 1] = m
        BY <2>3, <4>2
      <4> QED
        BY <3>1, <4>1, <4>3 DEF ToCome
    <3>2. CASE NodeOf[v] # n
      <4>1. channel'[NodeOf[v]] = channel[NodeOf[v]] /\ (Served(v)' <=> Served(v))
        BY <1>0, <2>1, <3>2 DEF Served
      <4> QED
        BY <2>4, <4>1 DEF ToCome
    <3> QED
      BY <3>1, <3>2
  <2>5. \A v \in viewers_ : relay'[NodeOf[v]] # "exited" => relay[NodeOf[v]] # "exited"
    BY <1>0, <2>1
  <2> QED
    BY <1>2, <2>1, <2>4, <2>5
<1>6. ASSUME NEW n \in Nodes, RelayExits(n) PROVE Delivery'
  <2>1. /\ relay' = [relay EXCEPT ![n] = "exited"] /\ channel' = [channel EXCEPT ![n] = <<>>]
        /\ UNCHANGED <<frames, sending, viewers_, audience, history>>
    BY <1>6 DEF RelayExits
  <2>2. \A v \in viewers_ : relay'[NodeOf[v]] # "exited" =>
           /\ NodeOf[v] # n /\ relay[NodeOf[v]] # "exited"
           /\ channel'[NodeOf[v]] = channel[NodeOf[v]] /\ (Served(v)' <=> Served(v))
    BY <1>0, <2>1 DEF Served
  <2> QED
    BY <1>2, <2>1, <2>2 DEF ToCome
<1>7. ASSUME NEW v \in Viewers, Join(v) PROVE Delivery'
  <2>1. /\ v \notin viewers_ /\ history[v] # "left" /\ viewers_' = viewers_ \cup {v}
        /\ UNCHANGED <<channel, relay, sending, audience, frames, history>>
    BY <1>7 DEF Join
  <2>2. \A m \in Messages : v \notin audience[m]
    BY <2>1 DEF Delivery
  <2> QED
    BY <2>1, <2>2 DEF Delivery, ToCome, Served
<1>8. ASSUME NEW v \in Viewers, Leave(v) PROVE Delivery'
  <2>1. /\ viewers_' = viewers_ \ {v} /\ history' = [history EXCEPT ![v] = "left"]
        /\ UNCHANGED <<channel, relay, sending, audience, frames>>
    BY <1>8 DEF Leave
  <2>2. \A u \in Viewers : history'[u] = IF u = v THEN "left" ELSE history[u]
    BY <1>0, <2>1
  <2>3. \A m \in Messages : audience[m] \subseteq Viewers
    BY <1>0
  <2> QED
    BY <2>1, <2>2, <2>3 DEF Delivery, ToCome, Served
<1>9. ASSUME NEW v \in Viewers, PageStep(v) PROVE Delivery'
  <2>1. /\ UNCHANGED <<channel, relay, sending, viewers_, audience, frames>>
        /\ \A u \in Viewers : history[u] = "left" => history'[u] = "left"
    BY <1>0, <1>9 DEF PageStep, GetRecent, ShowHistory, HistoryFails
  <2>2. \A m \in Messages : audience[m] \subseteq Viewers
    BY <1>0
  <2> QED
    BY <2>1, <2>2 DEF Delivery, ToCome, Served
<1>10. CASE UNCHANGED <<channel, relay, sending, viewers_, audience, frames, history>>
  BY <1>10 DEF Delivery, ToCome, Served
<1>11. \/ \E m \in Messages : Publish(m)
       \/ \E n \in Nodes : RelayNext(n) \/ RelaySend(n) \/ RelayDone(n) \/ RelayExits(n)
       \/ \E v \in Viewers : Join(v) \/ Leave(v) \/ PageStep(v)
       \/ UNCHANGED <<channel, relay, sending, viewers_, audience, frames, history>>
  BY DEF Next, CallbackStep, RelayStep, Insert, Commit, Ignore, InsertFails, PublishFails, Receive,
         Idle, vars
<1> QED
  BY <1>1, <1>3, <1>4, <1>5, <1>6, <1>7, <1>8, <1>9, <1>10, <1>11

\* No relay skips a viewer: the safety half of PublishedIsDelivered, for any
\* messages, viewers and nodes.
THEOREM NothingSkippedHolds == Spec => []NothingSkipped
<1>1. Init => Delivery
  BY DEF Init, Delivery
<1>2. Delivery => NothingSkipped
  BY DEF Delivery, NothingSkipped, ToCome, Holds
<1>3. Inv => Types
  BY DEF Inv
<1> QED
  BY <1>1, <1>2, <1>3, NextDelivery, InvHolds, PTL DEF Spec
=============================================================================
