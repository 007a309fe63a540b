-------------------------------- MODULE Chat --------------------------------
(* The live chat of one channel, end to end: the message callback of         *)
(* /ws/view (persist, then publish), PostgreSQL, Redis pub/sub, the          *)
(* ChatRelay thread of every node with its registry broadcast, and the       *)
(* message list of the viewer's page (StreamView.tsx), which is filled from  *)
(* the history request and from the WebSocket, in either order.              *)
(*                                                                           *)
(* A message is what one viewer sends once.  Each viewer is one page load    *)
(* with one WebSocket.  How viewers enter and leave the registry step by     *)
(* step is the subject of ViewerCount; here joining and leaving are atomic.  *)
EXTENDS Naturals, Sequences, FiniteSets, Functions

CONSTANTS Messages,     \* the chat messages that are sent
          Viewers,      \* the pages that show the chat
          Nodes,        \* the backend nodes
          NodeOf,       \* NodeOf[v]: the node v's WebSocket goes to
          Fresh,        \* the pages opened during the run; the others are open
          Limit,        \* how many messages the history request asks for
          MaxLost       \* bound: how many relays lose their Redis connection

ASSUME ChatAssumption == /\ IsFiniteSet(Messages)
                         /\ NodeOf \in [Viewers -> Nodes]
                         /\ Fresh \subseteq Viewers
                         /\ Limit \in Nat \ {0}
                         /\ MaxLost \in Nat

VARIABLES pc,           \* pc[m]: how far the message callback for m is
          id,           \* id[m]: the number of m's row, 0 if it has none
          serial,       \* the last number given out
          log,          \* the messages published, in the order Redis got them
          channel,      \* channel[n]: what Redis has sent to node n's relay
          relay,        \* relay[n]: the relay thread: listening or exited
          sending,      \* sending[n]: the viewers its Broadcast has still to reach
          viewers_,     \* the registered viewers, on all nodes
          audience,     \* audience[m]: who was registered when m was published
          frames,       \* frames[v]: the chat frames sent to v, in order
          seen,         \* seen[v]: how many of them v's page has processed
          history,      \* history[v]: the history request: asked, answered, over
          answer,       \* answer[v]: the messages in its answer
          messages      \* messages[v]: the list v's page shows

vars == <<pc, id, serial, log, channel, relay, sending,
          viewers_, audience, frames, seen, history, answer, messages>>
database == <<id, serial>>
relays == <<log, channel, relay, sending>>
pages == <<frames, seen, history, answer, messages>>

Goto(m, place) == pc' = [pc EXCEPT ![m] = place]
\* s holds e
Holds(s, e) == \E i \in DOMAIN s : s[i] = e
Rows == {m \in Messages : pc[m] \in {"committed", "published", "unpublished"}}

Init == /\ pc = [m \in Messages |-> "typed"]
        /\ id = [m \in Messages |-> 0]
        /\ serial = 0
        /\ log = <<>>
        /\ channel = [n \in Nodes |-> <<>>]
        /\ relay = [n \in Nodes |-> "listening"]
        /\ sending = [n \in Nodes |-> {}]
        /\ viewers_ = Viewers \ Fresh
        /\ audience = [m \in Messages |-> {}]
        /\ frames = [v \in Viewers |-> <<>>]
        /\ seen = [v \in Viewers |-> 0]
        /\ history = [v \in Viewers |-> IF v \in Fresh THEN "asked" ELSE "over"]
        /\ answer = [v \in Viewers |-> <<>>]
        /\ messages = [v \in Viewers |-> <<>>]

-----------------------------------------------------------------------------
(* The message callback                                                      *)

\* Not text, not JSON, not of type chat, empty or longer than 500 characters:
\* the callback returns.
Ignore(m) == /\ pc[m] = "typed"
             /\ Goto(m, "dropped")
             /\ UNCHANGED <<database, relays, viewers_, audience, pages>>

\* ChatRepository::Insert, up to the INSERT: the row gets its created_at and
\* its id.  Both grow from one transaction to the next, and both may be in an
\* order other than that of the commits: the model uses one number for them.
Insert(m) == /\ pc[m] = "typed"
             /\ Goto(m, "inserted")
             /\ serial' = serial + 1
             /\ id' = [id EXCEPT ![m] = serial + 1]
             /\ UNCHANGED <<relays, viewers_, audience, pages>>

\* txn.commit(): the row is there for others to read.
Commit(m) == /\ pc[m] = "inserted"
             /\ Goto(m, "committed")
             /\ UNCHANGED <<database, relays, viewers_, audience, pages>>

\* The database fails; the exception ends in the callback's catch (...).  If
\* the connection breaks in the commit, the row may be there all the same.
InsertFails(m) == /\ \/ pc[m] \in {"typed", "inserted"} /\ Goto(m, "dropped")
                     \/ pc[m] = "inserted" /\ Goto(m, "unpublished")
                  /\ UNCHANGED <<database, relays, viewers_, audience, pages>>

\* Mutated form of Publish: the message is published before the commit.
PublishFirst(m) == /\ pc[m] \in {"inserted", "committed"}
                   /\ ~Holds(log, m)
                   /\ log' = Append(log, m)
                   /\ channel' = [n \in Nodes |-> IF relay[n] # "exited"
                                                    THEN Append(channel[n], m) ELSE channel[n]]
                   /\ audience' = [audience EXCEPT ![m] = viewers_]
                   /\ Goto(m, IF pc[m] = "committed" THEN "published" ELSE pc[m])
                   /\ UNCHANGED <<database, relay, sending, viewers_, pages>>

\* Mutated form of Publish: the message goes to one node only.
PublishHere(m) == /\ pc[m] = "committed"
                  /\ Goto(m, "published")
                  /\ log' = Append(log, m)
                  /\ \E n \in Nodes : channel' = [channel EXCEPT ![n] = Append(@, m)]
                  /\ audience' = [audience EXCEPT ![m] = viewers_]
                  /\ UNCHANGED <<database, relay, sending, viewers_, pages>>

\* redis->publish("chat:" + streamId, ...): to every relay that listens.
Publish(m) == /\ pc[m] = "committed"
              /\ Goto(m, "published")
              /\ log' = Append(log, m)
              /\ channel' = [n \in Nodes |-> IF relay[n] # "exited"
                                               THEN Append(channel[n], m) ELSE channel[n]]
              /\ audience' = [audience EXCEPT ![m] = viewers_]
              /\ UNCHANGED <<database, relay, sending, viewers_, pages>>

\* The pool's Redis client is disconnected: publish returns 0, nobody looks.
PublishFails(m) == /\ pc[m] = "committed"
                   /\ Goto(m, "unpublished")
                   /\ UNCHANGED <<database, relays, viewers_, audience, pages>>

-----------------------------------------------------------------------------
(* The relay thread of a node: psubscribe's loop around Broadcast            *)

\* The connections in the registry of node n.
Local(n) == {v \in viewers_ : NodeOf[v] = n}

\* The next pmessage: copy the registry entry.  The message stays at the head
\* of the channel until the last viewer is served.
RelayNext(n) == /\ relay[n] = "listening"
                /\ channel[n] # <<>>
                /\ relay' = [relay EXCEPT ![n] = "sending"]
                /\ sending' = [sending EXCEPT ![n] = Local(n)]
                /\ UNCHANGED <<pc, database, log, channel, viewers_, audience, pages>>

\* Send to one more viewer of the copy, if its connection is still open.
RelaySend(n) == /\ relay[n] = "sending"
                /\ \E v \in sending[n] :
                      /\ sending' = [sending EXCEPT ![n] = @ \ {v}]
                      /\ frames' = IF v \in viewers_
                                     THEN [frames EXCEPT ![v] = Append(@, Head(channel[n]))]
                                     ELSE frames
                /\ UNCHANGED <<pc, database, log, channel, relay, viewers_, audience,
                               seen, history, answer, messages>>

\* Mutated form of RelayDone: the message is not taken off the channel.
RelayDoneKeeps(n) == /\ relay[n] = "sending"
                     /\ sending[n] = {}
                     /\ relay' = [relay EXCEPT ![n] = "listening"]
                     /\ UNCHANGED <<pc, database, log, channel, sending, viewers_, audience, pages>>

\* Mutated form of RelayDone: the next message is taken before all are served.
RelayDoneEarly(n) == /\ relay[n] = "sending"
                     /\ relay' = [relay EXCEPT ![n] = "listening"]
                     /\ channel' = [channel EXCEPT ![n] = Tail(@)]
                     /\ UNCHANGED <<pc, database, log, sending, viewers_, audience, pages>>

\* The callback returns; the loop reads on.
RelayDone(n) == /\ relay[n] = "sending"
                /\ sending[n] = {}
                /\ relay' = [relay EXCEPT ![n] = "listening"]
                /\ channel' = [channel EXCEPT ![n] = Tail(@)]
                /\ UNCHANGED <<pc, database, log, sending, viewers_, audience, pages>>

\* Redis closes the connection: the loop ends, the thread exits, for good.
RelayExits(n) == /\ relay[n] = "listening"
                 /\ Cardinality({k \in Nodes : relay[k] = "exited"}) < MaxLost
                 /\ relay' = [relay EXCEPT ![n] = "exited"]
                 /\ channel' = [channel EXCEPT ![n] = <<>>]
                 /\ UNCHANGED <<pc, database, log, sending, viewers_, audience, pages>>

-----------------------------------------------------------------------------
(* The viewer's page                                                         *)

\* The WebSocket is connected and registered.
Join(v) == /\ v \notin viewers_
           /\ frames[v] = <<>> /\ history[v] # "left"
           /\ viewers_' = viewers_ \cup {v}
           /\ UNCHANGED <<pc, database, relays, audience, pages>>

\* The page is left: the connection is closed, nothing is shown any more.
Leave(v) == /\ v \in viewers_
            /\ viewers_' = viewers_ \ {v}
            /\ history' = [history EXCEPT ![v] = "left"]
            /\ UNCHANGED <<pc, database, relays, audience, frames, seen, answer, messages>>

\* What GetRecent returns: the Limit latest rows, or all if there are fewer,
\* oldest first.
IsRecent(h) ==
  /\ Len(h) = IF Cardinality(Rows) < Limit THEN Cardinality(Rows) ELSE Limit
  /\ \A i, j \in DOMAIN h : i < j => id[h[i]] < id[h[j]]
  /\ \A m \in Rows \ Range(h) : \A i \in DOMAIN h : id[m] < id[h[i]]

\* The server reads the history for the page.
GetRecent(v) == /\ history[v] = "asked"
                /\ \E n \in 0..Cardinality(Rows) : \E h \in [1..n -> Rows] :
                      /\ IsRecent(h)
                      /\ answer' = [answer EXCEPT ![v] = h]
                /\ history' = [history EXCEPT ![v] = "answered"]
                /\ UNCHANGED <<pc, database, relays, viewers_, audience, frames, seen, messages>>

\* The answer arrives: setMessages(data), whatever is on the page by then.
ShowHistory(v) == /\ history[v] = "answered"
                  /\ messages' = [messages EXCEPT ![v] = answer[v]]
                  /\ history' = [history EXCEPT ![v] = "over"]
                  /\ UNCHANGED <<pc, database, relays, viewers_, audience, frames, seen, answer>>

\* The request fails; the page goes on without history.
HistoryFails(v) == /\ history[v] \in {"asked", "answered"}
                   /\ history' = [history EXCEPT ![v] = "over"]
                   /\ UNCHANGED <<pc, database, relays, viewers_, audience, frames, seen, answer, messages>>

\* Mutated form of Receive: the page appends without looking for the id.
ReceiveTwice(v) == /\ v \in viewers_
                   /\ seen[v] < Len(frames[v])
                   /\ seen' = [seen EXCEPT ![v] = @ + 1]
                   /\ messages' = [messages EXCEPT ![v] = Append(@, frames[v][seen[v] + 1])]
                   /\ UNCHANGED <<pc, database, relays, viewers_, audience, frames, history, answer>>

\* ws.onmessage, type chat: append, unless a message with this id is there.
Receive(v) == /\ v \in viewers_
              /\ seen[v] < Len(frames[v])
              /\ seen' = [seen EXCEPT ![v] = @ + 1]
              /\ LET m == frames[v][seen[v] + 1]
                 IN messages' = IF \E i \in DOMAIN messages[v] : id[messages[v][i]] = id[m]
                                  THEN messages
                                  ELSE [messages EXCEPT ![v] = Append(@, m)]
              /\ UNCHANGED <<pc, database, relays, viewers_, audience, frames, history, answer>>

-----------------------------------------------------------------------------
\* Every message has gone as far as it goes, no frame and no answer is on its way.
AtRest == /\ \A m \in Messages : pc[m] \in {"dropped", "published", "unpublished"}
          /\ \A n \in Nodes : relay[n] # "sending" /\ channel[n] = <<>>
          /\ \A v \in Viewers : history[v] \notin {"asked", "answered"}
          /\ \A v \in viewers_ : seen[v] = Len(frames[v])

Idle == AtRest /\ UNCHANGED vars

CallbackStep(m) == \/ Insert(m) \/ Commit(m) \/ Publish(m)
                   \/ Ignore(m) \/ InsertFails(m) \/ PublishFails(m)
RelayStep(n) == RelayNext(n) \/ RelaySend(n) \/ RelayDone(n)
PageStep(v) == GetRecent(v) \/ ShowHistory(v) \/ HistoryFails(v)

Next == \/ \E m \in Messages : CallbackStep(m)
        \/ \E n \in Nodes : RelayStep(n) \/ RelayExits(n)
        \/ \E v \in Viewers : Join(v) \/ Leave(v) \/ PageStep(v) \/ Receive(v)
        \/ Idle

Spec == Init /\ [][Next]_vars

\* Relay threads and browsers keep running.  Nothing obliges anyone to write,
\* join, leave, or lose a connection.
FairSpec == /\ Spec
            /\ \A n \in Nodes : WF_vars(RelayStep(n))
            /\ \A v \in Viewers : WF_vars(Receive(v)) /\ WF_vars(PageStep(v))

-----------------------------------------------------------------------------
\* Types; a relay has a message in hand exactly while it is sending, and sends
\* it to connections of its own node only.
TypeOK == /\ pc \in [Messages -> {"typed", "inserted", "committed", "published", "unpublished", "dropped"}]
          /\ id \in [Messages -> Nat]
          /\ serial \in Nat
          /\ log \in Seq(Messages)
          /\ channel \in [Nodes -> Seq(Messages)]
          /\ relay \in [Nodes -> {"listening", "sending", "exited"}]
          /\ sending \in [Nodes -> SUBSET Viewers]
          /\ \A n \in Nodes :
                /\ \A v \in sending[n] : NodeOf[v] = n
                /\ relay[n] # "sending" => sending[n] = {}
                /\ relay[n] = "sending" => channel[n] # <<>>
          /\ viewers_ \in SUBSET Viewers
          /\ audience \in [Messages -> SUBSET Viewers]
          /\ frames \in [Viewers -> Seq(Messages)]
          /\ \A v \in Viewers : seen[v] \in 0..Len(frames[v])
          /\ history \in [Viewers -> {"asked", "answered", "over", "left"}]
          /\ answer \in [Viewers -> Seq(Messages)]
          /\ messages \in [Viewers -> Seq(Messages)]

\* "Persist first ... Then publish" (VIewerRoutes.cpp:57 and 72): what a page
\* shows, from history or live, is committed in the database.
ShownIsPersisted == \A v \in Viewers : Range(messages[v]) \subseteq Rows

\* A page never shows a message twice, although it gets messages from the
\* history and from the WebSocket in any order and overlapping.
ShownOnce == \A v \in Viewers : \A i, j \in DOMAIN messages[v] :
                messages[v][i] = messages[v][j] => i = j

\* All viewers of all nodes are sent the messages in the one order in which
\* Redis got them: no relay reorders or repeats.
SentInPublishOrder ==
  \A v \in Viewers : \A i, j \in DOMAIN frames[v] : i < j =>
     \E k, l \in DOMAIN log : k < l /\ log[k] = frames[v][i] /\ log[l] = frames[v][j]

\* "works across multiple backend nodes" (README.md:34): a published message
\* reaches every viewer registered at that moment, whatever node it is on,
\* unless it leaves or its node's relay has lost Redis.
PublishedIsDelivered ==
  \A m \in Messages : pc[m] = "published" ~>
     \A v \in audience[m] : \/ Holds(SubSeq(frames[v], 1, seen[v]), m)
                           \/ v \notin viewers_
                           \/ relay[NodeOf[v]] = "exited"

\* The page merges live messages by id into what it shows (StreamView.tsx:118),
\* "100% delivered" (README.md:49): at rest every viewer that received a message
\* and is still there has it on its page.
DeliveredIsShown == AtRest => \A v \in viewers_ : Range(frames[v]) \subseteq Range(messages[v])
=============================================================================
