----------------------------- MODULE ViewerCount -----------------------------
(* The viewers of one channel: the /ws/view handler and its close callback,  *)
(* the ViewerRegistry of every backend node, the shared Redis key            *)
(* viewers:<channel>, and CleanupStream, which runs when a stream of the     *)
(* channel ends.  (A channel is a user name: its streams come and go, the    *)
(* key and the registries stay.)                                             *)
(*                                                                           *)
(* Each viewer is one WebSocketConnection.  Its handler runs on one worker   *)
(* thread and its callbacks on others; every registry critical section,      *)
(* every Redis command and every send is a step of its own.  Redis itself    *)
(* is taken to answer: losing it is not modelled here.                       *)
EXTENDS Integers, FiniteSets

CONSTANTS Viewers,      \* the WebSocket connections to /ws/view
          Nodes,        \* the backend nodes
          NodeOf,       \* NodeOf[v]: the node viewer v is connected to
          Endings,      \* the endings of streams of this channel
          EndsAt,       \* EndsAt[e]: the node the streamer was connected to
          MaxVanish     \* bound: how many clients vanish without a Close frame

ASSUME ViewerCountAssumption == /\ IsFiniteSet(Viewers)
                                /\ NodeOf \in [Viewers -> Nodes]
                                /\ EndsAt \in [Endings -> Nodes]
                                /\ MaxVanish \in Nat

VARIABLES pc,           \* pc[v]: how far the handler and the callback of v are
          state,        \* state[v]: state_ of the WebSocketConnection
          up,           \* up[v]: the client is there
          viewers_,     \* viewers_[n]: the channel's entry in node n's registry
          redis,        \* the integer under viewers:<channel>
          count,        \* count[v]: the local variable count
          snapshot,     \* snapshot[v]: whom v's Broadcast has still to tell
          told,         \* told[v]: the last viewer_count sent to v, -1 if none
          epc,          \* epc[e]: how far CleanupStream of ending e is
          kicked,       \* kicked[e]: whom its CloseAll has still to close
          before,       \* before[e]: who was registered on its node when it began
          vanished,     \* how many clients vanished
          repeated      \* whose close callback has run more than once (history)

historyVars == <<vanished, repeated>>
vars == <<pc, state, up, viewers_, redis, count, snapshot, told, epc, kicked, before, historyVars>>

\* Places of a viewer.  The handler goes from "upgraded" to "ready", where the
\* callbacks are set; the close callback goes from "remove" to "gone".
Joining == {"upgraded", "added", "counted", "greeting"}
Leaving == {"remove", "decr", "reset", "left", "parting"}
Resting == {"out", "rejected", "ready", "gone"}
EndPlaces == {"live", "closing", "zero", "ended"}

Registered == UNION {viewers_[n] : n \in Nodes}
Goto(v, place) == pc' = [pc EXCEPT ![v] = place]

Init == /\ pc = [v \in Viewers |-> "out"]
        /\ state = [v \in Viewers |-> "CLOSED"]
        /\ up = [v \in Viewers |-> FALSE]
        /\ viewers_ = [n \in Nodes |-> {}]
        /\ redis = 0
        /\ count = [v \in Viewers |-> 0]
        /\ snapshot = [v \in Viewers |-> {}]
        /\ told = [v \in Viewers |-> -1]
        /\ epc = [e \in Endings |-> "live"]
        /\ kicked = [e \in Endings |-> {}]
        /\ before = [e \in Endings |-> {}]
        /\ vanished = 0 /\ repeated = {}

unchangedEndings == UNCHANGED <<epc, kicked, before>>

-----------------------------------------------------------------------------
(* The handler of /ws/view                                                   *)

\* Mutated form of Upgrade: the constructor leaves state_ uninitialised.
UpgradeUninitialised(v) == /\ pc[v] = "out"
                           /\ Goto(v, "upgraded")
                           /\ state' = [state EXCEPT ![v] = "garbage"]
                           /\ up' = [up EXCEPT ![v] = TRUE]
                           /\ UNCHANGED <<viewers_, redis, count, snapshot, told, historyVars>>
                           /\ unchangedEndings

\* UpgradeToWebSocket: the connection is OPEN before the handler runs.
Upgrade(v) == /\ pc[v] = "out"
              /\ Goto(v, "upgraded")
              /\ state' = [state EXCEPT ![v] = "OPEN"]
              /\ up' = [up EXCEPT ![v] = TRUE]
              /\ UNCHANGED <<viewers_, redis, count, snapshot, told, historyVars>>
              /\ unchangedEndings

\* No streamId in the query: Close(1008), no callbacks, nothing registered.
Reject(v) == /\ pc[v] = "upgraded"
             /\ Goto(v, "rejected")
             /\ state' = [state EXCEPT ![v] = IF @ = "OPEN" THEN "CLOSING" ELSE @]
             /\ UNCHANGED <<up, viewers_, redis, count, snapshot, told, historyVars>>
             /\ unchangedEndings

\* registry.Add(streamId, ws)
Add(v) == /\ pc[v] = "upgraded"
          /\ viewers_' = [viewers_ EXCEPT ![NodeOf[v]] = @ \cup {v}]
          /\ Goto(v, "added")
          /\ UNCHANGED <<state, up, redis, count, snapshot, told, historyVars>>
          /\ unchangedEndings

\* count = redis->incr("viewers:" + streamId)
Incr(v) == /\ pc[v] = "added"
           /\ redis' = redis + 1
           /\ count' = [count EXCEPT ![v] = redis + 1]
           /\ Goto(v, "counted")
           /\ UNCHANGED <<state, up, viewers_, snapshot, told, historyVars>>
           /\ unchangedEndings

\* registry.Broadcast, first half: copy this node's entry under the lock.
Snapshot(v) == /\ pc[v] \in {"counted", "left"}
               /\ snapshot' = [snapshot EXCEPT ![v] = viewers_[NodeOf[v]]]
               /\ Goto(v, IF pc[v] = "counted" THEN "greeting" ELSE "parting")
               /\ UNCHANGED <<state, up, viewers_, redis, count, told, historyVars>>
               /\ unchangedEndings

\* registry.Broadcast, second half: outside the lock, in the order of a hash
\* set, one connection after the other, those that are OPEN.
Tell(v) == /\ pc[v] \in {"greeting", "parting"}
           /\ \E w \in snapshot[v] :
                 /\ snapshot' = [snapshot EXCEPT ![v] = @ \ {w}]
                 /\ told' = IF state[w] = "OPEN" THEN [told EXCEPT ![w] = count[v]] ELSE told
           /\ UNCHANGED <<pc, state, up, viewers_, redis, count, historyVars>>
           /\ unchangedEndings

\* Everybody is told: a new viewer gets its callbacks, a leaving one is gone.
Told(v) == /\ pc[v] \in {"greeting", "parting"}
           /\ snapshot[v] = {}
           /\ Goto(v, IF pc[v] = "greeting" THEN "ready" ELSE "gone")
           /\ UNCHANGED <<state, up, viewers_, redis, count, snapshot, told, historyVars>>
           /\ unchangedEndings

-----------------------------------------------------------------------------
(* The close callback                                                        *)

\* WebSocketConnection::OnReadable gets a Close frame of the client, the first
\* of the two, the answer to ours, or one more: state_ is not looked at before
\* the callback is called.  It runs if it is set by then; conn_mutex_ is held
\* until it returns, so another Close is read only after it.
OnClose(v) == /\ up[v] /\ pc[v] \notin Leaving
              /\ state' = [state EXCEPT ![v] = "CLOSED"]
              /\ Goto(v, IF pc[v] \in {"ready", "gone"} THEN "remove" ELSE pc[v])
              /\ repeated' = IF pc[v] = "gone" THEN repeated \cup {v} ELSE repeated
              /\ UNCHANGED <<up, viewers_, redis, count, snapshot, told, vanished>>
              /\ unchangedEndings

\* The client is gone without a Close frame.  recv returns 0 and state_ is
\* CLOSED, or recv fails and state_ stays; no callback runs either way.
Vanish(v) == /\ up[v]
             /\ vanished < MaxVanish
             /\ vanished' = vanished + 1
             /\ up' = [up EXCEPT ![v] = FALSE]
             /\ state' \in {state, [state EXCEPT ![v] = "CLOSED"]}
             /\ UNCHANGED <<pc, viewers_, redis, count, snapshot, told, repeated>>
             /\ unchangedEndings

\* Mutated form of Remove: the close callback forgets the registry.
RemoveNothing(v) == /\ pc[v] = "remove"
                    /\ Goto(v, "decr")
                    /\ UNCHANGED <<state, up, viewers_, redis, count, snapshot, told, historyVars>>
                    /\ unchangedEndings

\* registry.Remove(streamId, ws_)
Remove(v) == /\ pc[v] = "remove"
             /\ viewers_' = [viewers_ EXCEPT ![NodeOf[v]] = @ \ {v}]
             /\ Goto(v, "decr")
             /\ UNCHANGED <<state, up, redis, count, snapshot, told, historyVars>>
             /\ unchangedEndings

\* Mutated form of Decr: the result is not tested.
DecrUnchecked(v) == /\ pc[v] = "decr"
                    /\ redis' = redis - 1
                    /\ count' = [count EXCEPT ![v] = redis - 1]
                    /\ Goto(v, "left")
                    /\ UNCHANGED <<state, up, viewers_, snapshot, told, historyVars>>
                    /\ unchangedEndings

\* Mutated form of Decr: the test is count <= 0.
DecrResetsAtZero(v) == /\ pc[v] = "decr"
                       /\ redis' = redis - 1
                       /\ count' = [count EXCEPT ![v] = redis - 1]
                       /\ Goto(v, IF redis - 1 <= 0 THEN "reset" ELSE "left")
                       /\ UNCHANGED <<state, up, viewers_, snapshot, told, historyVars>>
                       /\ unchangedEndings

\* count = redis->decr(...), and the test count < 0
Decr(v) == /\ pc[v] = "decr"
           /\ redis' = redis - 1
           /\ count' = [count EXCEPT ![v] = redis - 1]
           /\ Goto(v, IF redis - 1 < 0 THEN "reset" ELSE "left")
           /\ UNCHANGED <<state, up, viewers_, snapshot, told, historyVars>>
           /\ unchangedEndings

\* redis->set(..., "0"), which does not look at what the key holds by now
Reset(v) == /\ pc[v] = "reset"
            /\ redis' = 0
            /\ count' = [count EXCEPT ![v] = 0]
            /\ Goto(v, "left")
            /\ UNCHANGED <<state, up, viewers_, snapshot, told, historyVars>>
            /\ unchangedEndings

-----------------------------------------------------------------------------
(* CleanupStream, at the end of a stream                                     *)

\* Mutated form of CloseAll: the entry is erased before it is copied.
CloseAllErasesFirst(e) ==
  /\ epc[e] = "live"
  /\ before' = [before EXCEPT ![e] = viewers_[EndsAt[e]]]
  /\ viewers_' = [viewers_ EXCEPT ![EndsAt[e]] = {}]
  /\ epc' = [epc EXCEPT ![e] = "closing"]
  /\ UNCHANGED <<pc, state, up, redis, count, snapshot, told, kicked, historyVars>>

\* registry.CloseAll, first half: copy and erase this node's entry.
CloseAll(e) == /\ epc[e] = "live"
               /\ before' = [before EXCEPT ![e] = viewers_[EndsAt[e]]]
               /\ kicked' = [kicked EXCEPT ![e] = viewers_[EndsAt[e]]]
               /\ viewers_' = [viewers_ EXCEPT ![EndsAt[e]] = {}]
               /\ epc' = [epc EXCEPT ![e] = "closing"]
               /\ UNCHANGED <<pc, state, up, redis, count, snapshot, told, historyVars>>

\* registry.CloseAll, second half: ws->Close(1001) on each, outside the lock.
CloseOne(e) == /\ epc[e] = "closing"
               /\ \E v \in kicked[e] :
                     /\ kicked' = [kicked EXCEPT ![e] = @ \ {v}]
                     /\ state' = [state EXCEPT ![v] = IF @ = "OPEN" THEN "CLOSING" ELSE @]
               /\ UNCHANGED <<pc, up, viewers_, redis, count, snapshot, told, epc, before, historyVars>>

AllClosed(e) == /\ epc[e] = "closing"
                /\ kicked[e] = {}
                /\ epc' = [epc EXCEPT ![e] = "zero"]
                /\ UNCHANGED <<pc, state, up, viewers_, redis, count, snapshot, told, kicked, before, historyVars>>

\* redis->set("viewers:" + channel, "0")
Zero(e) == /\ epc[e] = "zero"
           /\ redis' = 0
           /\ epc' = [epc EXCEPT ![e] = "ended"]
           /\ UNCHANGED <<pc, state, up, viewers_, count, snapshot, told, kicked, before, historyVars>>

-----------------------------------------------------------------------------
\* No handler, callback or cleanup is under way and no client owes an answer.
AtRest == /\ \A v \in Viewers : /\ pc[v] \in Resting
                                /\ ~(up[v] /\ state[v] = "CLOSING")
          /\ \A e \in Endings : epc[e] \in {"live", "ended"}

Idle == AtRest /\ UNCHANGED vars

Next == \/ \E v \in Viewers : \/ Upgrade(v) \/ Reject(v) \/ Add(v) \/ Incr(v)
                              \/ Snapshot(v) \/ Tell(v) \/ Told(v)
                              \/ OnClose(v) \/ Vanish(v)
                              \/ Remove(v) \/ Decr(v) \/ Reset(v)
        \/ \E e \in Endings : CloseAll(e) \/ CloseOne(e) \/ AllClosed(e) \/ Zero(e)
        \/ Idle

Spec == Init /\ [][Next]_vars

-----------------------------------------------------------------------------
TypeOK == /\ pc \in [Viewers -> Joining \cup Leaving \cup Resting]
          /\ state \in [Viewers -> {"OPEN", "CLOSING", "CLOSED"}]
          /\ up \in [Viewers -> BOOLEAN]
          /\ viewers_ \in [Nodes -> SUBSET Viewers]
          /\ redis \in Int
          /\ count \in [Viewers -> Int]
          /\ snapshot \in [Viewers -> SUBSET Viewers]
          /\ told \in [Viewers -> Int]
          /\ epc \in [Endings -> EndPlaces]
          /\ kicked \in [Endings -> SUBSET Viewers]
          /\ before \in [Endings -> SUBSET Viewers]
          /\ vanished \in 0..MaxVanish
          /\ repeated \subseteq Viewers

\* The key goes below zero only as far as there are close callbacks that have
\* seen it and are about to set it back: the guard "count < 0" in the callback
\* repairs every negative value, also when several leave at once and while
\* CleanupStream sets the key to 0 in between.
DebtCovered == redis + Cardinality({v \in Viewers : pc[v] = "reset"}) >= 0

\* A connection is in the registry of its own node only, and no longer once
\* its close callback has run Remove: the callbacks are set after Add, so no
\* order of threads can put a viewer back that has left.
LeftStaysOut == \A v \in Viewers : \A n \in Nodes :
                   v \in viewers_[n] =>
                      /\ n = NodeOf[v]
                      /\ pc[v] \in {"added", "counted", "greeting", "ready", "remove"}

\* Until a stream of the channel ends, INCR and DECR of the handlers go with
\* Add and Remove of the registries of all nodes: at rest the key never exceeds
\* the number of registered connections, and is that number unless some peer
\* made its close callback run again.
CountMatchesRegistry == /\ AtRest
                        /\ \A e \in Endings : epc[e] = "live"
                        => /\ redis <= Cardinality(Registered)
                           /\ repeated = {} => redis = Cardinality(Registered)

\* "Close all viewer WebSockets" (StreamCleanup.h:10): after CleanupStream no
\* connection that was registered on its node when it began is still open,
\* whoever joins, leaves, vanishes or ends meanwhile.
EndClosesViewers == \A e \in Endings : epc[e] \in {"zero", "ended"} =>
                       \A v \in before[e] : state[v] # "OPEN"
==============================================================================
