---------------------------- MODULE StreamSession ----------------------------
(* The broadcasts of one user over the backend's nodes: the row in streams,   *)
(* the StreamerSession with its peer connection, FFmpeg and uploader thread,  *)
(* how a broadcast ends, and the crash and start of nodes (EndAll).           *)
(*                                                                            *)
(* A user may have several sessions at once: the dashboard's stop button does *)
(* not end the first.  Signalling has the exchange on the WebSocket,          *)
(* SegmentPipeline the uploader's passes, ViewerCount CleanupStream.          *)
EXTENDS Naturals, FiniteSets

CONSTANTS Sessions, Nodes,
          MaxStarts    \* bound on the starts of nodes

ASSUME StreamSessionAssumption == /\ IsFiniteSet(Sessions) /\ IsFiniteSet(Nodes)
                                  /\ MaxStarts \in Nat
                                  /\ "none" \notin Nodes

VARIABLES node, starts,   \* the nodes' processes; how often one was started
          row,            \* status of each session's row in streams
          at,             \* the node of each session
          session,        \* the StreamerSession objects
          overtaken       \* history: rows that EndAll has ended

vars == <<node, starts, row, at, session, overtaken>>

\* phase: of the /sig handler and of the close callback.  "failed" is a session
\* that no callback will end any more, "dead" one whose process is gone.
\* ffmpegProcess: "none" before the first packet, "gone" once it is null again.
Phases == {"none", "inserted", "open", "flagged", "ended", "closed",
           "failed", "destroyed", "dead"}

Fresh == [phase |-> "none", isLive |-> TRUE, pc |-> "none", videoPacketCounter |-> 0,
          ffmpegProcess |-> "none", uploader |-> "none"]

Init == /\ node = [n \in Nodes |-> "down"] /\ starts = 0
        /\ row = [s \in Sessions |-> "none"]
        /\ at = [s \in Sessions |-> "none"]
        /\ session = [s \in Sessions |-> Fresh]
        /\ overtaken = {}

-----------------------------------------------------------------------------
(* Nodes                                                                      *)

Start(n) == /\ node[n] = "down" /\ starts < MaxStarts
            /\ node' = [node EXCEPT ![n] = "starting"]
            /\ starts' = starts + 1
            /\ UNCHANGED <<row, at, session, overtaken>>

\* EndAll, before the node accepts connections: the rows of all nodes.
EndAll(n) == /\ node[n] = "starting"
             /\ node' = [node EXCEPT ![n] = "up"]
             /\ row' = [s \in Sessions |-> IF row[s] = "live" THEN "ended" ELSE row[s]]
             /\ overtaken' = overtaken \cup {s \in Sessions : row[s] = "live"}
             /\ UNCHANGED <<starts, at, session>>

\* No database: main does not catch it.
EndAllThrows(n) == /\ node[n] = "starting"
                   /\ node' = [node EXCEPT ![n] = "down"]
                   /\ UNCHANGED <<starts, row, at, session, overtaken>>

Crash(n) == /\ node[n] = "up"
            /\ node' = [node EXCEPT ![n] = "down"]
            /\ session' = [s \in Sessions |->
                             IF at[s] = n THEN [Fresh EXCEPT !.phase = "dead"] ELSE session[s]]
            /\ UNCHANGED <<starts, row, at, overtaken>>

-----------------------------------------------------------------------------
(* The /sig handler                                                           *)

Rest == UNCHANGED <<node, starts, at, overtaken>>

\* repo.Create commits the row.
Create(s, n) == /\ session[s].phase = "none" /\ node[n] = "up"
                /\ session' = [session EXCEPT ![s].phase = "inserted"]
                /\ row' = [row EXCEPT ![s] = "live"]
                /\ at' = [at EXCEPT ![s] = n]
                /\ UNCHANGED <<node, starts, overtaken>>

\* Phase p ends; e is the session then.
Phase(s, p, e) == /\ session[s].phase = p
                  /\ session' = [session EXCEPT ![s] = e]
                  /\ Rest

\* The session, its uploader thread and its callbacks.
createPeerConnection(s) ==
  /\ Phase(s, "inserted", [session[s] EXCEPT !.phase = "open", !.pc = "disconnected", !.uploader = "running"])
  /\ UNCHANGED row

\* It throws: the session is destroyed again, the row stays.
SetupThrows(s) == Phase(s, "inserted", [session[s] EXCEPT !.phase = "failed"]) /\ UNCHANGED row

-----------------------------------------------------------------------------
(* Peer connection, FFmpeg and uploader                                       *)

\* A callback of session s, in every phase of its life.
Callback(s, e) == /\ session' = [session EXCEPT ![s] = e]
                  /\ UNCHANGED row /\ Rest

\* ICE connects, also again after a disconnection.
Connect(s) == /\ session[s].pc = "disconnected"
              /\ Callback(s, [session[s] EXCEPT !.pc = "connected"])

Quit(process) == IF process \in {"running", "orphan"} THEN "gone" ELSE process

\* onStateChange(Disconnected or Failed): a running FFmpeg is told to quit.
Disconnect(s) == /\ session[s].pc = "connected"
                 /\ Callback(s, [session[s] EXCEPT !.pc = "disconnected", !.ffmpegProcess = Quit(@)])

\* Mutated form of FirstPacket: every packet is taken for the first.
FirstPacketAlways(s) == /\ session[s].pc = "connected"
                        /\ session[s].ffmpegProcess # "starting"
                        /\ Callback(s, [session[s] EXCEPT !.videoPacketCounter = @ + 1,
                                                          !.ffmpegProcess = "starting"])

\* The first video packet starts FFmpeg; later ones are only passed on, also
\* when FFmpeg has quit.
FirstPacket(s) == /\ session[s].pc = "connected" /\ session[s].videoPacketCounter = 0
                  /\ Callback(s, [session[s] EXCEPT !.videoPacketCounter = 1, !.ffmpegProcess = "starting"])

\* popen returns.  When the Closed callback has run before, it saw no process.
Popen(s) == /\ session[s].ffmpegProcess = "starting"
            /\ Callback(s, [session[s] EXCEPT !.ffmpegProcess =
                                                IF session[s].pc = "closed" THEN "orphan" ELSE "running"])

\* popen returns NULL, which nobody looks at.
PopenFails(s) == /\ session[s].ffmpegProcess = "starting"
                 /\ Callback(s, [session[s] EXCEPT !.ffmpegProcess = "gone"])

\* onStateChange(Closed).
Closed(s) == /\ session[s].pc = "closing"
             /\ Callback(s, [session[s] EXCEPT !.pc = "closed", !.ffmpegProcess = Quit(@)])

\* The uploader leaves its loop and makes its final pass.
UploaderEnds(s) == /\ session[s].uploader = "running" /\ ~session[s].isLive
                   /\ Callback(s, [session[s] EXCEPT !.uploader = "over"])

-----------------------------------------------------------------------------
(* How a broadcast ends                                                       *)

\* A FIN or reset, or a close code outside 1000..4999: nothing is undone.
Unnoticed(s) == Phase(s, "open", [session[s] EXCEPT !.phase = "failed"]) /\ UNCHANGED row

\* Mutated form of OnClose: the flag stays.
OnCloseStaysLive(s) == /\ session[s].phase \in {"open", "closed"}
                       /\ Callback(s, [session[s] EXCEPT !.phase = "flagged"])

\* The close callback; a second Close frame runs it again.
OnClose(s) == /\ session[s].phase \in {"open", "closed"}
              /\ Callback(s, [session[s] EXCEPT !.phase = "flagged", !.isLive = FALSE])

\* Mutated form of SetEnded: every row of the user.
SetEndedByUser(s) == /\ Phase(s, "flagged", [session[s] EXCEPT !.phase = "ended"])
                     /\ row' = [t \in Sessions |-> IF row[t] = "live" THEN "ended" ELSE row[t]]

SetEnded(s) == /\ Phase(s, "flagged", [session[s] EXCEPT !.phase = "ended"])
               /\ row' = [row EXCEPT ![s] = "ended"]

\* It throws: the callback ends here, the peer connection is not closed.
SetEndedThrows(s) == Phase(s, "flagged", [session[s] EXCEPT !.phase = "failed"]) /\ UNCHANGED row

\* CleanupStream, which changes nothing of the session, and pc->close().
PcClose(s) == /\ Phase(s, "ended", [session[s] EXCEPT !.phase = "closed",
                                                       !.pc = IF @ = "closed" THEN @ ELSE "closing"])
              /\ UNCHANGED row

\* ws_connections_ forgets the connection when its descriptor is used again, and
\* with the closed peer connection's callbacks the last reference is gone.  The
\* destructor joins the uploader and stops an FFmpeg that is left.
Destroy(s) == /\ session[s].pc = "closed"
              /\ session[s].uploader = "over" /\ session[s].ffmpegProcess # "starting"
              /\ Phase(s, "closed", [Fresh EXCEPT !.phase = "destroyed"])
              /\ UNCHANGED row

-----------------------------------------------------------------------------
Handler(s) == createPeerConnection(s) \/ SetupThrows(s)
CloseCallback(s) == SetEnded(s) \/ SetEndedThrows(s) \/ PcClose(s)
FfmpegStarts(s) == Popen(s) \/ PopenFails(s)

\* No node will start again and no session begin.
Over == /\ \A n \in Nodes : node[n] = "down"
        /\ starts = MaxStarts
        /\ UNCHANGED vars

Next == \/ \E n \in Nodes : Start(n) \/ EndAll(n) \/ EndAllThrows(n) \/ Crash(n)
        \/ \E s \in Sessions, n \in Nodes : Create(s, n)
        \/ \E s \in Sessions : \/ Handler(s) \/ Unnoticed(s) \/ OnClose(s) \/ CloseCallback(s)
                               \/ Connect(s) \/ Disconnect(s) \/ FirstPacket(s) \/ FfmpegStarts(s)
                               \/ Closed(s) \/ UploaderEnds(s) \/ Destroy(s)
        \/ Over

Spec == Init /\ [][Next]_vars

\* Threads that have work go on; nobody has to broadcast, to close or to crash.
FairSpec == /\ Spec
            /\ \A s \in Sessions : /\ WF_vars(CloseCallback(s)) /\ WF_vars(Closed(s))
                                   /\ WF_vars(FfmpegStarts(s)) /\ WF_vars(UploaderEnds(s))

-----------------------------------------------------------------------------
TypeOK == /\ node \in [Nodes -> {"down", "starting", "up"}]
          /\ starts \in 0..MaxStarts
          /\ row \in [Sessions -> {"none", "live", "ended"}]
          /\ at \in [Sessions -> Nodes \cup {"none"}]
          /\ session \in [Sessions ->
               [phase : Phases, isLive : BOOLEAN,
                pc : {"none", "connected", "disconnected", "closing", "closed"},
                videoPacketCounter : 0..1,
                ffmpegProcess : {"none", "starting", "running", "orphan", "gone"},
                uploader : {"none", "running", "over"}]]
          /\ overtaken \subseteq Sessions

\* /api/streams/live lists what is live.  A live row is that of a session that
\* has not been ended, and one whose process is gone is listed only until its
\* node is up again.  A session that is open is listed, whatever other sessions
\* of the user do, unless a node has started since.
ListingExact ==
  \A s \in Sessions :
    /\ row[s] = "live" => \/ session[s].phase \in {"inserted", "open", "flagged", "failed"}
                          \/ session[s].phase = "dead" /\ node[at[s]] # "up"
    /\ session[s].phase \in {"inserted", "open"} => row[s] = "live" \/ s \in overtaken

\* A close callback that comes to its end releases the session for good: the
\* uploader thread ends and FFmpeg is stopped, unless popen was overtaken by the
\* Closed callback (orphan) or the process is gone.
CloseReleases ==
  \A s \in Sessions :
    session[s].phase = "closed" ~>
      [](\/ session[s].phase \in {"dead", "destroyed"}
         \/ session[s].uploader = "over" /\ session[s].ffmpegProcess \in {"none", "orphan", "gone"})
=============================================================================
