---------------------------- MODULE StreamProofs ----------------------------
(* Proofs about a stream: about StreamSession, for every finite set of        *)
(* sessions and nodes and any number of starts and crashes, and about the     *)
(* way of its files, SegmentPipeline, for any number of segments, any list    *)
(* size and any number of failures and of passes of the cleaner.              *)
EXTENDS StreamSession, SegmentPipeline, TLAPS

\* The sessions that /api/streams/live may still list: no SetEnded has run for
\* the row.
NotEnded == {"inserted", "open", "flagged", "failed"}

\* The StreamerSession objects.
Records == [phase : Phases, isLive : BOOLEAN,
            pc : {"none", "connected", "disconnected", "closing", "closed"},
            videoPacketCounter : 0..1,
            ffmpegProcess : {"none", "starting", "running", "orphan", "gone"},
            uploader : {"none", "running", "over"}]

\* No peer connection before createPeerConnection.
NoneYet == \A s \in Sessions : session[s].phase \in {"none", "inserted"} => session[s].pc = "none"

Inv == TypeOK /\ ListingExact /\ NoneYet

-----------------------------------------------------------------------------
(* Types and the list of live streams                                         *)

\* What is left of a session that is destroyed or whose process is gone.
LEMMA FreshRecords ==
  ASSUME NEW p \in Phases
  PROVE  LET e == [Fresh EXCEPT !.phase = p] IN e \in Records /\ e.phase = p
<1>1. Fresh \in Records
  BY DEF Fresh, Records, Phases
<1> QED
  BY <1>1 DEF Records

\* Nothing is listed before the first node is up.
LEMMA InitInv == Init => Inv
BY StreamSessionAssumption DEF Init, Inv, TypeOK, ListingExact, NoneYet, Fresh, Phases

\* Starts and crashes of nodes: EndAll ends every live row before the node is
\* up, so a row that outlived its process is not listed from then on.
LEMMA NodeInv ==
  ASSUME Inv, NEW n \in Nodes, Start(n) \/ EndAll(n) \/ EndAllThrows(n) \/ Crash(n)
  PROVE  Inv'
<1> USE StreamSessionAssumption DEF Inv
<1>1. CASE Start(n)
  BY <1>1 DEF Start, TypeOK, ListingExact, NoneYet
<1>2. CASE EndAll(n)
  BY <1>2 DEF EndAll, TypeOK, ListingExact, NoneYet
<1>3. CASE EndAllThrows(n)
  BY <1>3 DEF EndAllThrows, TypeOK, ListingExact, NoneYet
<1>4. CASE Crash(n)
  <2>1. TypeOK'
    <3>1. [Fresh EXCEPT !.phase = "dead"] \in Records
      BY FreshRecords DEF Phases
    <3> QED
      BY <1>4, <3>1 DEF Crash, TypeOK, Records
  <2>2. ListingExact'
    BY <1>4 DEF Crash, TypeOK, ListingExact, Fresh
  <2>3. NoneYet'
    BY <1>4 DEF Crash, TypeOK, NoneYet, Fresh
  <2> QED
    BY <2>1, <2>2, <2>3
<1> QED
  BY <1>1, <1>2, <1>3, <1>4

\* A step of one session keeps the types if the session stays a record of them.
LEMMA TypesKept ==
  ASSUME TypeOK, NEW s \in Sessions, NEW e \in Records,
         session' = [session EXCEPT ![s] = e], UNCHANGED <<node, starts, at, overtaken>>,
         row' = row \/ row' = [row EXCEPT ![s] = "ended"]
  PROVE  TypeOK'
BY DEF TypeOK, Records

\* A step of one session that leaves its phase alone, or moves it to one that
\* ListingExact allows for its row, keeps the list exact.
LEMMA ListingKept ==
  ASSUME Inv, NEW s \in Sessions, NEW e,
         session' = [session EXCEPT ![s] = e], UNCHANGED <<node, starts, at, overtaken>>,
         \/ row' = row /\ e.phase = session[s].phase
         \/ row' = row /\ session[s].phase # "dead" /\ e.phase \in NotEnded
              /\ (e.phase \in {"inserted", "open"} => session[s].phase \in {"inserted", "open"})
         \/ row' = row /\ row[s] # "live" /\ e.phase \notin {"inserted", "open"}
         \/ row' = [row EXCEPT ![s] = "ended"] /\ e.phase \notin {"inserted", "open"}
  PROVE  ListingExact'
BY DEF Inv, TypeOK, ListingExact, NotEnded

\* A session that has or had a peer connection is past the setup.
LEMMA NoneKept ==
  ASSUME TypeOK, NoneYet, NEW s \in Sessions, NEW e, session' = [session EXCEPT ![s] = e],
         \/ e.phase \notin {"none", "inserted"}
         \/ e.phase = session[s].phase /\ (session[s].pc = "none" => e.pc = "none")
  PROVE  NoneYet'
BY DEF TypeOK, NoneYet

\* The /sig handler and the close callback.
LEMMA HandlerInv ==
  ASSUME Inv, NEW s \in Sessions,
         Handler(s) \/ Unnoticed(s) \/ OnClose(s) \/ CloseCallback(s) \/ Destroy(s)
  PROVE  Inv'
<1> USE DEF Rest, NotEnded
<1>0. TypeOK /\ ListingExact /\ NoneYet /\ session[s] \in Records
  BY DEF Inv, TypeOK, Records
<1>1. CASE createPeerConnection(s)
  <2> DEFINE e == [session[s] EXCEPT !.phase = "open", !.pc = "disconnected", !.uploader = "running"]
  <2>1. e \in Records /\ e.phase = "open"
    BY <1>0 DEF Records, Phases
  <2>2. TypeOK'
    BY <1>1, <1>0, <2>1, TypesKept DEF createPeerConnection, Phase
  <2>3. ListingExact'
    BY <1>1, <2>1, ListingKept DEF createPeerConnection, Phase
  <2>4. NoneYet'
    BY <1>1, <1>0, <2>1, NoneKept DEF createPeerConnection, Phase
  <2> QED
    BY <2>2, <2>3, <2>4 DEF Inv
<1>2. CASE SetupThrows(s)
  <2> DEFINE e == [session[s] EXCEPT !.phase = "failed"]
  <2>1. e \in Records /\ e.phase = "failed"
    BY <1>0 DEF Records, Phases
  <2>2. TypeOK'
    BY <1>2, <1>0, <2>1, TypesKept DEF SetupThrows, Phase
  <2>3. ListingExact'
    BY <1>2, <2>1, ListingKept DEF SetupThrows, Phase
  <2>4. NoneYet'
    BY <1>2, <1>0, <2>1, NoneKept DEF SetupThrows, Phase
  <2> QED
    BY <2>2, <2>3, <2>4 DEF Inv
<1>3. CASE Unnoticed(s)
  <2> DEFINE e == [session[s] EXCEPT !.phase = "failed"]
  <2>1. e \in Records /\ e.phase = "failed"
    BY <1>0 DEF Records, Phases
  <2>2. TypeOK'
    BY <1>3, <1>0, <2>1, TypesKept DEF Unnoticed, Phase
  <2>3. ListingExact'
    BY <1>3, <2>1, ListingKept DEF Unnoticed, Phase
  <2>4. NoneYet'
    BY <1>3, <1>0, <2>1, NoneKept DEF Unnoticed, Phase
  <2> QED
    BY <2>2, <2>3, <2>4 DEF Inv
<1>4. CASE OnClose(s)
  <2> DEFINE e == [session[s] EXCEPT !.phase = "flagged", !.isLive = FALSE]
  <2>1. e \in Records /\ e.phase = "flagged"
    BY <1>0 DEF Records, Phases
  <2>2. TypeOK'
    BY <1>4, <1>0, <2>1, TypesKept DEF OnClose, Callback
  <2>3. ListingExact'
    BY <1>4, <2>1, ListingKept DEF OnClose, Callback
  <2>4. NoneYet'
    BY <1>4, <1>0, <2>1, NoneKept DEF OnClose, Callback
  <2> QED
    BY <2>2, <2>3, <2>4 DEF Inv
<1>5. CASE SetEnded(s)
  <2> DEFINE e == [session[s] EXCEPT !.phase = "ended"]
  <2>1. e \in Records /\ e.phase = "ended"
    BY <1>0 DEF Records, Phases
  <2>2. TypeOK'
    BY <1>5, <1>0, <2>1, TypesKept DEF SetEnded, Phase
  <2>3. ListingExact'
    BY <1>5, <2>1, ListingKept DEF SetEnded, Phase
  <2>4. NoneYet'
    BY <1>5, <1>0, <2>1, NoneKept DEF SetEnded, Phase
  <2> QED
    BY <2>2, <2>3, <2>4 DEF Inv
<1>6. CASE SetEndedThrows(s)
  <2> DEFINE e == [session[s] EXCEPT !.phase = "failed"]
  <2>1. e \in Records /\ e.phase = "failed"
    BY <1>0 DEF Records, Phases
  <2>2. TypeOK'
    BY <1>6, <1>0, <2>1, TypesKept DEF SetEndedThrows, Phase
  <2>3. ListingExact'
    BY <1>6, <2>1, ListingKept DEF SetEndedThrows, Phase
  <2>4. NoneYet'
    BY <1>6, <1>0, <2>1, NoneKept DEF SetEndedThrows, Phase
  <2> QED
    BY <2>2, <2>3, <2>4 DEF Inv
<1>7. CASE PcClose(s)
  <2> DEFINE e == [session[s] EXCEPT !.phase = "closed",
                                    !.pc = IF @ = "closed" THEN @ ELSE "closing"]
  <2>1. e \in Records /\ e.phase = "closed"
    BY <1>0 DEF Records, Phases
  <2>2. TypeOK'
    BY <1>7, <1>0, <2>1, TypesKept DEF PcClose, Phase
  <2>3. row[s] # "live"
    BY <1>7, <1>0 DEF PcClose, Phase, ListingExact
  <2>4. ListingExact'
    BY <1>7, <2>1, <2>3, ListingKept DEF PcClose, Phase
  <2>5. NoneYet'
    BY <1>7, <1>0, <2>1, NoneKept DEF PcClose, Phase
  <2> QED
    BY <2>2, <2>4, <2>5 DEF Inv
<1>8. CASE Destroy(s)
  <2> DEFINE e == [Fresh EXCEPT !.phase = "destroyed"]
  <2>1. e \in Records /\ e.phase = "destroyed"
    BY FreshRecords DEF Phases
  <2>2. TypeOK'
    BY <1>8, <1>0, <2>1, TypesKept DEF Destroy, Phase
  <2>3. row[s] # "live"
    BY <1>8, <1>0 DEF Destroy, Phase, ListingExact
  <2>4. ListingExact'
    BY <1>8, <2>1, <2>3, ListingKept DEF Destroy, Phase
  <2>5. NoneYet'
    BY <1>8, <1>0, <2>1, NoneKept DEF Destroy, Phase
  <2> QED
    BY <2>2, <2>4, <2>5 DEF Inv
<1> QED
  BY <1>1, <1>2, <1>3, <1>4, <1>5, <1>6, <1>7, <1>8 DEF Handler, CloseCallback

\* The callbacks of peer connection, FFmpeg and uploader leave phase and row.
LEMMA CallbackInv ==
  ASSUME Inv, NEW s \in Sessions,
         Connect(s) \/ Disconnect(s) \/ FirstPacket(s) \/ FfmpegStarts(s)
           \/ Closed(s) \/ UploaderEnds(s)
  PROVE  Inv'
<1>0. TypeOK /\ ListingExact /\ NoneYet /\ session[s] \in Records
  BY DEF Inv, TypeOK, Records
<1> DEFINE Same(e) == /\ e.phase = session[s].phase
                      /\ session[s].pc = "none" => e.pc = "none"
<1> SUFFICES ASSUME NEW e \in Records, Same(e), Callback(s, e)
             PROVE  Inv'
  <2>1. ASSUME Connect(s) PROVE \E e \in Records : Same(e) /\ Callback(s, e)
    <3> DEFINE e == [session[s] EXCEPT !.pc = "connected"]
    <3>1. e \in Records /\ Same(e)
      BY <1>0, <2>1 DEF Connect, Records
    <3> QED
      BY <2>1, <3>1 DEF Connect
  <2>2. ASSUME Disconnect(s) PROVE \E e \in Records : Same(e) /\ Callback(s, e)
    <3> DEFINE e == [session[s] EXCEPT !.pc = "disconnected", !.ffmpegProcess = Quit(@)]
    <3>1. e \in Records /\ Same(e)
      BY <1>0, <2>2 DEF Disconnect, Records, Quit
    <3> QED
      BY <2>2, <3>1 DEF Disconnect
  <2>3. ASSUME FirstPacket(s) PROVE \E e \in Records : Same(e) /\ Callback(s, e)
    <3> DEFINE e == [session[s] EXCEPT !.videoPacketCounter = 1, !.ffmpegProcess = "starting"]
    <3>1. 1 \in 0..1
      OBVIOUS
    <3>2. e \in Records /\ Same(e)
      BY <1>0, <2>3, <3>1, Zenon DEF FirstPacket, Records
    <3> QED
      BY <2>3, <3>2 DEF FirstPacket
  <2>4. ASSUME Popen(s) PROVE \E e \in Records : Same(e) /\ Callback(s, e)
    <3> DEFINE e == [session[s] EXCEPT !.ffmpegProcess =
                                IF session[s].pc = "closed" THEN "orphan" ELSE "running"]
    <3>1. e \in Records /\ Same(e)
      BY <1>0, <2>4 DEF Popen, Records
    <3> QED
      BY <2>4, <3>1 DEF Popen
  <2>5. ASSUME PopenFails(s) PROVE \E e \in Records : Same(e) /\ Callback(s, e)
    <3> DEFINE e == [session[s] EXCEPT !.ffmpegProcess = "gone"]
    <3>1. e \in Records /\ Same(e)
      BY <1>0, <2>5 DEF PopenFails, Records
    <3> QED
      BY <2>5, <3>1 DEF PopenFails
  <2>6. ASSUME Closed(s) PROVE \E e \in Records : Same(e) /\ Callback(s, e)
    <3> DEFINE e == [session[s] EXCEPT !.pc = "closed", !.ffmpegProcess = Quit(@)]
    <3>1. e \in Records /\ Same(e)
      BY <1>0, <2>6 DEF Closed, Records, Quit
    <3> QED
      BY <2>6, <3>1 DEF Closed
  <2>7. ASSUME UploaderEnds(s) PROVE \E e \in Records : Same(e) /\ Callback(s, e)
    <3> DEFINE e == [session[s] EXCEPT !.uploader = "over"]
    <3>1. e \in Records /\ Same(e)
      BY <1>0, <2>7 DEF UploaderEnds, Records
    <3> QED
      BY <2>7, <3>1 DEF UploaderEnds
  <2> QED
    BY <2>1, <2>2, <2>3, <2>4, <2>5, <2>6, <2>7 DEF FfmpegStarts
<1>1. TypeOK'
  BY <1>0, TypesKept DEF Callback, Rest
<1>2. ListingExact'
  BY ListingKept DEF Callback, Rest
<1>3. NoneYet'
  BY <1>0, NoneKept DEF Callback
<1> QED
  BY <1>1, <1>2, <1>3 DEF Inv

\* Every step keeps types and list.
LEMMA NextInv == Inv /\ [Next]_vars => Inv'
<1> SUFFICES ASSUME Inv, [Next]_vars PROVE Inv'
  OBVIOUS
<1>1. ASSUME NEW s \in Sessions, NEW n \in Nodes, Create(s, n) PROVE Inv'
  <2>1. TypeOK'
    BY <1>1 DEF Inv, Create, TypeOK, Phases
  <2>2. ListingExact'
    BY <1>1 DEF Inv, Create, TypeOK, ListingExact
  <2>3. NoneYet'
    BY <1>1 DEF Inv, Create, TypeOK, NoneYet
  <2> QED
    BY <2>1, <2>2, <2>3 DEF Inv
<1>2. CASE UNCHANGED vars
  BY <1>2 DEF Inv, TypeOK, ListingExact, NoneYet, vars
<1> QED
  BY <1>1, <1>2, NodeInv, HandlerInv, CallbackInv DEF Next, Over

\* The types of StreamSession's state, for any number of sessions and nodes.
THEOREM TypeOKHolds == Spec => []TypeOK
<1>1. Inv => TypeOK
  BY DEF Inv
<1> QED
  BY <1>1, InitInv, NextInv, PTL DEF Spec

\* The list of live streams is exact: SetEnded of one session never ends
\* another's row, a row that outlives its process is listed only until its node
\* is up again, and an open session is listed unless a node started meanwhile.
THEOREM ListingExactHolds == Spec => []ListingExact
<1>1. Inv => ListingExact
  BY DEF Inv
<1> QED
  BY <1>1, InitInv, NextInv, PTL DEF Spec

-----------------------------------------------------------------------------
(* What is released stays released: the safety half of CloseReleases          *)

\* Peer connection closed, uploader thread ended, no FFmpeg that anyone still
\* has to stop.
Released(s) == \/ session[s].phase \in {"dead", "destroyed"}
               \/ /\ session[s].pc = "closed" /\ session[s].uploader = "over"
                  /\ session[s].ffmpegProcess \in {"none", "orphan", "gone"}

\* No callback, late packet or second Close frame revives a released session:
\* neither its uploader nor an FFmpeg process of it ever runs again.
THEOREM ReleasedForGood ==
  Spec => \A s \in Sessions : [][Released(s) => Released(s)']_vars
<1>1. ASSUME Inv, [Next]_vars, NEW s \in Sessions, Released(s) PROVE Released(s)'
  <2> USE DEF Released
  <2>0. session[s] \in Records /\ session \in [Sessions -> Records]
    BY <1>1 DEF Inv, TypeOK, Records
  <2>1. ASSUME session'[s] = session[s] PROVE Released(s)'
    BY <1>1, <2>1
  <2>2. ASSUME NEW t \in Sessions \ {s}, NEW e, session' = [session EXCEPT ![t] = e]
        PROVE  Released(s)'
    BY <2>0, <2>1, <2>2
  <2>3. ASSUME NEW n \in Nodes, Crash(n) PROVE Released(s)'
    <3>1. [Fresh EXCEPT !.phase = "dead"].phase = "dead"
      BY FreshRecords DEF Phases
    <3> QED
      BY <1>1, <2>1, <2>3, <3>1 DEF Crash
  <2>4. ASSUME NEW n \in Nodes, Create(s, n) PROVE Released(s)'
    BY <1>1, <2>0, <2>4 DEF Create, Records
  <2>5. ASSUME Handler(s) \/ Unnoticed(s) \/ OnClose(s) \/ CloseCallback(s) PROVE Released(s)'
    <3> USE DEF Phase, Callback, Records
    <3>1. ~createPeerConnection(s)
      BY <1>1, <2>0 DEF Inv, NoneYet, createPeerConnection
    <3>2. CASE SetupThrows(s)
      BY <1>1, <2>0, <3>2 DEF SetupThrows
    <3>3. CASE Unnoticed(s)
      BY <1>1, <2>0, <3>3 DEF Unnoticed
    <3>4. CASE OnClose(s)
      BY <1>1, <2>0, <3>4 DEF OnClose
    <3>5. CASE SetEnded(s) \/ SetEndedThrows(s)
      BY <1>1, <2>0, <3>5 DEF SetEnded, SetEndedThrows
    <3>6. CASE PcClose(s)
      BY <1>1, <2>0, <3>6 DEF PcClose
    <3> QED
      BY <2>5, <3>1, <3>2, <3>3, <3>4, <3>5, <3>6 DEF Handler, CloseCallback
  <2>6. ASSUME \/ Connect(s) \/ Disconnect(s) \/ FirstPacket(s) \/ FfmpegStarts(s)
               \/ Closed(s) \/ UploaderEnds(s)
        PROVE  Released(s)'
    <3> USE DEF Callback, Records
    <3>1. CASE Connect(s)
      BY <1>1, <2>0, <3>1 DEF Connect
    <3>2. CASE Disconnect(s)
      BY <1>1, <2>0, <3>2 DEF Disconnect
    <3>3. CASE FirstPacket(s)
      BY <1>1, <2>0, <3>3 DEF FirstPacket
    <3>4. CASE FfmpegStarts(s)
      BY <1>1, <2>0, <3>4 DEF FfmpegStarts, Popen, PopenFails
    <3>5. CASE Closed(s)
      BY <1>1, <2>0, <3>5 DEF Closed
    <3>6. CASE UploaderEnds(s)
      BY <1>1, <2>0, <3>6 DEF UploaderEnds
    <3> QED
      BY <2>6, <3>1, <3>2, <3>3, <3>4, <3>5, <3>6
  <2>7. ASSUME Destroy(s) PROVE Released(s)'
    <3>1. [Fresh EXCEPT !.phase = "destroyed"].phase = "destroyed"
      BY FreshRecords DEF Phases
    <3> QED
      BY <2>0, <2>7, <3>1 DEF Destroy, Phase
  <2>8. ASSUME NEW t \in Sessions, t # s, NEW n \in Nodes, Create(t, n) PROVE Released(s)'
    BY <2>1, <2>8, <2>0 DEF Create
  <2>9. ASSUME NEW t \in Sessions, t # s,
               \/ Handler(t) \/ Unnoticed(t) \/ OnClose(t) \/ CloseCallback(t)
               \/ Connect(t) \/ Disconnect(t) \/ FirstPacket(t) \/ FfmpegStarts(t)
               \/ Closed(t) \/ UploaderEnds(t) \/ Destroy(t)
        PROVE  Released(s)'
    BY <2>2, <2>9
       DEF Handler, createPeerConnection, SetupThrows, Unnoticed, OnClose, CloseCallback,
           SetEnded, SetEndedThrows, PcClose, Destroy, Phase, Connect, Disconnect, FirstPacket,
           FfmpegStarts, Popen, PopenFails, Closed, UploaderEnds, Callback
  <2>10. ASSUME UNCHANGED session PROVE Released(s)'
    BY <2>1, <2>10
  <2> QED
    BY <1>1, <2>3, <2>4, <2>5, <2>6, <2>7, <2>8, <2>9, <2>10
       DEF Next, Start, EndAll, EndAllThrows, Over, vars
<1> SUFFICES ASSUME NEW s \in Sessions PROVE Spec => [][Released(s) => Released(s)']_vars
  OBVIOUS
<1>2. Inv /\ [Next]_vars => [Released(s) => Released(s)']_vars
  BY <1>1
<1> QED
  BY <1>2, InitInv, NextInv, PTL DEF Spec

-----------------------------------------------------------------------------
(* SegmentPipeline                                                            *)

\* FFmpeg's files have the numbers it has given out.
Numbered == \A k \in Segments : local[k] # "none" => k <= begun

\* A PUT carries content, of a segment that is not marked yet: truncating the
\* file at StreamPocket takes nothing away that uploaded promises.
Carries == put # "none" => body # "none" /\ item \notin uploaded

\* Unless files were removed, a file that was opened is there until the PUT is
\* answered, and has what the PUT carries once it was written, if the write did
\* not fail.
FileThere == ~swept => /\ put \in {"opened", "stored"} => stored[item] # "none"
                       /\ put = "stored" => item \in spoiled \/ stored[item] = body

PipelineInv == PipelineTypeOK /\ Numbered /\ Carries /\ FileThere /\ UploadedIsStored

-----------------------------------------------------------------------------
\* Nothing is uploaded before the first segment.
LEMMA PipelineInitInv == PipelineInit => PipelineInv
<1> SUFFICES ASSUME PipelineInit PROVE PipelineInv
  OBVIOUS
<1> USE SegmentAssumption DEF PipelineInit, Segments, Nothing, Contents
<1>1. PipelineTypeOK
  <2>1. 0 \in 0..MaxSegments /\ 0 \in 0..0 /\ 0 \in 0..MaxTroubles
    OBVIOUS
  <2> QED
    BY <2>1 DEF PipelineTypeOK
<1>2. Numbered /\ Carries /\ FileThere /\ UploadedIsStored
  BY DEF Numbered, Carries, FileThere, UploadedIsStored
<1> QED
  BY <1>1, <1>2 DEF PipelineInv

\* FFmpeg and the session's callbacks change files and numbers only.
LEMMA EncoderInv ==
  ASSUME PipelineInv, StartFfmpeg \/ FfmpegStep \/ ClearIsLive \/ OnStateChange
  PROVE  PipelineInv'
<1> USE SegmentAssumption DEF PipelineInv, PipelineTypeOK, Numbered, Segments
<1>0. ASSUME UNCHANGED <<putVars, pocketVars, marks, swept>>
      PROVE  (Carries /\ FileThere /\ UploadedIsStored)'
  BY <1>0 DEF putVars, pocketVars, marks, Carries, FileThere, UploadedIsStored
<1> USE DEF uploaderVars, putVars, pocketVars, cleanerVars, marks, Contents
<1>1. CASE StartFfmpeg
  BY <1>0, <1>1 DEF StartFfmpeg
<1>2. CASE BeginSegment
  BY <1>0, <1>2 DEF BeginSegment, Encodes
<1>3. CASE WriteSegment \/ EndSegment
  <2>1. PICK c \in Contents : local' = [local EXCEPT ![begun] = c]
    BY <1>3 DEF WriteSegment, EndSegment
  <2>2. /\ UNCHANGED <<ffmpeg, begun, playlist, isLive, troubles>>
        /\ UNCHANGED <<uploaderVars, putVars, pocketVars, cleanerVars>>
    BY <1>3 DEF WriteSegment, EndSegment, Encodes
  <2>3. Carries' /\ FileThere' /\ UploadedIsStored'
    BY <1>0, <2>2
  <2>4. local' \in [Segments -> Contents]
    BY <2>1
  <2>5. begun \in Segments
    BY <1>3 DEF WriteSegment, EndSegment, Writing
  <2>6. Numbered'
    BY <2>1, <2>2, <2>5
  <2> QED
    BY <2>2, <2>3, <2>4, <2>6
<1>4. CASE WritePlaylist
  <2>1. Complete \in 0..begun
    BY DEF Complete, Writing
  <2> QED
    BY <1>0, <1>4, <2>1 DEF WritePlaylist, Encodes
<1>5. CASE FfmpegExits
  BY <1>0, <1>5 DEF FfmpegExits, Encodes
<1>6. CASE ClearIsLive
  <2>1. /\ isLive' \in BOOLEAN
        /\ UNCHANGED <<ffmpegVars, uploaderVars, putVars, pocketVars, cleanerVars, troubles>>
    BY <1>6 DEF ClearIsLive
  <2> QED
    BY <1>0, <2>1 DEF ffmpegVars
<1>7. CASE OnStateChange
  BY <1>0, <1>7 DEF OnStateChange
<1> QED
  BY <1>1, <1>2, <1>3, <1>4, <1>5, <1>6, <1>7 DEF FfmpegStep

\* The uploader's passes: it starts PUTs of files that are there and not marked.
LEMMA UploaderInv ==
  ASSUME PipelineInv, UploaderStep
  PROVE  PipelineInv'
<1> USE SegmentAssumption DEF PipelineInv, PipelineTypeOK, Numbered, Carries, FileThere, UploadedIsStored,
                              Segments, Contents, At, ffmpegVars, pocketVars, cleanerVars, marks
<1>1. CASE LoopHead
  BY <1>1 DEF LoopHead, putVars
<1>2. CASE ScanBegin
  BY <1>2 DEF ScanBegin, putVars
<1>3. CASE ScanEnd
  BY <1>3 DEF ScanEnd, putVars
<1>4. ASSUME NEW k \in Segments, UploadSegment(k) PROVE PipelineInv'
  BY <1>4 DEF UploadSegment
<1>5. CASE UploadPlaylist
  BY <1>5 DEF UploadPlaylist
<1>6. CASE NoPlaylist
  BY <1>6 DEF NoPlaylist, EndPass, putVars
<1> QED
  BY <1>1, <1>2, <1>3, <1>4, <1>5, <1>6 DEF UploaderStep

\* upload returns: a segment is marked only after a 200, when its file has been
\* written.
LEMMA ReturnInv ==
  ASSUME PipelineInv, Answered \/ Failed
  PROVE  PipelineInv'
<1> USE SegmentAssumption DEF PipelineInv, PipelineTypeOK, Numbered, Carries, FileThere, UploadedIsStored,
                              Segments, Contents, Return, EndPass, At, ffmpegVars, pocketVars,
                              cleanerVars, marks
<1>1. CASE Answered
  <2>1. Numbered' /\ Carries' /\ FileThere' /\ item \notin uploaded
    BY <1>1 DEF Answered
  <2>2. \/ /\ put = "stored" /\ item \in 1..begun /\ item \in Segments
           /\ uploaded' = uploaded \cup {item} /\ readAs' = [readAs EXCEPT ![item] = body]
        \/ uploaded' = uploaded /\ readAs' = readAs
    BY <1>1 DEF Answered, Mark
  <2>3. PipelineTypeOK'
    <3>1. uploaded' \subseteq 1..begun /\ readAs' \in [Segments -> Contents]
      BY <2>2
    <3>2. /\ uploader' \in {"scan", "done", "head"} /\ put' = "none" /\ item' = 0 /\ body' = "none"
          /\ listed' = 0 /\ UNCHANGED <<last, upto, tried, ffmpegVars, isLive, pocketVars, cleanerVars>>
          /\ UNCHANGED troubles
      BY <1>1 DEF Answered
    <3> QED
      BY <3>1, <3>2
  <2>4. UploadedIsStored'
    <3>1. UNCHANGED <<stored, spoiled, swept>>
      BY <1>1 DEF Answered
    <3> SUFFICES ASSUME ~swept, NEW k \in uploaded'
                 PROVE  stored[k] # "none" /\ (k \in spoiled \/ stored[k] = readAs'[k])
      BY <3>1
    <3>2. CASE k \in uploaded
      <4>1. k # item /\ k \in Segments
        BY <2>1, <3>2
      <4>2. readAs'[k] = readAs[k]
        BY <2>2, <4>1
      <4> QED
        BY <3>2, <4>2
    <3>3. CASE k \notin uploaded
      <4>1. k = item /\ put = "stored" /\ readAs'[k] = body
        BY <2>2, <3>3
      <4> QED
        BY <4>1
    <3> QED
      BY <3>2, <3>3
  <2> QED
    BY <2>1, <2>3, <2>4
<1>2. CASE Failed
  BY <1>2 DEF Failed, Trouble
<1> QED
  BY <1>1, <1>2

\* StreamPocket's handler and its cleaner, at whatever point of a PUT.
LEMMA PocketInv ==
  ASSUME PipelineInv, PocketStep \/ FindExpired \/ RemoveFiles \/ RemoveDirectory
  PROVE  PipelineInv'
<1> USE SegmentAssumption DEF PipelineInv, PipelineTypeOK, Numbered, Carries, FileThere, UploadedIsStored,
                              Segments, Contents, ffmpegVars, uploaderVars, cleanerVars, putVars
<1>1. CASE MakeDirectory
  BY <1>1 DEF MakeDirectory, Handles
<1>2. CASE OpenFile
  BY <1>2 DEF OpenFile, Handles
<1>3. CASE OpenFails
  BY <1>3 DEF OpenFails, Handles, pocketVars
<1>4. CASE WriteFile
  BY <1>4 DEF WriteFile, Handles
<1>5. CASE FindExpired
  BY <1>5 DEF FindExpired, Trouble, Cleans, pocketVars
<1>6. CASE RemoveFiles
  <2>1. /\ cleaner' = "directory" /\ stored' = Nothing /\ storedList' = 0
        /\ UNCHANGED <<dir, spoiled, ffmpegVars, isLive, uploaderVars, putVars, troubles>>
        /\ ~swept' => ~swept /\ stored = Nothing
        /\ swept' \in BOOLEAN
    BY <1>6 DEF RemoveFiles, Cleans
  <2>2. PipelineTypeOK' /\ Numbered' /\ Carries'
    BY <2>1 DEF Nothing
  <2>3. FileThere' /\ UploadedIsStored'
    BY <2>1
  <2> QED
    BY <2>2, <2>3
<1>7. CASE RemoveDirectory
  BY <1>7 DEF RemoveDirectory, Cleans
<1>8. CASE WriteFails
  BY <1>8 DEF WriteFails, Trouble, Handles
<1> QED
  BY <1>1, <1>2, <1>3, <1>4, <1>5, <1>6, <1>7, <1>8 DEF PocketStep

\* Every step keeps the invariant.
LEMMA PipelineNextInv == PipelineInv /\ [PipelineNext]_pipelineVars => PipelineInv'
<1> SUFFICES ASSUME PipelineInv, [PipelineNext]_pipelineVars PROVE PipelineInv'
  OBVIOUS
<1>1. CASE UNCHANGED pipelineVars
  BY <1>1 DEF pipelineVars, ffmpegVars, uploaderVars, putVars, pocketVars, cleanerVars, PipelineInv,
              PipelineTypeOK, Numbered, Carries, FileThere, UploadedIsStored
<1> QED
  BY <1>1, EncoderInv, UploaderInv, ReturnInv, PocketInv DEF PipelineNext, Ended

\* The types of the pipeline; the numbers of files, PUTs and playlists never
\* run ahead of FFmpeg.
THEOREM PipelineTypeOKHolds == PipelineSpec => []PipelineTypeOK
<1>1. PipelineInv => PipelineTypeOK
  BY DEF PipelineInv
<1> QED
  BY <1>1, PipelineInitInv, PipelineNextInv, PTL DEF PipelineSpec

\* No segment is marked as uploaded that StreamPocket does not have with the
\* content it was marked with, whatever PUTs fail, crash or are refused, unless a
\* write failed unnoticed or the cleaner has removed files.
THEOREM UploadedIsStoredHolds == PipelineSpec => []UploadedIsStored
<1>1. PipelineInv => UploadedIsStored
  BY DEF PipelineInv
<1> QED
  BY <1>1, PipelineInitInv, PipelineNextInv, PTL DEF PipelineSpec

\* What is marked stays marked, and StreamPocket's copy of it as it is: no later
\* PUT, retry or crash in the middle of one touches that file, only the cleaner.
UploadedUntouched == \A k \in uploaded : k \in uploaded' /\ (stored'[k] = stored[k] \/ swept')

\* UploadedUntouched for every step.
THEOREM UploadedUntouchedHolds == PipelineSpec => [][UploadedUntouched]_pipelineVars
<1>1. ASSUME PipelineInv, [PipelineNext]_pipelineVars PROVE [UploadedUntouched]_pipelineVars
  <2> USE DEF UploadedUntouched
  <2>0. ASSUME stored' = stored, uploaded' = uploaded \/ \E k : uploaded' = uploaded \cup {k}
        PROVE  UploadedUntouched
    BY <2>0
  <2>1. CASE StartFfmpeg \/ FfmpegStep \/ ClearIsLive \/ OnStateChange
    BY <2>0, <2>1 DEF StartFfmpeg, FfmpegStep, BeginSegment, WriteSegment, EndSegment, WritePlaylist,
                      FfmpegExits, Encodes, ClearIsLive, OnStateChange, uploaderVars, pocketVars
  <2>2. CASE UploaderStep
    BY <2>0, <2>2 DEF UploaderStep, LoopHead, ScanBegin, ScanEnd, UploadSegment, UploadPlaylist,
                      NoPlaylist, At, pocketVars, marks
  <2>3. CASE Answered \/ Failed
    BY <2>0, <2>3 DEF Answered, Failed, Mark, Return, At, pocketVars, marks
  <2>4. CASE PocketStep
    <3>1. item \notin uploaded /\ uploaded' = uploaded
      BY <1>1, <2>4 DEF PipelineInv, Carries, PocketStep, MakeDirectory, OpenFile, OpenFails, WriteFile,
                        WriteFails, Handles, uploaderVars
    <3>2. \A k \in uploaded : k \in 0..MaxSegments /\ k # item
      BY <1>1, <3>1, SegmentAssumption DEF PipelineInv, PipelineTypeOK
    <3> QED
      BY <1>1, <2>4, <3>1, <3>2 DEF PipelineInv, PipelineTypeOK, PocketStep, MakeDirectory, OpenFile,
                                    OpenFails, WriteFile, WriteFails, pocketVars
  <2>5. CASE FindExpired \/ RemoveFiles \/ RemoveDirectory
    BY <2>0, <2>5 DEF FindExpired, RemoveFiles, RemoveDirectory, Cleans, uploaderVars, pocketVars
  <2>6. CASE UNCHANGED pipelineVars
    BY <2>6
  <2> QED
    BY <1>1, <2>1, <2>2, <2>3, <2>4, <2>5, <2>6 DEF PipelineNext, Ended
<1> QED
  BY <1>1, PipelineInitInv, PipelineNextInv, PTL DEF PipelineSpec
=============================================================================
