--------------------------- MODULE SegmentPipeline ---------------------------
(* The way of a stream's HLS files: FFmpeg writes segments and playlist into  *)
(* the session's directory, the uploader thread of the StreamerSession PUTs   *)
(* them to StreamPocket, whose event loop stores them while its cleanup       *)
(* thread removes directories that are empty or six hours old.                *)
(*                                                                            *)
(* One session, up to the end of its uploader.  PUTs fail, StreamPocket       *)
(* crashes in the middle of one and comes back with the files it had, and its *)
(* writes fail unnoticed.  A file is "empty" from its creation to the first   *)
(* bytes, "part" while it lacks some, "whole" when it is complete.            *)
EXTENDS Naturals

CONSTANTS MaxSegments,   \* segments FFmpeg makes in a run
          ListSize,      \* -hls_list_size
          MaxTroubles    \* PUTs and writes that fail, removals by the cleaner

ASSUME SegmentAssumption == /\ MaxSegments \in Nat \ {0}
                            /\ ListSize \in Nat \ {0}
                            /\ MaxTroubles \in Nat

VARIABLES ffmpeg,        \* the encoder's process
          begun,         \* the number of the last segment it has begun
          local,         \* the .ts files in recordings/<user>
          playlist,      \* the last segment the local playlist lists, 0 without one
          isLive,        \* of the session
          uploader,      \* where the uploader thread is
          last,          \* it is in its final pass
          upto, tried,   \* the directory_iterator: what it must and did return
          uploaded,      \* segments it does not upload again
          put,           \* how far the PUT under way is
          item,          \* what it carries, 0 for the playlist
          body, listed,  \* the content: of a segment, of a playlist
          dir,           \* the user's directory in StreamPocket exists
          stored,        \* its files; 0 is the playlist
          storedList,    \* the last segment that playlist lists
          cleaner,       \* the cleanup thread
          troubles,      \* PUTs and writes that have failed, removals it began
          swept,         \* the cleaner has removed a file (history)
          spoiled,       \* files whose last write failed unnoticed (history)
          readAs         \* what the PUT that marked a segment carried (history)

ffmpegVars == <<ffmpeg, begun, local, playlist>>
uploaderVars == <<uploader, last, upto, tried, uploaded, readAs>>
putVars == <<put, item, body, listed>>
pocketVars == <<dir, stored, storedList, spoiled>>
cleanerVars == <<cleaner, swept>>
pipelineVars == <<ffmpegVars, isLive, uploaderVars, putVars, pocketVars, cleanerVars, troubles>>

Segments == 1..MaxSegments
Contents == {"none", "empty", "part", "whole"}
Nothing == [i \in 0..MaxSegments |-> "none"]

\* createPeerConnection: uploader thread and directory are there, FFmpeg is not.
PipelineInit == /\ ffmpeg = "off" /\ begun = 0 /\ playlist = 0 /\ local = [k \in Segments |-> "none"]
                /\ isLive = TRUE
                /\ uploader = "head" /\ last = FALSE /\ upto = 0 /\ tried = {} /\ uploaded = {}
                /\ put = "none" /\ item = 0 /\ body = "none" /\ listed = 0
                /\ dir = FALSE /\ stored = Nothing /\ storedList = 0
                /\ cleaner = "idle" /\ swept = FALSE /\ troubles = 0
                /\ spoiled = {} /\ readAs = [k \in Segments |-> "none"]

\* One more failure or removal, within the bound.
Trouble == troubles < MaxTroubles /\ troubles' = troubles + 1

-----------------------------------------------------------------------------
(* FFmpeg, as its command line makes it behave                                *)

Encodes == /\ ffmpeg \in {"running", "quitting"}
           /\ UNCHANGED <<isLive, uploaderVars, putVars, pocketVars, cleanerVars, troubles>>

\* The first video packet starts it.
StartFfmpeg == /\ ffmpeg = "off"
               /\ ffmpeg' = "running"
               /\ UNCHANGED <<begun, local, playlist, isLive, uploaderVars, putVars, pocketVars, cleanerVars, troubles>>

\* The last segment is open: FFmpeg has it one at a time.
Writing == begun > 0 /\ local[begun] \in {"empty", "part"}

\* Segments are written in place: temp_file is not among the hls_flags.
BeginSegment == /\ Encodes
                /\ ffmpeg = "running" /\ begun < MaxSegments /\ ~Writing
                /\ begun' = begun + 1
                /\ local' = [local EXCEPT ![begun'] = "empty"]
                /\ UNCHANGED <<ffmpeg, playlist>>

\* The first packets of the segment reach the file.
WriteSegment == /\ Encodes
                /\ Writing /\ local[begun] = "empty"
                /\ local' = [local EXCEPT ![begun] = "part"]
                /\ UNCHANGED <<ffmpeg, begun, playlist>>

EndSegment == /\ Encodes
              /\ Writing /\ local[begun] = "part"
              /\ local' = [local EXCEPT ![begun] = "whole"]
              /\ UNCHANGED <<ffmpeg, begun, playlist>>

\* The last segment that is complete.
Complete == IF Writing THEN begun - 1 ELSE begun

\* The playlist is replaced in one step, delete_segments removes what left it.
WritePlaylist == /\ Encodes
                 /\ playlist # Complete
                 /\ playlist' = Complete
                 /\ local' = [k \in Segments |-> IF k + ListSize <= Complete THEN "none" ELSE local[k]]
                 /\ UNCHANGED <<ffmpeg, begun>>

\* After a q it closes its files and exits.
FfmpegExits == /\ Encodes
               /\ ffmpeg = "quitting" /\ playlist = begun
               /\ ffmpeg' = "gone"
               /\ UNCHANGED <<begun, local, playlist>>

FfmpegStep == \/ BeginSegment \/ WriteSegment \/ EndSegment \/ WritePlaylist \/ FfmpegExits

-----------------------------------------------------------------------------
(* The session's callbacks                                                    *)

\* The close callback clears the flag, before pc->close().
ClearIsLive == /\ isLive
               /\ isLive' = FALSE
               /\ UNCHANGED <<ffmpegVars, uploaderVars, putVars, pocketVars, cleanerVars, troubles>>

\* onStateChange: Disconnected, Failed or Closed; a q, then pclose waits.
OnStateChange == /\ ffmpeg = "running"
                 /\ ffmpeg' = "quitting"
                 /\ UNCHANGED <<begun, local, playlist, isLive, uploaderVars, putVars, pocketVars, cleanerVars, troubles>>

-----------------------------------------------------------------------------
(* The uploader thread                                                        *)

marks == <<uploaded, readAs>>

At(place) == uploader = place /\ UNCHANGED <<ffmpegVars, isLive, pocketVars, cleanerVars>>

\* The head of the loop: a pass follows, after a second, or the final one.
LoopHead == /\ At("head")
            /\ uploader' = "pass" /\ last' = ~isLive
            /\ UNCHANGED <<upto, tried, marks, putVars, troubles>>

\* directory_iterator: it returns what is there now, perhaps also what comes later.
ScanBegin == /\ At("pass")
             /\ uploader' = "scan" /\ upto' = begun
             /\ UNCHANGED <<last, tried, marks, putVars, troubles>>

\* upload opens a file that is there: what it sends is the content of now, also
\* when that is no byte at all.
UploadSegment(k) == /\ At("scan")
                    /\ local[k] # "none" /\ k \notin uploaded \cup tried
                    /\ uploader' = "upload" /\ tried' = tried \cup {k}
                    /\ put' = "sent" /\ item' = k /\ body' = local[k]
                    /\ UNCHANGED <<last, upto, marks, listed, troubles>>

\* Mutated form of ScanEnd: the newest file is left for later.
ScanEndSkipsNewest == /\ At("scan")
                      /\ \A k \in 1..upto : local[k] # "none" => k \in uploaded \cup tried \cup {begun}
                      /\ uploader' = "playlist" /\ upto' = 0 /\ tried' = {}
                      /\ UNCHANGED <<last, marks, putVars, troubles>>

ScanEnd == /\ At("scan")
           /\ \A k \in 1..upto : local[k] # "none" => k \in uploaded \cup tried
           /\ uploader' = "playlist" /\ upto' = 0 /\ tried' = {}
           /\ UNCHANGED <<last, marks, putVars, troubles>>

UploadPlaylist == /\ At("playlist")
                  /\ playlist > 0
                  /\ uploader' = "upload"
                  /\ put' = "sent" /\ item' = 0 /\ body' = "whole" /\ listed' = playlist
                  /\ UNCHANGED <<last, upto, tried, marks, troubles>>

EndPass == IF last THEN "done" ELSE "head"

\* Mutated form of NoPlaylist: the playlist is sent in the final pass only.
NoPlaylistUntilLast == /\ At("playlist")
                       /\ playlist = 0 \/ ~last
                       /\ uploader' = EndPass
                       /\ UNCHANGED <<last, upto, tried, marks, putVars, troubles>>

\* There is no playlist file yet.
NoPlaylist == /\ At("playlist")
              /\ playlist = 0
              /\ uploader' = EndPass
              /\ UNCHANGED <<last, upto, tried, marks, putVars, troubles>>

\* upload returns.
Return == /\ At("upload")
          /\ uploader' = IF item > 0 THEN "scan" ELSE EndPass
          /\ put' = "none" /\ item' = 0 /\ body' = "none" /\ listed' = 0
          /\ UNCHANGED <<last, upto, tried>>

\* uploaded.insert, which only the passes of the loop do and not the final one.
Mark(k) == IF last THEN UNCHANGED marks
                   ELSE /\ uploaded' = uploaded \cup {k}
                        /\ readAs' = [readAs EXCEPT ![k] = body]

\* Mutated form of Answered: the status code is not looked at.
AnsweredAnyhow == /\ put \in {"stored", "refused"}
                  /\ Return
                  /\ IF item > 0 THEN Mark(item) ELSE UNCHANGED marks
                  /\ UNCHANGED troubles

\* Mutated form of Answered: the playlist is marked like a segment.
AnsweredMarksAll == /\ put \in {"stored", "refused"}
                    /\ Return
                    /\ IF put = "stored" THEN Mark(item) ELSE UNCHANGED marks
                    /\ UNCHANGED troubles

\* An answer has come; only a 200 marks the segment.
Answered == /\ put \in {"stored", "refused"}
            /\ Return
            /\ IF put = "stored" /\ item > 0 THEN Mark(item) ELSE UNCHANGED marks
            /\ UNCHANGED troubles

\* curl reports an error: the request or its answer was lost, or StreamPocket
\* has crashed at whatever it was doing.
Failed == /\ put \in {"sent", "made", "opened", "stored"}
          /\ Trouble
          /\ Return
          /\ UNCHANGED marks

UploaderStep == \/ LoopHead \/ ScanBegin \/ ScanEnd
                \/ \E k \in Segments : UploadSegment(k)
                \/ UploadPlaylist \/ NoPlaylist

-----------------------------------------------------------------------------
(* StreamPocket's PUT handler                                                 *)

Handles(from, to) == /\ put = from
                     /\ put' = to
                     /\ UNCHANGED <<ffmpegVars, isLive, uploaderVars, item, body, listed, cleanerVars>>

\* create_directories.
MakeDirectory == /\ Handles("sent", "made")
                 /\ dir' = TRUE
                 /\ UNCHANGED <<stored, storedList, spoiled, troubles>>

\* The ofstream creates or truncates the file.
OpenFile == /\ dir
            /\ Handles("made", "opened")
            /\ stored' = [stored EXCEPT ![item] = "empty"]
            /\ UNCHANGED <<dir, storedList, spoiled, troubles>>

\* The directory is gone again: is_open() fails, a 500.
OpenFails == /\ ~dir
             /\ Handles("made", "refused")
             /\ UNCHANGED <<pocketVars, troubles>>

\* write and close; a file that was removed meanwhile stays removed.
WriteFile == /\ Handles("opened", "stored")
             /\ IF stored[item] = "none"
                  THEN UNCHANGED <<stored, storedList>>
                  ELSE /\ stored' = [stored EXCEPT ![item] = body]
                       /\ storedList' = IF item = 0 THEN listed ELSE storedList
             /\ spoiled' = spoiled \ {item}
             /\ UNCHANGED <<dir, troubles>>

\* write or close fails, on a full disk: a part of the body gets into the file or
\* nothing does, and the handler, which does not look, answers 200.
WriteFails == /\ Handles("opened", "stored")
              /\ body # "empty"
              /\ Trouble
              /\ \E left \in {"empty", "part"} :
                    stored' = [stored EXCEPT ![item] = IF @ = "none" THEN @ ELSE left]
              /\ spoiled' = spoiled \cup {item}
              /\ UNCHANGED <<dir, storedList>>

PocketStep == MakeDirectory \/ OpenFile \/ OpenFails \/ WriteFile \/ WriteFails

-----------------------------------------------------------------------------
(* StreamPocket's cleanup thread                                              *)

Cleans(from, to) == /\ cleaner = from
                    /\ cleaner' = to
                    /\ UNCHANGED <<ffmpegVars, isLive, uploaderVars, putVars>>

\* The directory is empty, or its newest file is too old: any pause of the
\* uploader may be one of six hours.
FindExpired == /\ dir
               /\ Trouble
               /\ Cleans("idle", "files")
               /\ UNCHANGED <<pocketVars, swept>>

\* remove_all: first the files,
RemoveFiles == /\ Cleans("files", "directory")
               /\ stored' = Nothing /\ storedList' = 0
               /\ swept' = (swept \/ stored # Nothing)
               /\ UNCHANGED <<dir, spoiled, troubles>>

\* then the directory, unless a file has come in (an exception, logged).
RemoveDirectory == /\ Cleans("directory", "idle")
                   /\ dir' = (stored # Nothing)
                   /\ UNCHANGED <<stored, storedList, spoiled, swept, troubles>>

-----------------------------------------------------------------------------
\* Uploader and FFmpeg have ended.
Ended == /\ uploader = "done" /\ ffmpeg = "gone" /\ cleaner = "idle"
         /\ UNCHANGED pipelineVars

PipelineNext == \/ StartFfmpeg \/ FfmpegStep \/ ClearIsLive \/ OnStateChange
                \/ UploaderStep \/ Answered \/ Failed
                \/ PocketStep
                \/ FindExpired \/ RemoveFiles \/ RemoveDirectory
                \/ Ended

PipelineSpec == PipelineInit /\ [][PipelineNext]_pipelineVars

\* The uploader and StreamPocket's loop go on.  FFmpeg, the session's callbacks
\* and the cleaner may do nothing for ever.
PipelineFairSpec == /\ PipelineSpec
                    /\ WF_pipelineVars(UploaderStep)
                    /\ WF_pipelineVars(PocketStep \/ Answered)

-----------------------------------------------------------------------------
PipelineTypeOK == /\ ffmpeg \in {"off", "running", "quitting", "gone"}
                  /\ begun \in 0..MaxSegments /\ playlist \in 0..begun /\ upto \in 0..begun
                  /\ local \in [Segments -> Contents]
                  /\ isLive \in BOOLEAN /\ last \in BOOLEAN
                  /\ uploader \in {"head", "pass", "scan", "upload", "playlist", "done"}
                  /\ tried \subseteq 1..begun /\ uploaded \subseteq 1..begun
                  /\ put \in {"none", "sent", "made", "opened", "stored", "refused"}
                  /\ (put = "none") = (uploader # "upload")
                  /\ item \in 0..begun /\ body \in Contents
                  /\ listed \in 0..begun /\ storedList \in 0..begun
                  /\ stored \in [0..MaxSegments -> Contents]
                  /\ spoiled \subseteq 0..begun /\ readAs \in [Segments -> Contents]
                  /\ dir \in BOOLEAN /\ swept \in BOOLEAN
                  /\ cleaner \in {"idle", "files", "directory"}
                  /\ troubles \in 0..MaxTroubles

\* A segment that the uploader will not send again is at StreamPocket, and with
\* the content of the PUT that was answered 200, not that of an earlier or a
\* cut-off one, whichever PUTs were refused, lost or ended by a crash: unless a
\* write failed unnoticed or the cleanup thread has removed files.
UploadedIsStored == swept \/ \A k \in uploaded : /\ stored[k] # "none"
                                                 /\ k \in spoiled \/ stored[k] = readAs[k]

\* FFmpeg has deleted the segment, the cleaner has been there, or the uploader
\* has had its final pass.
TooLate(k) == local[k] = "none" \/ swept \/ uploader = "done"

\* Every segment in the session's directory is taken by StreamPocket, also when
\* its first PUTs fail, in whatever state the uploader finds it; and one that is
\* complete before the uploader opens it arrives complete.
SegmentsArrive == \A k \in Segments :
  /\ local[k] # "none" ~> k \in uploaded \/ TooLate(k)
  /\ local[k] = "whole" /\ k \notin uploaded /\ item # k
       ~> stored[k] = "whole" \/ k \in spoiled \/ TooLate(k)

\* While the stream is live StreamPocket's playlist catches up with FFmpeg's,
\* after failures, crashes and a removal of the directory too.
PlaylistCatchesUp == \A k \in Segments :
  playlist = k ~> \/ stored[0] = "whole" /\ storedList >= k
                  \/ ~isLive

\* "Final pass — upload anything written during shutdown" (StreamerRoutes.cpp:191):
\* once the uploader has ended and FFmpeg too, and nothing failed, every segment
\* FFmpeg left behind is at StreamPocket as FFmpeg left it.
FinalPassComplete == uploader = "done" /\ ffmpeg = "gone" /\ troubles = 0
                       => \A k \in Segments : local[k] # "none" => stored[k] = local[k]
=============================================================================
