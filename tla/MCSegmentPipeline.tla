-------------------------- MODULE MCSegmentPipeline --------------------------
(* Two segments of which the playlist lists one, so that FFmpeg deletes one   *)
(* before the end; one failure or removal.                                    *)
EXTENDS SegmentPipeline
=============================================================================
