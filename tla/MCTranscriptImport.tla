--------------------------- MODULE MCTranscriptImport ---------------------------
(* A session's file and an empty subagent's, which may be replaced; one    *)
(* tailer and one backfill, whose chunks differ.                           *)
EXTENDS TranscriptImport, TLC

CONSTANTS tailer, scan, session, subagent

TwoOwners == tailer :> "tail" @@ scan :> "backfill"
LineBounds == session :> 1 @@ subagent :> 0
ChunkSizes == [tail |-> 1, backfill |-> 2]
=============================================================================
