---------------------------- MODULE TranscriptChunks ---------------------------
(* A long transcript read in pieces (get_call_transcript and                *)
(* get_supervisor_call_transcript of backend_client.py): each call of the   *)
(* tool returns one piece and where the next one starts; the gateway keeps  *)
(* nothing between them, and OKK may transcribe the call again meanwhile.   *)
EXTENDS Naturals, Sequences, SequencesExt, FiniteSetsExt, FiniteSets, Folds

CONSTANTS
    Transcripts,  \* what OKK may hold: sequences of segments, each its text
    Formats,      \* of {"segments", "text"}: what the reader asks for
    MaxSegments, MaxChars,  \* the limits of one piece
    MaxRevisions  \* bound: how often OKK replaces the transcript

ASSUME ChunksAssumption ==
    /\ Transcripts \subseteq Seq(Seq(Nat)) /\ Formats \subseteq {"segments", "text"}
    /\ MaxSegments \in Nat \ {0} /\ MaxChars \in Nat \ {0} /\ MaxRevisions \in Nat

VARIABLES
    format,      \* the format of every piece
    transcript,  \* at OKK now
    revisions,   \* how often it was replaced
    next,        \* the start of the next piece
    ended,       \* there is none: next_start_segment or next_start_char is null
    collected,   \* the pieces so far, put together
    prints       \* the source_sha256 of the pieces; segments carry none

chunkVars == <<format, transcript, revisions, next, ended, collected, prints>>

-------------------------------------------------------------------------------

Plain(t) == FlattenSeq(t)
Source(t) == IF format = "segments" THEN t ELSE Plain(t)

\* Slip: a segment longer than the limit does not fit.
SegmentChunkStrict(source, start) ==
    LET rest == SubSeq(source, start + 1, Len(source))
        chars(n) == FoldSet(LAMBDA i, sum : Len(rest[i]) + sum, 0, 1..n)
        fits == {n \in 0..Len(rest) : n <= MaxSegments /\ chars(n) <= MaxChars}
    IN SubSeq(rest, 1, Max(fits))

(* _segment_chunk(): as many segments as both limits allow, at least one.   *)
SegmentChunk(source, start) ==
    LET rest == SubSeq(source, start + 1, Len(source))
        chars(n) == FoldSet(LAMBDA i, sum : Len(rest[i]) + sum, 0, 1..n)
        fits == {n \in 0..Len(rest) : n <= MaxSegments /\ (n <= 1 \/ chars(n) <= MaxChars)}
    IN SubSeq(rest, 1, Max(fits))

(* A piece of the text: a slice of characters.                              *)
TextChunk(source, start) ==
    SubSeq(source, start + 1, IF start + MaxChars < Len(source) THEN start + MaxChars ELSE Len(source))

Chunk(source, start) ==
    IF format = "segments" THEN SegmentChunk(source, start) ELSE TextChunk(source, start)

ChunkInit ==
    /\ format \in Formats /\ transcript \in Transcripts /\ revisions = 0
    /\ next = 0 /\ ended = FALSE /\ collected = <<>> /\ prints = {}

\* Slip: the next piece starts after the limit, not after what fitted.
ReadChunkByLimit ==
    LET source == Source(transcript)
        end == next + (IF format = "segments" THEN MaxSegments ELSE MaxChars)
    IN /\ ~ended
       /\ next' = end
       /\ ended' = (end >= Len(source))
       /\ collected' = collected \o Chunk(source, next)
       /\ prints' = IF format = "text" THEN prints \cup {source} ELSE prints
       /\ UNCHANGED <<format, transcript, revisions>>

(* The reader asks for the piece at next_start_segment or next_start_char.  *)
ReadChunk ==
    LET source == Source(transcript)
        piece == Chunk(source, next)
        end == next + Len(piece)
    IN /\ ~ended
       /\ next' = end
       /\ ended' = (end >= Len(source))
       /\ collected' = collected \o piece
       /\ prints' = IF format = "text" THEN prints \cup {source} ELSE prints
       /\ UNCHANGED <<format, transcript, revisions>>

(* OKK transcribes the call again (its doing, not the gateway's).           *)
Retranscribe ==
    /\ revisions < MaxRevisions
    /\ transcript' \in Transcripts
    /\ revisions' = revisions + 1
    /\ UNCHANGED <<format, next, ended, collected, prints>>

ChunkNext == ReadChunk \/ Retranscribe

(* The reader goes on until it is told the end.                             *)
ChunkSpec == ChunkInit /\ [][ChunkNext]_chunkVars /\ WF_chunkVars(ReadChunk)

-------------------------------------------------------------------------------

(* The pieces of a transcript that stays put are the transcript, in order,  *)
(* with nothing missing or twice at the edges of the pieces; and a reader   *)
(* of the text who sees one source_sha256 on every piece has the whole of   *)
(* that text even when OKK replaced it and put it back meanwhile.           *)
ChunksRebuild ==
    ended =>
        /\ revisions = 0 => collected = Source(transcript)
        /\ format = "text" /\ Cardinality(prints) = 1 => prints = {collected}

(* Every piece but the last moves on, however long one segment is: the      *)
(* reading ends.                                                            *)
ChunksEnd == <>ended
===============================================================================
