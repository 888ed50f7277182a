----------------------------- MODULE CoverCache ------------------------------
(* The cover art cache of MPD's player: RPC calls ask for a song's picture and *)
(* put what is not cached on a queue, one worker thread writes the files, and  *)
(* a flush may remove them at any moment.                                      *)
EXTENDS Naturals, Sequences, SequencesExt

CONSTANTS
  Tagged,       \* songs whose file has tags, with a picture or without
  Untagged,     \* songs whose file has no tags at all: reading them raises
  MaxQueue      \* bound: the requests waiting at a time

ASSUME CoverAssumption == Tagged \cap Untagged = {} /\ MaxQueue \in Nat

Songs == Tagged \cup Untagged

VARIABLES
  covers,    \* what the cache folder holds for each song
  waiting,   \* write_queue
  writer,    \* [pc, song]: the worker thread
  cutOff     \* history: a flush took the file the worker was writing

coverVars == <<covers, waiting, writer, cutOff>>

Resting == [pc |-> "get", song |-> {}]

CoverInit ==
  /\ covers = [s \in Songs |-> "none"]
  /\ waiting = <<>> /\ writer = Resting /\ cutOff = FALSE

\* get_cache_filename: a cached song is answered with its file, or with none for
\* a "no-art" file; any other is put on the queue, once for each request.
RequestCover(s) ==
  /\ covers[s] = "none" /\ Len(waiting) < MaxQueue
  /\ waiting' = Append(waiting, s)
  /\ UNCHANGED <<covers, writer, cutOff>>

\* process_write_requests.
TakeRequest ==
  /\ writer.pc = "get" /\ waiting # <<>>
  /\ writer' = [pc |-> "extract", song |-> Head(waiting)]
  /\ waiting' = Tail(waiting)
  /\ UNCHANGED <<covers, cutOff>>

\* Variant: the exception ends the thread.
ExtractRaisesUncaught ==
  /\ writer.pc = "extract" /\ writer.song \in Untagged
  /\ writer' = [writer EXCEPT !.pc = "dead"]
  /\ UNCHANGED <<covers, waiting, cutOff>>

\* _extract_album_art raises (the tags are None): logged, nothing is written.
ExtractRaises ==
  /\ writer.pc = "extract" /\ writer.song \in Untagged
  /\ writer' = Resting
  /\ UNCHANGED <<covers, waiting, cutOff>>

\* The picture is found in the tags, as a file of the folder, or not at all; the
\* file of the cache is opened, empty at first.
OpenCover ==
  /\ writer.pc = "extract" /\ writer.song \in Tagged
  /\ covers' = [covers EXCEPT ![writer.song] = "part"]
  /\ writer' = [writer EXCEPT !.pc = "write"]
  /\ UNCHANGED <<waiting, cutOff>>

\* What is written to a file that was removed meanwhile is gone.
WriteCover ==
  /\ writer.pc = "write"
  /\ covers' = [covers EXCEPT ![writer.song] = IF @ = "part" THEN "whole" ELSE @]
  /\ writer' = Resting
  /\ UNCHANGED <<waiting, cutOff>>

\* flush_cache, an RPC call.
FlushCovers ==
  /\ \E s \in Songs : covers[s] # "none"
  /\ covers' = [s \in Songs |-> "none"]
  /\ cutOff' = (cutOff \/ writer.pc = "write")
  /\ UNCHANGED <<waiting, writer>>

CoverNext ==
  \/ \E s \in Songs : RequestCover(s)
  \/ TakeRequest \/ ExtractRaises \/ OpenCover \/ WriteCover \/ FlushCovers

WriterNext == TakeRequest \/ ExtractRaises \/ OpenCover \/ WriteCover

----------------------------------------------------------------------------
(* Property.                                                                  *)

\* A request that was answered with CACHE_PENDING is worked off: the song's file
\* is written whole, however many songs before it cannot be read, unless a flush
\* took the file under the worker's hands (process_write_requests, flush_cache).
QueuedCoverIsWritten ==
  \A s \in Tagged : s \in ToSet(waiting) ~> (covers[s] = "whole" \/ cutOff)
=============================================================================
