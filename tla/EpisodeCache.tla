---------------------------- MODULE EpisodeCache ----------------------------
(* The cache of downloaded podcast episodes: the files, the metadata that     *)
(* tracks them, in memory and as last saved, and what a crash of the daemon   *)
(* or a power cut between two writes leaves behind.  The metadata is forced   *)
(* to the disk (fsync) before it takes the place of the old, an episode is    *)
(* not; of what a file system may do to it, names survive a power cut in the  *)
(* order they were given and contents do only once they were written back.    *)
(*                                                                            *)
(* All calls come from the podcast player and hold the plugs lock, so there   *)
(* is one job at a time; it can fail at every request and be cut off between  *)
(* any two writes.  The time of the last access is the place in a sequence.   *)
EXTENDS Integers, Sequences, SequencesExt, FiniteSetsExt, Functions

CONSTANTS
  Stored,       \* the guids of the episodes (one file name each)
  Size,         \* the size of each
  MaxSize,      \* max_cache_size_bytes
  MaxTotal      \* bound: no download once the total has drifted beyond this

ASSUME CacheAssumption ==
  /\ IsFiniteSet(Stored)
  /\ MaxSize \in Nat /\ Size \in [Stored -> 1..MaxSize]

VARIABLES
  files,      \* what the cache directory holds under each final name: "absent",
              \* "whole", "part" of it, "unsized" (its length was not declared), or
              \* "hollow": the name, without what a power cut took
  volatile,   \* the episodes of which the disk may not have the content yet
  metadata,   \* [order, total]: the tracked episodes, least recently used
              \* first, and total_size_bytes
  saved,      \* the metadata in .cache_metadata.json
  job,        \* [pc, ep, need, queue, sized]: the download under way
  excused     \* history: a size was not declared, a file could not be removed

cacheVars == <<files, volatile, metadata, saved, job, excused>>

NoJob == [pc |-> "none", ep |-> {}, need |-> 0, queue |-> <<>>, sized |-> FALSE]
Tracked == Range(metadata.order)

CacheInit ==
  /\ files = [e \in Stored |-> "absent"] /\ volatile = {}
  /\ metadata = [order |-> <<>>, total |-> 0] /\ saved = metadata
  /\ job = NoJob /\ excused = FALSE

\* is_cached: tracked, and the file is there.
IsCached(e) == e \in Tracked /\ files[e] # "absent"

\* A dictionary keeps one entry of each key, an access makes it the latest.
Touched(order, e) == Append(RemoveFirst(order, e), e)
Forget(m, e) == [order |-> RemoveFirst(m.order, e), total |-> m.total - Size[e]]

\* save_metadata: atomic, and a failure is only logged.
SaveMetadata == saved' \in {metadata', saved}

Without(f, gone) == [e \in Stored |-> IF e \in gone THEN "absent" ELSE f[e]]

\* A file that will not be removed is left where it is.
Unlink(e, ok) ==
  /\ LET gone == IF ok THEN {e} ELSE {}
     IN files' = Without(files, gone) /\ volatile' = volatile \ gone
  /\ excused' = (excused \/ (~ok /\ files[e] # "absent"))

----------------------------------------------------------------------------
(* get_local_path and download_episode.                                       *)

Want(e) ==
  /\ job = NoJob
  /\ IF IsCached(e)
     THEN metadata' = [metadata EXCEPT !.order = Touched(@, e)] /\ UNCHANGED job
     ELSE /\ metadata.total <= MaxTotal
          /\ job' = [NoJob EXCEPT !.pc = "ask", !.ep = e] /\ UNCHANGED metadata
  /\ UNCHANGED <<files, volatile, saved, excused>>

\* Too little free disk space, or the server cannot be had: nothing is changed.
NoDownload ==
  /\ job.pc = "ask"
  /\ job' = NoJob
  /\ UNCHANGED <<files, volatile, metadata, saved, excused>>

\* What must be freed for an episode of the declared size.
Needed(declared) ==
  IF declared > MaxSize - metadata.total /\ declared > 0
  THEN declared - (MaxSize - metadata.total) ELSE 0

\* The server's headers: content-length is the size, or missing.
Answered(declared) ==
  /\ job.pc = "ask" /\ declared \in {0, Size[job.ep]}
  /\ job' = IF Needed(declared) > 0 /\ metadata.order # <<>>
            THEN [job EXCEPT !.pc = "evict", !.need = Needed(declared), !.queue = metadata.order,
                             !.sized = TRUE]
            ELSE [job EXCEPT !.pc = "fetch", !.sized = declared > 0]
  /\ excused' = (excused \/ declared = 0)
  /\ UNCHANGED <<files, volatile, metadata, saved>>

\* _evict_oldest_episodes: one entry after the other until enough is freed; an
\* entry whose file will not go is kept and not counted as freed.
EvictOldest(ok) ==
  /\ job.pc = "evict" /\ job.need > 0 /\ job.queue # <<>>
  /\ LET e == Head(job.queue) freed == IF ok \/ files[e] = "absent" THEN Size[e] ELSE 0
     IN /\ Unlink(e, ok)
        /\ metadata' = IF freed > 0 THEN Forget(metadata, e) ELSE metadata
        /\ job' = [job EXCEPT !.queue = Tail(@), !.need = IF @ > freed THEN @ - freed ELSE 0]
  /\ UNCHANGED saved

EvictionSaved ==
  /\ job.pc = "evict" /\ (job.need = 0 \/ job.queue = <<>>)
  /\ UNCHANGED metadata /\ SaveMetadata
  /\ job' = [job EXCEPT !.pc = "fetch", !.need = 0, !.queue = <<>>]
  /\ UNCHANGED <<files, volatile, excused>>

\* Variant: they go to the final file.
WriteChunksInPlace ==
  /\ job.pc = "fetch"
  /\ files' = [files EXCEPT ![job.ep] = "part"]
  /\ job' = [job EXCEPT !.pc = "rename"]
  /\ UNCHANGED <<volatile, metadata, saved, excused>>

\* The chunks go to a file of another name.
WriteChunks ==
  /\ job.pc = "fetch"
  /\ job' = [job EXCEPT !.pc = "rename"]
  /\ UNCHANGED <<files, volatile, metadata, saved, excused>>

\* A time-out or a broken connection; the temporary file may stay until the next
\* start, no name of an episode.
DownloadFails ==
  /\ job.pc = "rename"
  /\ job' = NoJob
  /\ UNCHANGED <<files, volatile, metadata, saved, excused>>

\* Nobody counts the bytes: a body that ends early raises if its length was
\* declared, and is taken for the whole otherwise.
RenameTemp ==
  /\ job.pc = "rename"
  /\ files' = [files EXCEPT ![job.ep] = IF job.sized THEN "whole" ELSE "unsized"]
  /\ volatile' = volatile \cup {job.ep}
  /\ job' = [job EXCEPT !.pc = "record"]
  /\ UNCHANGED <<metadata, saved, excused>>

\* The size is added whether or not the episode was still tracked, without file.
RecordDownload ==
  /\ job.pc = "record"
  /\ metadata' = [order |-> Touched(metadata.order, job.ep),
                  total |-> metadata.total + Size[job.ep]]
  /\ SaveMetadata
  /\ job' = NoJob
  /\ UNCHANGED <<files, volatile, excused>>

----------------------------------------------------------------------------
(* The cache's RPC calls, and the end of the daemon.                          *)

\* evict_episode: the file first, then the entry, then the save.
EvictEpisode(e, ok) ==
  /\ job = NoJob /\ e \in Tracked
  /\ Unlink(e, ok)
  /\ IF ok \/ files[e] = "absent" THEN metadata' = Forget(metadata, e) /\ SaveMetadata
                                  ELSE UNCHANGED <<metadata, saved>>
  /\ UNCHANGED job

\* clear_episode_cache: all entries go, also those whose file stays.
ClearEpisodeCache(stuck) ==
  /\ job = NoJob /\ stuck \subseteq Tracked
  /\ files' = Without(files, Tracked \ stuck) /\ volatile' = volatile \ (Tracked \ stuck)
  /\ excused' = (excused \/ \E e \in stuck : files[e] # "absent")
  /\ metadata' = [order |-> <<>>, total |-> 0] /\ SaveMetadata
  /\ UNCHANGED job

\* The kernel writes back what the daemon wrote, in its own time.
WriteBack(e) ==
  /\ e \in volatile /\ volatile' = volatile \ {e}
  /\ UNCHANGED <<files, metadata, saved, job, excused>>

\* The start: the saved metadata is believed, and the files it does not name are
\* removed (_cleanup_orphaned_files), whatever is in those it names.
Orphans(m) == {e \in Stored : files[e] # "absent"} \ Range(m.order)
CacheRestart(m, stuck, lost) ==
  /\ files' = Without([e \in Stored |-> IF e \in lost /\ files[e] # "absent" THEN "hollow"
                                                                     ELSE files[e]],
                      Orphans(m) \ stuck)
  /\ excused' = (excused \/ stuck # {})
  /\ job' = NoJob
  /\ saved' = m /\ metadata' = m

\* At the exit the metadata is saved once more, with the accesses since; the
\* daemon may be killed, or the power go, between any two writes.
CacheExit ==
  /\ job = NoJob /\ \E stuck \in SUBSET Orphans(metadata) : CacheRestart(metadata, stuck, {})
  /\ volatile' = {e \in volatile : files'[e] # "absent"}
CacheCrash ==
  \/ /\ \E stuck \in SUBSET Orphans(saved) : CacheRestart(saved, stuck, {})
     /\ volatile' = {e \in volatile : files'[e] # "absent"}
  \/ \E stuck \in SUBSET Orphans(saved), lost \in SUBSET volatile :
       CacheRestart(saved, stuck, lost) /\ volatile' = {}

CacheNext ==
  \/ \E e \in Stored : Want(e) \/ WriteBack(e) \/ \E ok \in BOOLEAN : EvictEpisode(e, ok)
  \/ NoDownload \/ \E declared \in {0} \cup Range(Size) : Answered(declared)
  \/ \E ok \in BOOLEAN : EvictOldest(ok)
  \/ DownloadFails \/ EvictionSaved \/ WriteChunks \/ RenameTemp \/ RecordDownload
  \/ \E stuck \in SUBSET Tracked : ClearEpisodeCache(stuck)
  \/ CacheExit \/ CacheCrash

----------------------------------------------------------------------------
(* Properties.                                                                *)

Bytes(eps) == {b \in eps \X (1..MaxSize) : b[2] <= Size[b[1]]}
TotalOf(eps) == Cardinality(Bytes(eps))

\* The episodes on disk never exceed the configured size, through evictions,
\* failed saves, crashes and restarts, unless a server did not say how long its
\* episode is or a file could not be removed (download_episode,
\* _evict_oldest_episodes, _cleanup_orphaned_files).
CacheWithinLimit ==
  excused \/ TotalOf({e \in Stored : files[e] # "absent"}) <= MaxSize

\* An episode the cache hands to MPD is there from its first to its last byte, as
\* far as the server said how long it is: tracked with a file that exists means
\* tracked with the whole file, through evictions, broken downloads, failed saves
\* and a daemon killed between any two of them.  Only a power cut can leave less,
\* and only of an episode not written back since its download (is_cached,
\* download_episode, which renames the file without a sync).
CachedIsWhole == \A e \in Stored : IsCached(e) => files[e] \in {"whole", "unsized", "hollow"}
=============================================================================
