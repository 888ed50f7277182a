-------------------------- MODULE PodcastPlayback --------------------------
(* The podcast player's record of what was heard: which episode a tap plays   *)
(* and from where, the thread that saves the position every few seconds, and  *)
(* the episodes that are skipped because they were completed.                 *)
(*                                                                            *)
(* The player drives MPD and learns how far it is from the buffer that MPD's  *)
(* status poll fills: a merge that overwrites what MPD reported and leaves    *)
(* what it did not.  The RPC calls hold the plugs lock from beginning to end  *)
(* and so follow one another; the position thread holds it only while it      *)
(* fetches the (live) buffer, and the player's own lock while it compares and *)
(* saves.                                                                     *)
(*                                                                            *)
(* One feed is modelled, with its episodes newest first; what else MPD may    *)
(* play is Other.  A position is a number of steps up to Length, and an       *)
(* episode counts as completed from Threshold on; MPD is taken to know how    *)
(* long an episode is.                                                        *)
EXTENDS Naturals, Sequences, SequencesExt

CONSTANTS
  Feed,         \* the guids of the feed's episodes, newest first
  Streamed,     \* the episodes that cannot be downloaded
  Other,        \* anything MPD plays for another player
  Nothing,      \* no song, no episode
  Length,       \* the length of an episode
  Threshold,    \* from here on an episode is completed
  MaxStarts     \* bound: how often something is started on MPD

Episodes == Range(Feed)

ASSUME PodcastAssumption ==
  /\ Feed # <<>> /\ IsInjective(Feed) /\ Streamed \subseteq Episodes
  /\ Length \in Nat /\ Threshold \in 1..Length
  /\ Other \notin Episodes /\ Nothing \notin Episodes /\ Other # Nothing

VARIABLES
  mpd,        \* [file, at, state]: the MPD server
  shown,      \* mpd_status: the merged buffer, every reader's view of MPD (of is
              \* history: the song its position was of)
  player,     \* [active, guid]: playback_active, current_episode_guid
  store,      \* the saved episodes: [at, done] of each
  last,       \* the saved last_played episode
  call,       \* the RPC call under way: [pc, ep, at, behind], with its reading of
              \* the buffer (history: whether that was behind MPD)
  saver,      \* the position thread: [pc, guid, at, misread]
  starts,     \* bound: what was started on MPD so far
  heard,      \* history: the episodes MPD has played up to the threshold since
              \* the feed was reset, and those saved from a misreading
  halting,   \* a stop that has stopped MPD and not yet taken the flag down: "no",
              \* "begun" (history: "overtaken" by an episode noted since)
  astray      \* history: since an episode was last noted the flag was taken down
              \* for a reading behind MPD, by a stop overtaken, or by a restart

flagVars == <<halting, astray>>
podcastVars == <<mpd, shown, player, store, last, call, saver, starts, heard, flagVars>>

Idle == [pc |-> "idle", ep |-> Nothing, at |-> 0, behind |-> FALSE]
Asleep == [pc |-> "asleep", guid |-> Nothing, at |-> 0, misread |-> FALSE]

Starting(file) == [file |-> file, at |-> 0, state |-> "play"]
Empty == [file |-> Nothing, at |-> 0, state |-> "stop"]
Shown(m, at, of) == [file |-> m.file, state |-> m.state, at |-> at, of |-> of]
Unpolled == Shown(Empty, 0, Nothing)

PodcastInit ==
  /\ mpd = Empty /\ shown = Unpolled
  /\ player = [active |-> FALSE, guid |-> Nothing]
  /\ store = [e \in Episodes |-> [at |-> 0, done |-> FALSE]] /\ last = Nothing
  /\ call = Idle /\ saver = Asleep
  /\ starts = 0 /\ heard = {}
  /\ halting = "no" /\ astray = FALSE

----------------------------------------------------------------------------
(* MPD and the poll of its status.                                            *)

Past(file, at) == IF file \in Episodes /\ at >= Threshold THEN {file} ELSE {}
Heard(file, at) == heard \cup Past(file, at)

\* The song goes on; at its end MPD stops, the song still in the queue.
Advance ==
  /\ mpd.state = "play"
  /\ mpd' = IF mpd.at < Length THEN [mpd EXCEPT !.at = @ + 1]
                               ELSE [mpd EXCEPT !.at = 0, !.state = "stop"]
  /\ heard' = Heard(mpd.file, mpd'.at)
  /\ UNCHANGED <<shown, player, store, last, call, saver, starts, flagVars>>

\* A stopped MPD reports no elapsed, an empty queue no file: the buffer keeps
\* those it had.
Poll ==
  /\ shown' = CASE mpd.file = Nothing -> [shown EXCEPT !.state = mpd.state]
                [] mpd.file # Nothing /\ mpd.state = "stop" -> Shown(mpd, shown.at, shown.of)
                [] OTHER -> Shown(mpd, mpd.at, mpd.file)
  /\ UNCHANGED <<mpd, player, store, last, call, saver, starts, heard, flagVars>>

\* Another player takes MPD over, and the stop of the hand-off clears the flag
\* then or much later, or never (StopPodcast).
OtherPlays ==
  /\ call = Idle
  /\ starts < MaxStarts /\ starts' = starts + 1
  /\ mpd' = Starting(Other)
  /\ UNCHANGED <<shown, player, store, last, call, saver, heard, flagVars>>

----------------------------------------------------------------------------
(* The saved state and the queue made of it.                                  *)

Incomplete(s) == SelectSeq(Feed, LAMBDA e : ~s[e].done)
AllCompleted == \A e \in Episodes : store[e].done

\* Variant: the positions are kept.
ResetKeepsPosition(s) == [e \in Episodes |-> [at |-> s[e].at, done |-> FALSE]]

\* reset_podcast_episodes
Reset(s) == [e \in Episodes |-> [at |-> 0, done |-> FALSE]]

\* get_playable_queue: when all are completed all are to be played again.
AfterQueue == IF AllCompleted THEN Reset(store) ELSE store
Playable == Incomplete(AfterQueue)

\* find_resume_episode and build_queue_plan: the last played one if it is in the
\* queue and the queue was not just reset, otherwise the newest.
Planned == IF last \in Range(Playable) /\ ~AllCompleted THEN last ELSE Playable[1]

\* get_next_episode, get_prev_episode: the current episode must be in the queue.
After == {Playable[i + 1] : i \in {j \in 1..Len(Playable) - 1 : Playable[j] = player.guid}}
Before == {Playable[i - 1] : i \in {j \in 2..Len(Playable) : Playable[j] = player.guid}}

QueueBuilt ==
  /\ store' = AfterQueue
  /\ heard' = IF AllCompleted
               THEN Past(mpd.file, mpd.at) \cup Past(shown.of, shown.at)
                      \cup Past(saver.guid, saver.at)
               ELSE heard

\* update_episode_position
Update(g, at, misread) ==
  /\ store' = [store EXCEPT ![g] = [at |-> at, done |-> @.done \/ at >= Threshold]]
  /\ heard' = IF misread THEN heard \cup {g} ELSE heard

\* A misreading: the buffer's position is of a song before, or MPD plays for
\* somebody else, or a call has started the next episode and not noted it yet.
Misread == shown.of # mpd.file \/ mpd.file \notin Episodes \/ call.pc = "note"

----------------------------------------------------------------------------
(* The RPC calls.                                                             *)

Resolve(e, at) == call' = [Idle EXCEPT !.pc = "resolve", !.ep = e, !.at = at]
Toggled == [mpd EXCEPT !.state = CASE @ = "play" -> "pause" [] @ = "pause" -> "play" [] OTHER -> @]

\* decide_second_swipe: the flag and the episode or the feed first, then the
\* state in the buffer.
Retap(e) ==
  IF ~player.active \/ (e # Nothing /\ player.guid # e) THEN "fresh"
  ELSE IF shown.state = "stop" THEN "stale" ELSE "again"

\* The first steps of play_podcast_series (Nothing) and play_podcast_episode: a
\* second swipe toggles MPD (or does nothing, or is NextEpisode, as configured).
\* Taking the flag before the buffer is the same as taking both at once: what may
\* come between, the end of a stop, touches the flag alone.
Tap(e) ==
  /\ call = Idle
  /\ \/ Retap(e) = "again" /\ mpd' = Toggled /\ UNCHANGED call
     \/ /\ Retap(e) = "stale" /\ UNCHANGED mpd
        /\ call' = [Idle EXCEPT !.pc = "clear", !.ep = e,
                                !.behind = shown.state # mpd.state]
     \/ /\ Retap(e) = "fresh" /\ UNCHANGED mpd
        /\ call' = [Idle EXCEPT !.pc = "fetch", !.ep = e]
  /\ UNCHANGED <<shown, player, store, last, saver, starts, heard, flagVars>>
TapSeries == Tap(Nothing)
TapEpisode(e) == Tap(e)

\* The flag is taken down, rightly or not.
TakeFlagDown(wrongly) ==
  /\ player' = [player EXCEPT !.active = FALSE]
  /\ astray' = (astray \/ wrongly)

\* CLEAR_STALE_AND_RESTART, in a critical section after the buffer was read.
ClearStale ==
  /\ call.pc = "clear"
  /\ TakeFlagDown(call.behind)
  /\ call' = [call EXCEPT !.pc = "fetch", !.behind = FALSE]
  /\ UNCHANGED <<mpd, shown, store, last, saver, starts, heard, halting>>

\* The feed, which may not be had, and what of it is played: the planned episode,
\* or the one tapped, which is resumed even if it was completed.
FeedFails ==
  /\ call.pc = "fetch" /\ call' = Idle
  /\ UNCHANGED <<mpd, shown, player, store, last, saver, starts, heard, flagVars>>
FetchSeries ==
  /\ call.pc = "fetch" /\ call.ep = Nothing
  /\ QueueBuilt
  /\ Resolve(Planned, IF AllCompleted \/ Planned # last THEN 0 ELSE store[Planned].at)
  /\ UNCHANGED <<mpd, shown, player, last, saver, starts, flagVars>>
FetchEpisode ==
  /\ call.pc = "fetch" /\ call.ep # Nothing
  /\ Resolve(call.ep, store[call.ep].at)
  /\ UNCHANGED <<mpd, shown, player, store, last, saver, starts, heard, flagVars>>

\* next and prev
SkipTo(neighbours) ==
  /\ call = Idle /\ player.guid # Nothing
  /\ QueueBuilt
  /\ \/ \E e \in neighbours : Resolve(e, 0)
     \/ neighbours = {} /\ UNCHANGED call
  /\ UNCHANGED <<mpd, shown, player, last, saver, starts, flagVars>>
NextEpisode == SkipTo(After)
PrevEpisode == SkipTo(Before)

\* _resolve_playback_url: a waiting jingle pauses MPD for the download.
WaitingJingle ==
  /\ call.pc = "resolve" /\ mpd.state = "play"
  /\ mpd' = [mpd EXCEPT !.state = "pause"]
  /\ UNCHANGED <<shown, player, store, last, call, saver, starts, heard, flagVars>>

\* The cached or downloaded file, or the stream, by play_single_passive, which
\* clears the queue first: MPD may then refuse the song, and the call ends with
\* the player's own record as it was.
DriveMpd(accepted) ==
  /\ call.pc = "resolve"
  /\ starts < MaxStarts /\ starts' = starts + 1
  /\ mpd' = IF accepted THEN Starting(call.ep) ELSE Empty
  /\ call' = IF accepted THEN [call EXCEPT !.pc = "note"] ELSE Idle
  /\ UNCHANGED <<shown, player, store, last, saver, heard, flagVars>>

\* Under the lock: what is played is noted, and saved as last played.  A reading
\* the position thread took of the episode before passes its second look if this
\* call goes back to the episode it began with.
NotePlaying ==
  /\ call.pc = "note"
  /\ player' = [active |-> TRUE, guid |-> call.ep]
  /\ last' = call.ep
  /\ call' = IF call.at > 0 /\ call.ep \notin Streamed THEN [call EXCEPT !.pc = "seek"] ELSE Idle
  /\ saver' = [saver EXCEPT !.misread = @ \/ (saver.pc = "read" /\ player.guid # call.ep)]
  /\ halting' = (IF halting = "begun" THEN "overtaken" ELSE halting) /\ astray' = FALSE
  /\ UNCHANGED <<mpd, shown, store, starts, heard>>

\* A second later, to the resume position (a stream is played from its start).
SeekResume ==
  /\ call.pc = "seek"
  /\ call' = Idle
  /\ mpd' = IF mpd.state = "stop" THEN mpd ELSE [mpd EXCEPT !.at = call.at]
  /\ heard' = Heard(mpd.file, mpd'.at)
  /\ UNCHANGED <<shown, player, store, last, saver, starts, flagVars>>

\* pause and play: the podcast's, which are MPD's.
PausePlay ==
  /\ call = Idle /\ mpd.state # "stop"
  /\ mpd' = Toggled
  /\ UNCHANGED <<shown, player, store, last, call, saver, starts, heard, flagVars>>

\* stop, from a user or on a hand-off's worker: MPD's stop, which may raise
\* although MPD has stopped, and the flag in a second step, before which a worker
\* lets whole calls in.
StopMpd(raises) ==
  /\ call = Idle /\ (halting = "no" \/ raises)
  /\ mpd' = [mpd EXCEPT !.state = "stop", !.at = 0]
  /\ halting' = IF raises THEN halting ELSE "begun"
  /\ UNCHANGED <<shown, player, store, last, call, saver, starts, heard, astray>>
StopPodcast ==
  /\ halting # "no" /\ halting' = "no"
  /\ TakeFlagDown(halting = "overtaken")
  /\ UNCHANGED <<mpd, shown, store, last, call, saver, starts, heard>>

\* Variant: only a stream is known as an episode.
OurFileIfStreamed == shown.file \in Streamed

\* is_podcast_active, asked by MPD's next and prev: a file that is not one of the
\* episode cache means that another player took over.
OurFile == shown.file \in Episodes \ Streamed
IsPodcastActive ==
  /\ call = Idle /\ player.active /\ ~OurFile
  /\ call' = [Idle EXCEPT !.pc = "gone", !.behind = shown.file # mpd.file]
  /\ UNCHANGED <<mpd, shown, player, store, last, saver, starts, heard, flagVars>>
ClearGone ==
  /\ call.pc = "gone" /\ call' = Idle
  /\ TakeFlagDown(call.behind)
  /\ UNCHANGED <<mpd, shown, store, last, saver, starts, heard, halting>>

----------------------------------------------------------------------------
(* The position thread, and the end of the daemon.                            *)

SaverLooks ==
  /\ saver.pc = "asleep" /\ player.active /\ player.guid # Nothing
  /\ saver' = [Asleep EXCEPT !.pc = "asked", !.guid = player.guid]
  /\ UNCHANGED <<mpd, shown, player, store, last, call, starts, heard, flagVars>>

\* The call for the buffer waits for the plugs lock.
SaverAsks ==
  /\ saver.pc = "asked" /\ call = Idle
  /\ saver' = [saver EXCEPT !.pc = "told"]
  /\ UNCHANGED <<mpd, shown, player, store, last, call, starts, heard, flagVars>>

\* The buffer is the poll's own, and is read as it is by now.
SaverReads ==
  /\ saver.pc = "told"
  /\ saver' = IF shown.state = "play"
              THEN [saver EXCEPT !.pc = "read", !.at = shown.at, !.misread = Misread]
              ELSE Asleep
  /\ UNCHANGED <<mpd, shown, player, store, last, call, starts, heard, flagVars>>

\* Variant: nobody looks again.
SameEpisodeUnchecked == TRUE

\* The position counts if the episode has not changed.
SameEpisode == saver.guid = player.guid
SaverSaves ==
  /\ saver.pc = "read"
  /\ IF SameEpisode THEN Update(saver.guid, saver.at, saver.misread)
                    ELSE UNCHANGED <<store, heard>>
  /\ saver' = Asleep
  /\ UNCHANGED <<mpd, shown, player, last, call, starts, flagVars>>

Reborn ==
  /\ player' = [active |-> FALSE, guid |-> Nothing]
  /\ shown' = Unpolled /\ call' = Idle /\ saver' = Asleep
  /\ halting' = "no" /\ astray' = TRUE
  /\ UNCHANGED <<mpd, last, starts>>

\* exit saves the position once more, whatever state the buffer shows; the next
\* start of the daemon finds what was saved.
ExitAndRestart ==
  /\ call = Idle
  /\ IF player.active /\ player.guid # Nothing THEN Update(player.guid, shown.at, Misread)
     ELSE UNCHANGED <<store, heard>>
  /\ Reborn

CrashAndRestart == Reborn /\ UNCHANGED <<store, heard>>

Calls ==
  \/ TapSeries \/ \E e \in Episodes : TapEpisode(e)
  \/ ClearStale \/ FeedFails \/ FetchSeries \/ FetchEpisode
  \/ NextEpisode \/ PrevEpisode
  \/ WaitingJingle \/ \E accepted \in BOOLEAN : DriveMpd(accepted)
  \/ NotePlaying \/ SeekResume \/ PausePlay
  \/ \E raises \in BOOLEAN : StopMpd(raises)
  \/ StopPodcast \/ IsPodcastActive \/ ClearGone

PodcastNext ==
  \/ Advance \/ Poll \/ OtherPlays \/ Calls
  \/ SaverLooks \/ SaverAsks \/ SaverReads \/ SaverSaves
  \/ ExitAndRestart \/ CrashAndRestart
----------------------------------------------------------------------------
(* Properties.                                                                *)

\* An episode is skipped as completed only if MPD has played it that far, since
\* the feed was last heard through: the position thread never gives one episode
\* the progress of another, the windows of Misread apart
\* (_position_tracking_loop's second look at the episode, after a call that may
\* have waited for a whole download).
CompletedWasHeard ==
  \A e \in Episodes : store[e].done => e \in heard

\* An episode the queue still holds is never resumed at its end: a position past
\* the threshold comes with the mark, and the reset of a feed that was heard
\* through takes both back (update_episode_position, reset_podcast_episodes).
IncompleteIsResumable ==
  \A e \in Episodes : store[e].at >= Threshold => store[e].done

\* While MPD plays an episode from the cache, or holds one paused, the flag that
\* routes next and prev to the podcast is up, from the moment it is noted: it is
\* taken down in a step of its own after a reading of the buffer or a stop of MPD,
\* and that step comes too late only after a reading that was behind MPD, or a stop
\* that another tap has overtaken (is_podcast_active, play_podcast_series, stop).
FlagIsNotLost ==
  mpd.file \in Episodes \ Streamed /\ mpd.state # "stop" /\ call.pc # "note"
    => player.active \/ astray
=============================================================================
