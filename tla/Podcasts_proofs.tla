--------------------------- MODULE Podcasts_proofs ---------------------------
(***************************************************************************)
(* Proofs about the podcasts: the record of what was heard, for any feed   *)
(* and any number of starts; the cache of episodes, for any episodes of    *)
(* any sizes; the lists fetched for an hour, for any lists of any length.  *)
(***************************************************************************)
EXTENDS PodcastPlayback, EpisodeCache, FetchedLists, FiniteSetTheorems,
        SequenceTheorems, TLAPS

(* The record of what was heard.                                              *)

PodcastSpec == PodcastInit /\ [][PodcastNext]_podcastVars

\* The records that are updated field by field have their fields.
PodcastRecords ==
  /\ DOMAIN mpd = {"file", "at", "state"}
  /\ DOMAIN shown = {"file", "state", "at", "of"}
  /\ DOMAIN player = {"active", "guid"}
  /\ DOMAIN call = {"pc", "ep", "at", "behind"}
  /\ DOMAIN saver = {"pc", "guid", "at", "misread"}
  /\ DOMAIN store = Episodes
  /\ call = Idle \/ call.pc # "idle"

\* Wherever a position past the threshold is found, in MPD or in the buffer, it was heard.
PositionsWereHeard ==
  /\ mpd.file \in Episodes /\ mpd.at >= Threshold => mpd.file \in heard
  /\ shown.of \in Episodes /\ shown.at >= Threshold => shown.of \in heard

\* A call that notes an episode has started it, and once it is noted it is the
\* player's own for as long as MPD plays any.
NotedIsPlayed ==
  /\ call.pc = "note" => mpd.file = call.ep
  /\ player.guid # Nothing /\ mpd.file \in Episodes /\ call.pc # "note"
       => mpd.file = player.guid

\* What the position thread has read is of the episode it began with, if that is
\* the current one when it looks again.
ReadingIsOfItsEpisode ==
  /\ saver.pc # "asleep" => saver.guid # Nothing
  /\ saver.pc = "read" /\ ~saver.misread /\ saver.guid = player.guid
       /\ saver.guid \in Episodes /\ saver.at >= Threshold => saver.guid \in heard

PlaybackInv ==
  /\ PodcastRecords
  /\ PositionsWereHeard
  /\ NotedIsPlayed
  /\ ReadingIsOfItsEpisode
  /\ CompletedWasHeard

\* The properties of the saved positions depend on nothing but their updates.
LEMMA PositionsStayResumable ==
  ASSUME IncompleteIsResumable, DOMAIN store = Episodes,
         \/ store' = store
         \/ store' = Reset(store)
         \/ \E g, at, misread : Update(g, at, misread)
  PROVE  IncompleteIsResumable' /\ DOMAIN store' = Episodes
<1>0. Threshold \in Nat /\ ~(0 >= Threshold)
  BY PodcastAssumption
<1>1. CASE store' = store
  BY <1>1 DEF IncompleteIsResumable
<1>2. CASE store' = Reset(store)
  BY <1>0, <1>2 DEF Reset, IncompleteIsResumable
<1>3. CASE \E g, at, misread : Update(g, at, misread)
  <2>1. PICK g, at, misread : Update(g, at, misread)
    BY <1>3
  <2>2. store' = [store EXCEPT ![g] = [at |-> at, done |-> @.done \/ at >= Threshold]]
    BY <2>1 DEF Update
  <2> SUFFICES ASSUME NEW e \in Episodes, store'[e].at >= Threshold PROVE store'[e].done
    BY <2>2 DEF IncompleteIsResumable
  <2>3. CASE e = g
    <3> DEFINE past == at >= Threshold
               done == store[g].done \/ past
    <3>1. store' = [store EXCEPT ![g] = [at |-> at, done |-> done]]
      BY <2>2
    <3>2. past => done
      OBVIOUS
    <3> HIDE DEF done
    <3>3. store'[e].at = at /\ store'[e].done = done
      BY <2>3, <3>1
    <3> QED  BY <3>2, <3>3
  <2>4. CASE e # g
    BY <2>2, <2>4 DEF IncompleteIsResumable
  <2> QED  BY <2>3, <2>4
<1> QED  BY <1>1, <1>2, <1>3

\* What a step does to the saved positions.
LEMMA HowPositionsChange ==
  ASSUME [PodcastNext]_podcastVars
  PROVE  \/ store' = store
         \/ store' = Reset(store)
         \/ \E g, at, misread : Update(g, at, misread)
<1>1. CASE Advance \/ Poll \/ OtherPlays
  BY <1>1 DEF Advance, Poll, OtherPlays
<1>2. CASE Calls
  <2>1. ASSUME FetchSeries PROVE store' = store \/ store' = Reset(store)
    BY <2>1 DEF FetchSeries, QueueBuilt, AfterQueue
  <2>2. ASSUME NEW e, Tap(e) PROVE store' = store
    BY <2>2 DEF Tap
  <2>3. ASSUME NextEpisode \/ PrevEpisode PROVE store' = store \/ store' = Reset(store)
    BY <2>3 DEF NextEpisode, PrevEpisode, SkipTo, QueueBuilt, AfterQueue
  <2>4. ASSUME NEW accepted \in BOOLEAN, DriveMpd(accepted) PROVE store' = store
    BY <2>4 DEF DriveMpd
  <2>5. ASSUME \/ WaitingJingle \/ NotePlaying \/ SeekResume \/ PausePlay \/ StopPodcast
               \/ IsPodcastActive \/ ClearGone \/ ClearStale \/ FeedFails \/ FetchEpisode
        PROVE  store' = store
    BY <2>5 DEF WaitingJingle, NotePlaying, SeekResume, PausePlay, StopPodcast,
       IsPodcastActive, ClearGone, ClearStale, FeedFails, FetchEpisode
  <2>6. ASSUME NEW raises \in BOOLEAN, StopMpd(raises) PROVE store' = store
    BY <2>6 DEF StopMpd
  <2> QED  BY <1>2, <2>1, <2>2, <2>3, <2>4, <2>5, <2>6 DEF Calls, TapSeries, TapEpisode
<1>3. CASE SaverLooks \/ SaverAsks \/ SaverReads
  BY <1>3 DEF SaverLooks, SaverAsks, SaverReads
<1>4. CASE SaverSaves
  BY <1>4 DEF SaverSaves
<1>5. CASE ExitAndRestart
  BY <1>5 DEF ExitAndRestart
<1>6. CASE CrashAndRestart
  BY <1>6 DEF CrashAndRestart
<1>7. CASE UNCHANGED podcastVars
  BY <1>7 DEF podcastVars
<1> QED  BY <1>1, <1>2, <1>3, <1>4, <1>5, <1>6, <1>7 DEF PodcastNext

\* An episode the queue still holds is never resumed at its end, whatever the
\* position thread reads, however the feed is skipped through, reset or interrupted
\* (update_episode_position, reset_podcast_episodes).
THEOREM PositionsAreResumable == PodcastSpec => []IncompleteIsResumable
<1> DEFINE Inv == IncompleteIsResumable /\ DOMAIN store = Episodes
<1>1. PodcastInit => Inv
  <2>1. ~(0 >= Threshold)
    BY PodcastAssumption
  <2> QED  BY <2>1 DEF PodcastInit, IncompleteIsResumable
<1>2. Inv /\ [PodcastNext]_podcastVars => Inv'
  BY HowPositionsChange, PositionsStayResumable
<1> QED  BY <1>1, <1>2, PTL DEF PodcastSpec

\* What is read of the buffer, and the stop of MPD, hold until the flag is taken
\* down, unless the reading was behind or the stop was overtaken: the call that
\* reads keeps the plugs lock, and who overtakes a stop notes an episode.
ReadingsHold ==
  LET Held == mpd.file \in Episodes \ Streamed /\ mpd.state # "stop" IN
  /\ call.pc = "clear" /\ ~call.behind => mpd.state = "stop"
  /\ call.pc = "gone" /\ ~call.behind => ~Held
  /\ halting = "begun" /\ Held => call.pc = "note"

FlagInv ==
  /\ DOMAIN player = {"active", "guid"} /\ DOMAIN mpd = {"file", "at", "state"}
  /\ DOMAIN call = {"pc", "ep", "at", "behind"}
  /\ Other \notin Episodes /\ Nothing \notin Episodes
  /\ halting \in {"no", "begun", "overtaken"}
  /\ ReadingsHold
  /\ FlagIsNotLost

\* Steps of MPD, of the poll and of the position thread, and a restart.
LEMMA FlagOutsideCalls ==
  ASSUME FlagInv,
         \/ Advance \/ Poll \/ OtherPlays
         \/ SaverLooks \/ SaverAsks \/ SaverReads \/ SaverSaves
         \/ ExitAndRestart \/ CrashAndRestart
  PROVE  FlagInv'
<1> USE DEF FlagInv, ReadingsHold, FlagIsNotLost, flagVars
<1>1. CASE Advance
  BY <1>1 DEF Advance
<1>2. CASE Poll
  BY <1>2 DEF Poll
<1>3. CASE OtherPlays
  BY <1>3 DEF OtherPlays, Starting, Idle
<1>4. CASE SaverLooks \/ SaverAsks \/ SaverReads \/ SaverSaves
  BY <1>4 DEF SaverLooks, SaverAsks, SaverReads, SaverSaves
<1>5. CASE ExitAndRestart \/ CrashAndRestart
  BY <1>5 DEF ExitAndRestart, CrashAndRestart, Reborn, Idle
<1> QED  BY <1>1, <1>2, <1>3, <1>4, <1>5

\* Steps of the calls, and of a stop on a worker of its own.
LEMMA FlagInCalls ==
  ASSUME FlagInv, Calls PROVE FlagInv'
<1> USE DEF FlagInv, ReadingsHold, FlagIsNotLost, flagVars
<1>1. ASSUME NEW e, Tap(e) PROVE FlagInv'
  <2>1. CASE Retap(e) = "again" /\ mpd' = Toggled /\ UNCHANGED call
    BY <1>1, <2>1 DEF Tap, Toggled, Idle
  <2>2. CASE /\ Retap(e) = "stale" /\ UNCHANGED mpd
             /\ call' = [Idle EXCEPT !.pc = "clear", !.ep = e,
                                     !.behind = shown.state # mpd.state]
    <3>1. shown.state = "stop"
      BY <2>2 DEF Retap
    <3>2. DOMAIN call' = {"pc", "ep", "at", "behind"} /\ call'.pc = "clear"
          /\ (~call'.behind => mpd.state = "stop")
      BY <2>2, <3>1 DEF Idle
    <3> QED  BY <1>1, <2>2, <3>2 DEF Tap, Idle
  <2>3. CASE /\ Retap(e) = "fresh" /\ UNCHANGED mpd
             /\ call' = [Idle EXCEPT !.pc = "fetch", !.ep = e]
    BY <1>1, <2>3 DEF Tap, Idle
  <2> QED  BY <1>1, <2>1, <2>2, <2>3 DEF Tap
<1>2. CASE ClearStale
  BY <1>2 DEF ClearStale, TakeFlagDown
<1>3. CASE FeedFails \/ FetchSeries \/ FetchEpisode
  <2>1. /\ DOMAIN call' = {"pc", "ep", "at", "behind"} /\ call'.pc \in {"idle", "resolve"}
        /\ call.pc = "fetch" /\ UNCHANGED <<mpd, player, halting, astray>>
    <3>1. CASE FeedFails
      BY <3>1 DEF FeedFails, Idle
    <3>2. CASE FetchSeries
      BY <3>2 DEF FetchSeries, Resolve, Idle
    <3>3. CASE FetchEpisode
      BY <3>3 DEF FetchEpisode, Resolve, Idle
    <3> QED  BY <1>3, <3>1, <3>2, <3>3
  <2> QED  BY <2>1
<1>4. CASE NextEpisode \/ PrevEpisode
  <2>1. /\ \/ call' = call
           \/ \E e : Resolve(e, 0)
        /\ call = Idle /\ UNCHANGED <<mpd, player, halting, astray>>
    BY <1>4 DEF NextEpisode, PrevEpisode, SkipTo
  <2>2. ASSUME NEW e, Resolve(e, 0)
        PROVE  DOMAIN call' = {"pc", "ep", "at", "behind"} /\ call'.pc = "resolve"
    BY <2>2 DEF Resolve, Idle
  <2>3. DOMAIN call' = {"pc", "ep", "at", "behind"} /\ call'.pc \in {"idle", "resolve"}
        /\ call.pc = "idle"
    BY <2>1, <2>2 DEF Idle
  <2> QED  BY <2>1, <2>3
<1>5. CASE WaitingJingle
  BY <1>5 DEF WaitingJingle
<1>6. ASSUME NEW accepted \in BOOLEAN, DriveMpd(accepted) PROVE FlagInv'
  BY <1>6 DEF DriveMpd, Starting, Empty, Idle
<1>7. CASE NotePlaying
  BY <1>7 DEF NotePlaying, Idle
<1>8. CASE SeekResume \/ PausePlay
  BY <1>8 DEF SeekResume, PausePlay, Toggled, Idle
<1>9. ASSUME NEW raises \in BOOLEAN, StopMpd(raises) PROVE FlagInv'
  BY <1>9 DEF StopMpd, Idle
<1>10. CASE StopPodcast
  <2>1. halting = "overtaken" => astray'
    BY <1>10 DEF StopPodcast, TakeFlagDown
  <2>2. halting = "begun" => FlagIsNotLost'
    BY <1>10 DEF StopPodcast, TakeFlagDown
  <2>3. halting \in {"begun", "overtaken"} /\ halting' = "no"
    BY <1>10 DEF StopPodcast
  <2>4. FlagIsNotLost'
    BY <2>1, <2>2, <2>3
  <2> QED  BY <1>10, <2>3, <2>4 DEF StopPodcast, TakeFlagDown
<1>11. CASE IsPodcastActive
  BY <1>11 DEF IsPodcastActive, OurFile, Idle
<1>12. CASE ClearGone
  BY <1>12 DEF ClearGone, TakeFlagDown, Idle
<1> QED
  BY <1>1, <1>2, <1>3, <1>4, <1>5, <1>6, <1>7, <1>8, <1>9, <1>10, <1>11, <1>12
     DEF Calls, TapSeries, TapEpisode

\* While MPD holds an episode from the cache the flag that routes next and prev to
\* the podcast is up, however polls, other taps, stops on workers and the position
\* thread fall between a reading of the buffer and the flag, unless the reading was
\* behind or the stop overtaken (is_podcast_active, play_podcast_series, stop).
THEOREM FlagSurvives == PodcastSpec => []FlagIsNotLost
<1>1. PodcastInit => FlagInv
  BY PodcastAssumption DEF PodcastInit, FlagInv, ReadingsHold, FlagIsNotLost, Empty, Idle
<1>2. FlagInv /\ [PodcastNext]_podcastVars => FlagInv'
  <2>1. FlagInv /\ UNCHANGED podcastVars => FlagInv'
    BY DEF podcastVars, flagVars, FlagInv, ReadingsHold, FlagIsNotLost
  <2> QED  BY <2>1, FlagOutsideCalls, FlagInCalls DEF PodcastNext
<1>3. FlagInv => FlagIsNotLost
  BY DEF FlagInv
<1> QED  BY <1>1, <1>2, <1>3, PTL DEF PodcastSpec

\* A reset of the feed keeps on record what is still under way.
LEMMA QueueKeepsRecord ==
  ASSUME PlaybackInv, QueueBuilt,
         UNCHANGED <<mpd, shown, saver>>
  PROVE  /\ DOMAIN store' = Episodes /\ PositionsWereHeard' /\ CompletedWasHeard'
         /\ saver.pc = "read" /\ ~saver.misread /\ saver.guid = player.guid
              /\ saver.guid \in Episodes /\ saver.at >= Threshold => saver.guid \in heard'
<1>1. CASE AllCompleted
  <2>1. /\ store' = Reset(store)
        /\ heard' = Past(mpd.file, mpd.at) \cup Past(shown.of, shown.at)
                      \cup Past(saver.guid, saver.at)
    BY <1>1 DEF QueueBuilt, AfterQueue
  <2>2. DOMAIN store' = Episodes /\ CompletedWasHeard'
    BY <2>1 DEF Reset, CompletedWasHeard
  <2>3. PositionsWereHeard'
    BY <2>1 DEF PositionsWereHeard, Past
  <2> QED  BY <2>1, <2>2, <2>3 DEF Past
<1>2. CASE ~AllCompleted
  <2>1. store' = store /\ heard' = heard
    BY <1>2 DEF QueueBuilt, AfterQueue
  <2> QED
    BY <2>1 DEF PlaybackInv, PodcastRecords, PositionsWereHeard, CompletedWasHeard,
       ReadingIsOfItsEpisode
<1> QED  BY <1>1, <1>2

\* A position that was heard, or misread, may be saved.
LEMMA SavedWasHeard ==
  ASSUME PlaybackInv, NEW g, NEW at, NEW misread, Update(g, at, misread),
         ~misread /\ g \in Episodes /\ at >= Threshold => g \in heard
  PROVE  DOMAIN store' = Episodes /\ CompletedWasHeard' /\ heard \subseteq heard'
<1> DEFINE past == at >= Threshold
           done == store[g].done \/ past
<1>1. /\ store' = [store EXCEPT ![g] = [at |-> at, done |-> done]]
      /\ heard' = IF misread THEN heard \cup {g} ELSE heard
  BY DEF Update
<1>2. g \in Episodes /\ done => g \in heard'
  BY <1>1 DEF PlaybackInv, CompletedWasHeard
<1> HIDE DEF done
<1>3. DOMAIN store' = Episodes /\ heard \subseteq heard'
  BY <1>1 DEF PlaybackInv, PodcastRecords
<1>4. ASSUME NEW e \in Episodes, store'[e].done PROVE e \in heard'
  <2>1. CASE e = g
    <3>1. store'[e].done = done
      BY <1>1, <2>1 DEF PlaybackInv, PodcastRecords
    <3> QED  BY <1>2, <1>4, <2>1, <3>1
  <2>2. CASE e # g
    <3>1. store'[e] = store[e]
      BY <1>1, <2>2 DEF PlaybackInv, PodcastRecords
    <3> QED  BY <1>3, <1>4, <3>1 DEF PlaybackInv, CompletedWasHeard
  <2> QED  BY <2>1, <2>2
<1> QED  BY <1>3, <1>4 DEF CompletedWasHeard

\* An accurate reading is one of the player's own episode.
LEMMA AccurateReading ==
  ASSUME PlaybackInv, ~Misread, player.guid # Nothing
  PROVE  shown.of = player.guid /\ (shown.at >= Threshold => player.guid \in heard)
BY DEF PlaybackInv, Misread, NotedIsPlayed, PositionsWereHeard

\* MPD's own progress and the commands that keep the episode,
LEMMA SongSteps ==
  ASSUME PlaybackInv, Advance \/ Poll \/ OtherPlays \/ WaitingJingle \/ SeekResume
                        \/ PausePlay \/ StopPodcast \/ IsPodcastActive \/ ClearGone
                        \/ ClearStale \/ \E raises \in BOOLEAN : StopMpd(raises)
  PROVE  PlaybackInv'
<1>0. ~(0 >= Threshold) /\ Other \notin Episodes /\ Nothing \notin Episodes
  BY PodcastAssumption
<1> USE DEF PlaybackInv, PodcastRecords, PositionsWereHeard, NotedIsPlayed,
            ReadingIsOfItsEpisode, CompletedWasHeard
<1>1. CASE Advance
  BY <1>0, <1>1 DEF Advance, Heard, Past
<1>2. CASE Poll
  BY <1>0, <1>2 DEF Poll, Shown
<1>3. CASE OtherPlays
  BY <1>0, <1>3 DEF OtherPlays, Starting, Idle
<1>4. CASE WaitingJingle
  BY <1>4 DEF WaitingJingle
<1>5. CASE SeekResume
  BY <1>5 DEF SeekResume, Heard, Past, Idle
<1>6. CASE PausePlay
  BY <1>6 DEF PausePlay, Toggled
<1>7. CASE \E raises \in BOOLEAN : StopMpd(raises)
  BY <1>0, <1>7 DEF StopMpd
<1>8. CASE IsPodcastActive
  BY <1>8 DEF IsPodcastActive, Idle
<1>9. CASE StopPodcast
  BY <1>9 DEF StopPodcast, TakeFlagDown
<1>10. CASE ClearGone
  BY <1>10 DEF ClearGone, TakeFlagDown, Idle
<1>11. CASE ClearStale
  BY <1>11 DEF ClearStale, TakeFlagDown, Idle
<1> QED
  BY <1>1, <1>2, <1>3, <1>4, <1>5, <1>6, <1>7, <1>8, <1>9, <1>10, <1>11

\* the steps of a call that starts or resets an episode,
LEMMA CallSteps ==
  ASSUME PlaybackInv, Calls PROVE PlaybackInv'
<1>0. ~(0 >= Threshold) /\ Nothing \notin Episodes
  BY PodcastAssumption
<1>1. ASSUME QueueBuilt, UNCHANGED <<mpd, shown, saver, last, starts>>,
             DOMAIN player' = {"active", "guid"}, player'.guid = player.guid,
             call = Idle \/ call.pc = "fetch",
             call' = call \/ \E e, at : Resolve(e, at)
      PROVE  PlaybackInv'
  <2>1. DOMAIN call' = {"pc", "ep", "at", "behind"} /\ (call' = Idle \/ call'.pc # "idle")
        /\ call'.pc # "note" /\ call.pc # "note"
    <3>1. CASE call' = call
      BY <1>1, <3>1 DEF PlaybackInv, PodcastRecords, Idle
    <3>2. ASSUME NEW e, NEW at, Resolve(e, at)
          PROVE  DOMAIN call' = {"pc", "ep", "at", "behind"} /\ call'.pc = "resolve"
      BY <3>2 DEF Resolve, Idle
    <3> QED  BY <1>1, <3>1, <3>2 DEF Idle
  <2> QED
    BY <1>1, <2>1, QueueKeepsRecord DEF PlaybackInv, PodcastRecords, NotedIsPlayed,
       ReadingIsOfItsEpisode
<1> USE DEF PlaybackInv, PodcastRecords, PositionsWereHeard, NotedIsPlayed,
            ReadingIsOfItsEpisode, CompletedWasHeard
<1>2. ASSUME NEW e, Tap(e) PROVE PlaybackInv'
  <2>1. CASE mpd' = Toggled /\ UNCHANGED call
    BY <1>2, <2>1 DEF Tap, Toggled
  <2>2. CASE mpd' = mpd /\ DOMAIN call' = DOMAIN call /\ call'.pc \in {"clear", "fetch"}
    BY <1>2, <2>2 DEF Tap, Idle
  <2> QED  BY <1>2, <2>1, <2>2 DEF Tap, Idle
<1>3. CASE FeedFails \/ FetchEpisode
  <2>1. /\ DOMAIN call' = {"pc", "ep", "at", "behind"} /\ (call' = Idle \/ call'.pc = "resolve")
        /\ call.pc = "fetch" /\ UNCHANGED <<mpd, shown, player, store, saver, heard>>
    BY <1>3 DEF FeedFails, FetchEpisode, Resolve, Idle
  <2>2. call'.pc \in {"idle", "resolve"}
    BY <2>1 DEF Idle
  <2> QED  BY <2>1, <2>2
<1>8. CASE FetchSeries
  BY <1>1, <1>8 DEF FetchSeries
<1>4. CASE NextEpisode \/ PrevEpisode
  BY <1>1, <1>4 DEF NextEpisode, PrevEpisode, SkipTo
<1>5. ASSUME NEW accepted \in BOOLEAN, DriveMpd(accepted) PROVE PlaybackInv'
  BY <1>0, <1>5 DEF DriveMpd, Starting, Empty, Idle
<1>6. CASE NotePlaying
  <2>1. /\ call.pc = "note" /\ mpd.file = call.ep
        /\ player' = [active |-> TRUE, guid |-> call.ep]
        /\ call' = IF call.at > 0 /\ call.ep \notin Streamed
                   THEN [call EXCEPT !.pc = "seek"] ELSE Idle
        /\ saver' = [saver EXCEPT !.misread =
                       @ \/ (saver.pc = "read" /\ player.guid # call.ep)]
        /\ UNCHANGED <<mpd, shown, store, heard>>
    BY <1>6 DEF NotePlaying
  <2>2. /\ saver'.pc = saver.pc /\ saver'.guid = saver.guid /\ saver'.at = saver.at
        /\ DOMAIN saver' = DOMAIN saver
    BY <2>1
  <2>3. saver.pc = "read" /\ ~saver'.misread => ~saver.misread /\ player.guid = call.ep
    BY <2>1
  <2>4. call'.pc # "note" /\ DOMAIN call' = DOMAIN call /\ (call' = Idle \/ call'.pc # "idle")
    BY <2>1 DEF Idle
  <2> QED  BY <2>1, <2>2, <2>3, <2>4
<1>7. CASE \/ WaitingJingle \/ SeekResume \/ PausePlay \/ StopPodcast \/ IsPodcastActive
           \/ ClearGone \/ ClearStale \/ \E raises \in BOOLEAN : StopMpd(raises)
  BY <1>7, SongSteps
<1> QED
  BY <1>2, <1>3, <1>4, <1>5, <1>6, <1>7, <1>8 DEF Calls, TapSeries, TapEpisode

\* and those of the thread that saves the position keep the invariant.
LEMMA SaverSteps ==
  ASSUME PlaybackInv,
         SaverLooks \/ SaverAsks \/ SaverReads \/ SaverSaves \/ ExitAndRestart \/ CrashAndRestart
  PROVE  PlaybackInv'
<1> USE DEF PlaybackInv, PodcastRecords, PositionsWereHeard, NotedIsPlayed,
            ReadingIsOfItsEpisode
<1>0. Nothing \notin Episodes
  BY PodcastAssumption
<1>1. CASE SaverLooks
  BY <1>1 DEF SaverLooks, Asleep, CompletedWasHeard
<1>2. CASE SaverAsks
  BY <1>2 DEF SaverAsks, CompletedWasHeard
<1>3. CASE SaverReads
  <2>1. CASE shown.state # "play"
    BY <1>3, <2>1 DEF SaverReads, Asleep, CompletedWasHeard
  <2>2. CASE shown.state = "play"
    <3>1. /\ saver.pc = "told"
          /\ saver' = [saver EXCEPT !.pc = "read", !.at = shown.at, !.misread = Misread]
          /\ UNCHANGED <<mpd, shown, player, store, last, call, starts, heard>>
      BY <1>3, <2>2 DEF SaverReads
    <3>2. /\ DOMAIN saver' = DOMAIN saver /\ saver'.guid = saver.guid
          /\ saver'.at = shown.at
      BY <3>1
    <3>3. ~saver'.misread => ~Misread
      BY <3>1
    <3>4. ~saver'.misread /\ saver.guid = player.guid /\ shown.at >= Threshold
            => saver.guid \in heard
      BY <3>1, <3>3, AccurateReading
    <3> QED  BY <3>1, <3>2, <3>4 DEF CompletedWasHeard
  <2> QED  BY <2>1, <2>2
<1>4. CASE SaverSaves
  <2>1. DOMAIN store' = Episodes /\ CompletedWasHeard' /\ heard \subseteq heard'
    <3>1. CASE SameEpisode
      <4>1. Update(saver.guid, saver.at, saver.misread)
        BY <1>4, <3>1 DEF SaverSaves
      <4>2. ~saver.misread /\ saver.guid \in Episodes /\ saver.at >= Threshold
              => saver.guid \in heard
        BY <1>4, <3>1 DEF SaverSaves, SameEpisode
      <4> QED  BY <4>1, <4>2, SavedWasHeard
    <3>2. CASE ~SameEpisode
      BY <1>4, <3>2 DEF SaverSaves, CompletedWasHeard
    <3> QED  BY <3>1, <3>2
  <2> QED  BY <1>4, <2>1 DEF SaverSaves, Asleep
<1>5. ASSUME Reborn, DOMAIN store' = Episodes, CompletedWasHeard', heard \subseteq heard'
      PROVE  PlaybackInv'
  BY <1>0, <1>5 DEF Reborn, Unpolled, Shown, Empty, Idle, Asleep
<1>6. CASE ExitAndRestart
  <2>1. Reborn
    BY <1>6 DEF ExitAndRestart
  <2>2. CASE player.active /\ player.guid # Nothing
    <3>1. Update(player.guid, shown.at, Misread)
      BY <1>6, <2>2 DEF ExitAndRestart
    <3>2. ~Misread /\ shown.at >= Threshold => player.guid \in heard
      BY <2>2, AccurateReading
    <3> QED  BY <1>5, <2>1, <3>1, <3>2, SavedWasHeard
  <2>3. CASE ~(player.active /\ player.guid # Nothing)
    BY <1>5, <1>6, <2>1, <2>3 DEF ExitAndRestart, CompletedWasHeard
  <2> QED  BY <2>2, <2>3
<1>7. CASE CrashAndRestart
  BY <1>5, <1>7 DEF CrashAndRestart, CompletedWasHeard
<1> QED  BY <1>1, <1>2, <1>3, <1>4, <1>6, <1>7

\* An episode is skipped as completed only if MPD has played it that far since the
\* feed was last heard through, the named misreadings apart, whatever calls are
\* under way while the position thread looks, asks, reads and saves
\* (_position_tracking_loop).
THEOREM CompletedEpisodesWereHeard == PodcastSpec => []CompletedWasHeard
<1>1. PodcastInit => PlaybackInv
  <2> SUFFICES ASSUME PodcastInit PROVE PlaybackInv
    OBVIOUS
  <2>0. ~(0 >= Threshold) /\ Nothing \notin Episodes
    BY PodcastAssumption
  <2>1. PodcastRecords
    BY DEF PodcastInit, PodcastRecords, Empty, Unpolled, Shown, Idle, Asleep
  <2>2. PositionsWereHeard /\ NotedIsPlayed /\ ReadingIsOfItsEpisode
    BY <2>0 DEF PodcastInit, PositionsWereHeard, NotedIsPlayed, ReadingIsOfItsEpisode,
       Empty, Unpolled, Shown, Idle, Asleep
  <2>3. CompletedWasHeard
    BY DEF PodcastInit, CompletedWasHeard
  <2> QED  BY <2>1, <2>2, <2>3 DEF PlaybackInv
<1>2. PlaybackInv /\ [PodcastNext]_podcastVars => PlaybackInv'
  <2>1. PlaybackInv /\ UNCHANGED podcastVars => PlaybackInv'
    BY DEF podcastVars, PlaybackInv, PodcastRecords, PositionsWereHeard, NotedIsPlayed,
       ReadingIsOfItsEpisode, CompletedWasHeard
  <2> QED  BY <2>1, SongSteps, CallSteps, SaverSteps DEF PodcastNext
<1>3. PlaybackInv => CompletedWasHeard
  BY DEF PlaybackInv
<1> QED  BY <1>1, <1>2, <1>3, PTL DEF PodcastSpec

----------------------------------------------------------------------------
(* The cache of episodes.                                                     *)

\* Taking an episode out of the order leaves the others, once each.
LEMMA TakingOut ==
  ASSUME NEW S, NEW q \in Seq(S), IsInjective(q), NEW e
  PROVE  /\ RemoveFirst(q, e) \in Seq(S) /\ IsInjective(RemoveFirst(q, e))
         /\ Range(RemoveFirst(q, e)) = Range(q) \ {e}
         /\ q # <<>> /\ e = Head(q) => RemoveFirst(q, e) = Tail(q)
<1>1. CASE \E i \in 1..Len(q) : q[i] = e
  <2>1. PICK i \in 1..Len(q) : q[i] = e
    BY <1>1
  <2>2. {j \in 1..Len(q) : q[j] = e} = {i}
    BY <2>1 DEF IsInjective
  <2>3. SelectInSeq(q, LAMBDA v : v = e) = i
    <3>1. Min({i}) = i
      BY DEF Min
    <3> QED  BY <2>2, <3>1 DEF SelectInSeq
  <2>4. RemoveFirst(q, e) = SubSeq(q, 1, i - 1) \o SubSeq(q, i + 1, Len(q))
    BY <1>1, <2>3 DEF RemoveFirst, RemoveAt
  <2>5. i \in 1..Len(q) /\ i - 1 \in 0..Len(q) /\ Len(q) \in Nat
    BY <2>1
  <2> DEFINE r == RemoveFirst(q, e)
  <2>6. /\ r \in Seq(S) /\ Len(r) = Len(q) - 1
        /\ \A j \in 1..(Len(q) - 1) : r[j] = IF j < i THEN q[j] ELSE q[j + 1]
    <3>1. /\ SubSeq(q, 1, i - 1) \in Seq(S) /\ Len(SubSeq(q, 1, i - 1)) = i - 1
          /\ \A j \in 1..(i - 1) : SubSeq(q, 1, i - 1)[j] = q[j]
      BY <2>5
    <3>2. /\ SubSeq(q, i + 1, Len(q)) \in Seq(S) /\ Len(SubSeq(q, i + 1, Len(q))) = Len(q) - i
          /\ \A j \in 1..(Len(q) - i) : SubSeq(q, i + 1, Len(q))[j] = q[j + i]
      BY <2>5
    <3> DEFINE a == SubSeq(q, 1, i - 1)
               b == SubSeq(q, i + 1, Len(q))
    <3>3. a \in Seq(S) /\ b \in Seq(S) /\ r = a \o b /\ Len(a) = i - 1 /\ Len(b) = Len(q) - i
      BY <3>1, <3>2, <2>4
    <3>4. /\ \A j \in 1..(i - 1) : a[j] = q[j]
          /\ \A j \in 1..(Len(q) - i) : b[j] = q[j + i]
      BY <3>1, <3>2
    <3> HIDE DEF a, b, r
    <3>5. /\ r \in Seq(S) /\ Len(r) = Len(q) - 1
          /\ \A j \in 1..Len(r) : r[j] = IF j <= Len(a) THEN a[j] ELSE b[j - Len(a)]
      <4>1. /\ a \o b \in Seq(S) /\ Len(a \o b) = Len(a) + Len(b)
            /\ \A j \in 1..(Len(a) + Len(b)) :
                   (a \o b)[j] = IF j <= Len(a) THEN a[j] ELSE b[j - Len(a)]
        BY <3>3, ConcatProperties, Zenon
      <4> QED  BY <4>1, <3>3, <2>5
    <3> QED  BY <3>3, <3>4, <3>5, <2>5
  <2> HIDE DEF r
  <2>7. IsInjective(r)
    <3>1. DOMAIN r = 1..(Len(q) - 1) /\ DOMAIN q = 1..Len(q)
      BY <2>6
    <3> SUFFICES ASSUME NEW j \in 1..(Len(q) - 1), NEW k \in 1..(Len(q) - 1), r[j] = r[k]
                 PROVE  j = k
      BY <3>1 DEF IsInjective
    <3> DEFINE at(n) == IF n < i THEN n ELSE n + 1
    <3>2. /\ at(j) \in 1..Len(q) /\ at(k) \in 1..Len(q)
          /\ r[j] = q[at(j)] /\ r[k] = q[at(k)]
      BY <2>5, <2>6
    <3>3. at(j) = at(k)
      BY <3>1, <3>2 DEF IsInjective
    <3> QED  BY <2>5, <3>3
  <2>8. Range(r) = Range(q) \ {e}
    <3>1. ASSUME NEW j \in 1..Len(r) PROVE r[j] \in Range(q) \ {e}
      <4>1. PICK n \in 1..Len(q) : n # i /\ r[j] = q[n]
        <5>1. CASE j < i
          BY <5>1, <2>5, <2>6
        <5>2. CASE j >= i
          <6>1. j + 1 \in 1..Len(q) /\ j + 1 # i /\ r[j] = q[j + 1]
            BY <5>2, <2>5, <2>6
          <6> QED  BY <6>1
        <5> QED  BY <5>1, <5>2, <2>5
      <4>2. q[n] # q[i] /\ q[n] \in Range(q)
        BY <4>1, <2>5 DEF IsInjective, Range
      <4> QED  BY <4>1, <4>2, <2>1
    <3>2. ASSUME NEW k \in 1..Len(q), q[k] # e PROVE q[k] \in Range(r)
      <4>1. CASE k < i
        <5>1. k \in 1..Len(r) /\ r[k] = q[k]
          BY <4>1, <2>5, <2>6
        <5> QED  BY <5>1, <2>6 DEF Range
      <4>2. CASE k > i
        <5>1. k - 1 \in 1..Len(r) /\ r[k - 1] = q[k]
          BY <4>2, <2>5, <2>6
        <5> QED  BY <5>1, <2>6 DEF Range
      <4> QED  BY <4>1, <4>2, <3>2, <2>1
    <3>3. DOMAIN r = 1..Len(r) /\ DOMAIN q = 1..Len(q)
      BY <2>6
    <3> QED  BY <3>1, <3>2, <3>3 DEF Range
  <2>9. q # <<>> /\ e = Head(q) => r = Tail(q)
    <3> SUFFICES ASSUME q # <<>>, e = Head(q) PROVE r = Tail(q)
      OBVIOUS
    <3>1. i = 1
      BY <2>1, <2>5 DEF IsInjective
    <3>2. Len(Tail(q)) = Len(q) - 1 /\ \A j \in 1..(Len(q) - 1) : Tail(q)[j] = q[j + 1]
      BY <2>5
    <3>3. \A j \in 1..(Len(q) - 1) : r[j] = q[j + 1]
      BY <3>1, <2>6
    <3> QED  BY <3>2, <3>3, <2>6
  <2> QED  BY <2>6, <2>7, <2>8, <2>9 DEF r
<1>2. CASE ~\E i \in 1..Len(q) : q[i] = e
  <2>1. RemoveFirst(q, e) = q
    BY <1>2 DEF RemoveFirst
  <2> QED  BY <1>2, <2>1 DEF Range
<1> QED  BY <1>1, <1>2

\* An episode that is used is in the order once.
LEMMA TouchedIsLast ==
  ASSUME NEW S, NEW q \in Seq(S), IsInjective(q), NEW e \in S
  PROVE  /\ Touched(q, e) \in Seq(S) /\ IsInjective(Touched(q, e))
         /\ Range(Touched(q, e)) = Range(q) \cup {e}
<1> DEFINE r == RemoveFirst(q, e)
           t == Append(r, e)
<1>1. /\ r \in Seq(S) /\ IsInjective(r) /\ Range(r) = Range(q) \ {e}
  BY TakingOut
<1>2. Touched(q, e) = t
  BY DEF Touched
<1> HIDE DEF r
<1>3. /\ t \in Seq(S) /\ Len(t) = Len(r) + 1 /\ Len(r) \in Nat
      /\ \A i \in 1..Len(r) : t[i] = r[i] /\ r[i] \in Range(r)
      /\ t[Len(r) + 1] = e
      /\ DOMAIN t = 1..(Len(r) + 1) /\ DOMAIN r = 1..Len(r)
  BY <1>1, AppendProperties, LenProperties DEF Range
<1> HIDE DEF t
<1>4. IsInjective(t)
  <2> SUFFICES ASSUME NEW i \in 1..(Len(r) + 1), NEW j \in 1..(Len(r) + 1), t[i] = t[j]
               PROVE  i = j
    BY <1>3 DEF IsInjective
  <2>1. CASE i = Len(r) + 1 \/ j = Len(r) + 1
    BY <2>1, <1>1, <1>3
  <2>2. CASE i \in 1..Len(r) /\ j \in 1..Len(r)
    BY <2>2, <1>1, <1>3 DEF IsInjective
  <2> QED  BY <2>1, <2>2, <1>3
<1>5. Range(t) = Range(r) \cup {e}
  <2>1. \A i \in 1..(Len(r) + 1) : t[i] \in Range(r) \cup {e}
    BY <1>3
  <2>2. \A i \in 1..Len(r) : r[i] \in Range(t)
    BY <1>3 DEF Range
  <2>3. e \in Range(t)
    BY <1>3 DEF Range
  <2> QED  BY <2>1, <2>2, <2>3, <1>3 DEF Range
<1> QED  BY <1>1, <1>2, <1>3, <1>4, <1>5

\* The bytes of finitely many episodes, of one more and of one less.
LEMMA BytesAreFinite ==
  ASSUME NEW S \in SUBSET Stored
  PROVE  IsFiniteSet(Bytes(S)) /\ TotalOf(S) \in Nat
<1>1. IsFiniteSet(S) /\ IsFiniteSet(1..MaxSize)
  BY CacheAssumption, FS_Subset, FS_Interval
<1>2. IsFiniteSet(S \X (1..MaxSize))
  BY <1>1, FS_Product
<1>3. IsFiniteSet(Bytes(S))
  <2>1. Bytes(S) \in SUBSET (S \X (1..MaxSize))
    BY DEF Bytes
  <2> QED  BY <1>2, <2>1, FS_Subset
<1> QED  BY <1>3, FS_CardinalityType DEF TotalOf

\* What a set of episodes takes: nothing for none,
LEMMA NothingIsEmpty == TotalOf({}) = 0
<1>1. Bytes({}) = {}
  BY DEF Bytes
<1> QED  BY <1>1, FS_EmptySet DEF TotalOf

\* less for fewer,
LEMMA FewerTakeLess ==
  ASSUME NEW S \in SUBSET Stored, NEW T \in SUBSET S
  PROVE  TotalOf(T) <= TotalOf(S)
<1>1. Bytes(T) \in SUBSET Bytes(S)
  BY DEF Bytes
<1> QED  BY <1>1, BytesAreFinite, FS_Subset DEF TotalOf

\* its size for one,
LEMMA OneTakesItsSize ==
  ASSUME NEW e \in Stored
  PROVE  TotalOf({e}) = Size[e]
<1>1. Size[e] \in Nat /\ Size[e] <= MaxSize /\ MaxSize \in Nat
  BY CacheAssumption
<1> DEFINE f == [i \in 1..Size[e] |-> <<e, i>>]
<1>2. Bytes({e}) = {<<e, i>> : i \in 1..Size[e]}
  BY <1>1 DEF Bytes
<1>3. f \in Bijection(1..Size[e], Bytes({e}))
  BY <1>1, <1>2 DEF Bijection, Injection, Surjection, IsInjective
<1>4. ExistsBijection(1..Size[e], Bytes({e}))
  BY <1>3 DEF ExistsBijection
<1> QED  BY <1>1, <1>4, FS_CountingElements DEF TotalOf

\* at most its size more with one more,
LEMMA OneMore ==
  ASSUME NEW S \in SUBSET Stored, NEW e \in Stored
  PROVE  TotalOf(S \cup {e}) <= TotalOf(S) + Size[e]
<1>1. Bytes(S \cup {e}) = Bytes(S) \cup Bytes({e})
  BY DEF Bytes
<1>2. IsFiniteSet(Bytes(S)) /\ IsFiniteSet(Bytes({e}))
  BY BytesAreFinite
<1>3. Cardinality(Bytes(S) \cap Bytes({e})) \in Nat
  BY <1>2, FS_Intersection, FS_CardinalityType
<1>4. TotalOf(S) \in Nat /\ TotalOf({e}) \in Nat
  BY BytesAreFinite
<1>5. Cardinality(Bytes(S) \cup Bytes({e}))
        = Cardinality(Bytes(S)) + Cardinality(Bytes({e})) - Cardinality(Bytes(S) \cap Bytes({e}))
  BY <1>2, FS_Union
<1>6. TotalOf({e}) = Size[e]
  BY OneTakesItsSize
<1>7. TotalOf(S \cup {e}) = TotalOf(S) + TotalOf({e}) - Cardinality(Bytes(S) \cap Bytes({e}))
  BY <1>1, <1>5 DEF TotalOf
<1> QED  BY <1>3, <1>4, <1>6, <1>7

\* and its size less with one less.
LEMMA OneLess ==
  ASSUME NEW S \in SUBSET Stored, NEW e \in S
  PROVE  TotalOf(S \ {e}) = TotalOf(S) - Size[e]
<1>1. Bytes(S) = Bytes(S \ {e}) \cup Bytes({e}) /\ Bytes(S \ {e}) \cap Bytes({e}) = {}
  BY DEF Bytes
<1>2. IsFiniteSet(Bytes(S \ {e})) /\ IsFiniteSet(Bytes({e})) /\ e \in Stored
  BY BytesAreFinite
<1>3. TotalOf(S \ {e}) \in Nat /\ TotalOf({e}) \in Nat
  BY BytesAreFinite
<1>4. Cardinality(Bytes(S \ {e}) \cup Bytes({e}))
        = Cardinality(Bytes(S \ {e})) + Cardinality(Bytes({e})) - 0
  BY <1>1, <1>2, FS_Union, FS_EmptySet
<1>5. TotalOf({e}) = Size[e]
  BY <1>2, OneTakesItsSize
<1> QED  BY <1>1, <1>3, <1>4, <1>5 DEF TotalOf

CacheSpec == CacheInit /\ [][CacheNext]_cacheVars

Present == {e \in Stored : files[e] # "absent"}

\* A record of the tracked episodes, each of them once.
IsMetadata(m) ==
  /\ m = [order |-> m.order, total |-> m.total]
  /\ m.order \in Seq(Stored) /\ IsInjective(m.order) /\ m.total \in Int

JobTypes ==
  /\ DOMAIN job = {"pc", "ep", "need", "queue", "sized"}
  /\ job.pc \in {"none", "ask", "evict", "fetch", "rename", "record"}
  /\ job = NoJob \/ (job.pc # "none" /\ job.ep \in Stored)
  /\ job.need \in Nat /\ job.queue \in Seq(Stored)

CacheTypes ==
  /\ files \in [Stored -> {"absent", "whole", "unsized", "hollow"}]
  /\ IsMetadata(metadata) /\ IsMetadata(saved)
  /\ JobTypes
  /\ excused \in BOOLEAN

\* What is tracked fits into the total, of the metadata in memory and as saved.
TotalsCover ==
  /\ TotalOf(Tracked) <= metadata.total
  /\ TotalOf(Range(saved.order)) <= saved.total

\* The files are those of the metadata, and the one just downloaded.
FilesAreTracked == Present \subseteq Tracked \cup (IF job.pc = "record" THEN {job.ep} ELSE {})

\* While it evicts, the job has as much left to free as the metadata says is
\* missing, and once it fetches there is room for the episode.
RoomIsMade ==
  /\ job.pc = "evict" => /\ job.queue = metadata.order
                         /\ metadata.total <= MaxSize - Size[job.ep] + job.need
  /\ job.pc \in {"fetch", "rename"} => TotalOf(Present) + Size[job.ep] <= MaxSize

CacheInv ==
  /\ CacheTypes
  /\ excused \/ (TotalsCover /\ FilesAreTracked /\ RoomIsMade /\ TotalOf(Present) <= MaxSize)

\* The cache begins within its limit.
LEMMA CacheStarts == CacheInit => CacheInv
<1> SUFFICES ASSUME CacheInit PROVE CacheInv
  OBVIOUS
<1>1. <<>> \in Seq(Stored) /\ IsInjective(<<>>) /\ Range(<<>>) = {}
  BY DEF IsInjective, Range
<1>2. CacheTypes
  <2>1. IsMetadata(metadata) /\ IsMetadata(saved)
    BY <1>1 DEF CacheInit, IsMetadata
  <2>2. job = NoJob
    BY DEF CacheInit
  <2>2a. DOMAIN NoJob = {"pc", "ep", "need", "queue", "sized"} /\ NoJob.pc = "none" /\ NoJob.need = 0
         /\ NoJob.queue = <<>>
    BY DEF NoJob
  <2>3. files \in [Stored -> {"absent", "whole", "unsized", "hollow"}]
    BY DEF CacheInit
  <2>4. excused \in BOOLEAN
    BY DEF CacheInit
  <2>5. JobTypes
    <3>1. job.pc \in {"none", "ask", "evict", "fetch", "rename", "record"}
      BY <2>2, <2>2a
    <3>2. job.need \in Nat /\ job.queue \in Seq(Stored) /\ DOMAIN job = {"pc", "ep", "need", "queue", "sized"}
      BY <2>2, <2>2a
    <3> QED  BY <2>2, <3>1, <3>2 DEF JobTypes
  <2> QED  BY <2>1, <2>3, <2>4, <2>5 DEF CacheTypes
<1>3. Present = {} /\ Tracked = {} /\ Range(saved.order) = {}
  BY <1>1 DEF CacheInit, Present, Tracked
<1>4. job.pc = "none" /\ metadata.total = 0 /\ saved.total = 0
  BY DEF CacheInit, NoJob
<1> QED
  BY <1>2, <1>3, <1>4, NothingIsEmpty, CacheAssumption
     DEF CacheInv, TotalsCover, FilesAreTracked, RoomIsMade

\* Forgetting a tracked episode and recording one.
LEMMA ForgetIsSound ==
  ASSUME NEW m, IsMetadata(m), NEW e \in Stored
  PROVE  /\ IsMetadata(Forget(m, e))
         /\ Forget(m, e).total = m.total - Size[e]
         /\ Range(Forget(m, e).order) = Range(m.order) \ {e}
         /\ e \in Range(m.order) =>
              TotalOf(Range(Forget(m, e).order)) = TotalOf(Range(m.order)) - Size[e]
         /\ m.order # <<>> /\ e = Head(m.order) => Forget(m, e).order = Tail(m.order)
<1>1. Range(m.order) \in SUBSET Stored
  BY DEF IsMetadata, Range
<1>2. /\ RemoveFirst(m.order, e) \in Seq(Stored) /\ IsInjective(RemoveFirst(m.order, e))
      /\ Range(RemoveFirst(m.order, e)) = Range(m.order) \ {e}
      /\ m.order # <<>> /\ e = Head(m.order) => RemoveFirst(m.order, e) = Tail(m.order)
  BY TakingOut DEF IsMetadata
<1>3. e \in Range(m.order) => TotalOf(Range(m.order) \ {e}) = TotalOf(Range(m.order)) - Size[e]
  BY <1>1, OneLess
<1>4. Forget(m, e) = [order |-> RemoveFirst(m.order, e), total |-> m.total - Size[e]]
  BY DEF Forget
<1>5. Forget(m, e).order = RemoveFirst(m.order, e) /\ Forget(m, e).total = m.total - Size[e]
  BY <1>4
<1>6. m.total - Size[e] \in Int
  BY CacheAssumption DEF IsMetadata
<1> QED  BY <1>2, <1>3, <1>4, <1>5, <1>6 DEF IsMetadata

\* An episode that is recorded is in the total it is recorded with.
LEMMA RecordIsSound ==
  ASSUME NEW m, IsMetadata(m), NEW e \in Stored, NEW n,
         n = [order |-> Touched(m.order, e), total |-> m.total + Size[e]],
         TotalOf(Range(m.order)) <= m.total
  PROVE  TotalOf(Range(n.order)) <= n.total
<1>1. Range(m.order) \in SUBSET Stored
  BY DEF IsMetadata, Range
<1>2. Range(n.order) = Range(m.order) \cup {e}
  BY TouchedIsLast DEF IsMetadata
<1>3. TotalOf(Range(m.order) \cup {e}) <= TotalOf(Range(m.order)) + Size[e]
  BY <1>1, OneMore
<1>4. /\ TotalOf(Range(m.order) \cup {e}) \in Nat /\ TotalOf(Range(m.order)) \in Nat
      /\ Size[e] \in Int /\ m.total \in Int
  BY <1>1, BytesAreFinite, CacheAssumption DEF IsMetadata
<1>5. n.total = m.total + Size[e]
  OBVIOUS
<1>6. TotalOf(Range(n.order)) = TotalOf(Range(m.order) \cup {e})
  BY <1>2
<1> DEFINE total == TotalOf(Range(n.order))
           sum == n.total
<1>7. total <= TotalOf(Range(m.order)) + Size[e] /\ sum = m.total + Size[e] /\ total \in Nat
  BY <1>3, <1>4, <1>5, <1>6
<1> HIDE DEF total, sum
<1>8. total <= sum
  BY <1>4, <1>7
<1> QED  BY <1>8 DEF total, sum

\* What is tracked, saved and present are episodes, of bounded size.
LEMMA EpisodesOfStored ==
  ASSUME CacheTypes
  PROVE  /\ Tracked \in SUBSET Stored /\ Range(saved.order) \in SUBSET Stored
         /\ Present \in SUBSET Stored
         /\ TotalOf(Tracked) \in Nat /\ TotalOf(Range(saved.order)) \in Nat
         /\ TotalOf(Present) \in Nat
         /\ MaxSize \in Nat /\ \A e \in Stored : Size[e] \in 1..MaxSize
<1>1. /\ Tracked \in SUBSET Stored /\ Range(saved.order) \in SUBSET Stored
      /\ Present \in SUBSET Stored
  BY DEF CacheTypes, IsMetadata, Tracked, Present, Range
<1> QED  BY <1>1, BytesAreFinite, CacheAssumption

\* A job that ends leaves nothing of itself.
LEMMA NoJobLeft == JobTypes /\ job' = NoJob => JobTypes' /\ job'.pc = "none"
<1>1. /\ DOMAIN NoJob = {"pc", "ep", "need", "queue", "sized"}
      /\ NoJob.pc = "none" /\ NoJob.need = 0 /\ NoJob.queue = <<>>
  BY DEF NoJob
<1>2. ASSUME job' = NoJob PROVE JobTypes' /\ job'.pc = "none"
  <2>1. /\ DOMAIN job' = {"pc", "ep", "need", "queue", "sized"}
        /\ job'.pc = "none" /\ job'.need \in Nat /\ job'.queue \in Seq(Stored)
    <3>1. DOMAIN job' = DOMAIN NoJob /\ job'.pc = NoJob.pc
      BY <1>2
    <3>2. job'.need = NoJob.need /\ job'.queue = NoJob.queue
      BY <1>2
    <3> QED  BY <1>1, <3>1, <3>2
  <2> QED  BY <1>2, <2>1 DEF JobTypes
<1> QED  BY <1>2

\* The steps that leave the files and the metadata alone.
LEMMA JobSteps ==
  ASSUME CacheInv, UNCHANGED <<files, metadata, saved>>, JobTypes', excused' \in BOOLEAN,
         excused => excused', excused' \/ RoomIsMade',
         job.pc # "record" /\ job'.pc # "record"
  PROVE  CacheInv'
<1>1. CacheTypes'
  BY DEF CacheInv, CacheTypes, IsMetadata
<1>2. Present' = Present /\ Tracked' = Tracked
  BY DEF Present, Tracked
<1> QED  BY <1>1, <1>2 DEF CacheInv, TotalsCover, FilesAreTracked

\* Each step of a download keeps the cache: it is asked for,
LEMMA WantKeeps == ASSUME CacheInv, NEW e \in Stored, Want(e) PROVE CacheInv'
<1>1. /\ job = NoJob /\ JobTypes /\ CacheTypes /\ excused' = excused
      /\ UNCHANGED <<files, saved>>
  BY DEF CacheInv, CacheTypes, Want
<1>2. job.pc = "none"
  BY <1>1 DEF NoJob
<1>3. CASE IsCached(e)
  <2>1. /\ metadata' = [metadata EXCEPT !.order = Touched(metadata.order, e)] /\ job' = job
        /\ e \in Tracked
    BY <1>3 DEF Want, IsCached
  <2>2. /\ Touched(metadata.order, e) \in Seq(Stored) /\ IsInjective(Touched(metadata.order, e))
        /\ Range(Touched(metadata.order, e)) = Tracked
    <3>1. metadata.order \in Seq(Stored) /\ IsInjective(metadata.order)
      BY <1>1 DEF CacheTypes, IsMetadata
    <3>2. /\ Touched(metadata.order, e) \in Seq(Stored) /\ IsInjective(Touched(metadata.order, e))
          /\ Range(Touched(metadata.order, e)) = Range(metadata.order) \cup {e}
      BY <3>1, TouchedIsLast
    <3> QED  BY <2>1, <3>2 DEF Tracked
  <2>3. metadata' = [order |-> Touched(metadata.order, e), total |-> metadata.total]
    BY <1>1, <2>1 DEF CacheTypes, IsMetadata
  <2>4. CacheTypes' /\ Tracked' = Tracked /\ Present' = Present /\ metadata'.total = metadata.total
    <3>1. metadata'.order = Touched(metadata.order, e) /\ metadata'.total = metadata.total
      BY <2>3
    <3>2. IsMetadata(metadata')
      BY <1>1, <2>2, <2>3, <3>1 DEF CacheTypes, IsMetadata
    <3>3. IsMetadata(saved')
      BY <1>1 DEF CacheTypes
    <3> QED  BY <1>1, <2>1, <2>2, <3>1, <3>2, <3>3 DEF CacheTypes, JobTypes, Tracked, Present
  <2> QED  BY <1>1, <1>2, <2>1, <2>4 DEF CacheInv, TotalsCover, FilesAreTracked, RoomIsMade
<1>4. CASE ~IsCached(e)
  <2>1. job' = [NoJob EXCEPT !.pc = "ask", !.ep = e] /\ metadata' = metadata
    BY <1>4 DEF Want
  <2>2. job'.pc = "ask" /\ JobTypes'
    BY <2>1 DEF NoJob, JobTypes
  <2>3. RoomIsMade'
    BY <2>2 DEF RoomIsMade
  <2> QED  BY <1>1, <1>2, <2>1, <2>2, <2>3, JobSteps DEF CacheTypes
<1> QED  BY <1>3, <1>4

\* there is no room on the disk or no server,
LEMMA NoDownloadKeeps == CacheInv /\ NoDownload => CacheInv'
<1> SUFFICES ASSUME CacheInv, NoDownload PROVE CacheInv'
  OBVIOUS
<1>1. JobTypes' /\ job'.pc = "none" /\ job.pc = "ask"
  BY NoJobLeft DEF NoDownload, CacheInv, CacheTypes
<1>2. RoomIsMade'
  BY <1>1 DEF RoomIsMade
<1> QED  BY <1>1, <1>2, JobSteps DEF NoDownload, CacheInv, CacheTypes

\* the server answers,
LEMMA AnsweredKeeps == ASSUME CacheInv, NEW declared, Answered(declared) PROVE CacheInv'
<1>1. /\ job.pc = "ask" /\ job.ep \in Stored /\ declared \in {0, Size[job.ep]}
      /\ UNCHANGED <<files, metadata, saved>>
      /\ CacheTypes /\ JobTypes /\ job.need \in Nat /\ metadata.total \in Int
  BY DEF Answered, CacheInv, CacheTypes, JobTypes, NoJob, IsMetadata
<1>2. excused' \in BOOLEAN /\ (excused => excused') /\ (declared = 0 => excused')
  BY <1>1 DEF Answered, CacheTypes
<1>3. Size[job.ep] \in 1..MaxSize /\ MaxSize \in Nat
  BY <1>1, EpisodesOfStored
<1>4. Needed(declared) \in Nat
  BY <1>1, <1>3 DEF Needed
<1>5. Present' = Present /\ Tracked' = Tracked
  BY <1>1 DEF Present, Tracked
<1>6. CASE Needed(declared) > 0 /\ metadata.order # <<>>
  <2>1. job' = [job EXCEPT !.pc = "evict", !.need = Needed(declared), !.queue = metadata.order,
                           !.sized = TRUE]
    BY <1>6 DEF Answered
  <2>1a. metadata.order \in Seq(Stored)
    BY <1>1 DEF CacheTypes, IsMetadata
  <2>2. /\ job'.pc = "evict" /\ job'.need = Needed(declared) /\ job'.queue = metadata.order
        /\ job'.ep = job.ep /\ JobTypes'
    BY <1>1, <1>4, <2>1, <2>1a DEF JobTypes
  <2>3. declared # 0 => metadata.total <= MaxSize - Size[job.ep] + Needed(declared)
    BY <1>1, <1>3, <1>6 DEF Needed
  <2>4. excused' \/ RoomIsMade'
    BY <1>1, <1>2, <2>2, <2>3 DEF RoomIsMade
  <2> QED  BY <1>1, <1>2, <2>2, <2>4, JobSteps
<1>7. CASE ~(Needed(declared) > 0 /\ metadata.order # <<>>)
  <2>1. job' = [job EXCEPT !.pc = "fetch", !.sized = declared > 0]
    BY <1>7 DEF Answered
  <2>2. job'.pc = "fetch" /\ job'.ep = job.ep /\ JobTypes'
    BY <1>1, <2>1 DEF JobTypes
  <2>3. ~excused' => TotalOf(Present) + Size[job.ep] <= MaxSize
    <3> SUFFICES ASSUME ~excused' PROVE TotalOf(Present) + Size[job.ep] <= MaxSize
      OBVIOUS
    <3>1. declared = Size[job.ep] /\ TotalsCover /\ Present \subseteq Tracked
      BY <1>1, <1>2 DEF CacheInv, FilesAreTracked
    <3>2. TotalOf(Present) <= TotalOf(Tracked) /\ TotalOf(Present) \in Nat /\ TotalOf(Tracked) \in Nat
      BY <1>1, <3>1, FewerTakeLess, EpisodesOfStored
    <3>3. CASE metadata.order = <<>>
      <4>1. Present = {}
        BY <3>1, <3>3 DEF Tracked, Range
      <4> QED  BY <1>3, <4>1, NothingIsEmpty
    <3>4. CASE ~(Needed(declared) > 0)
      <4>1. metadata.total <= MaxSize - Size[job.ep]
        BY <1>1, <1>3, <3>1, <3>4 DEF Needed
      <4> QED  BY <1>1, <1>3, <3>1, <3>2, <4>1 DEF TotalsCover
    <3> QED  BY <1>7, <3>3, <3>4
  <2>4. excused' \/ RoomIsMade'
    BY <1>5, <2>2, <2>3 DEF RoomIsMade
  <2> QED  BY <1>1, <1>2, <2>2, <2>4, JobSteps
<1> QED  BY <1>6, <1>7

\* the oldest episodes make room,
LEMMA EvictOldestKeeps == ASSUME CacheInv, NEW ok \in BOOLEAN, EvictOldest(ok) PROVE CacheInv'
<1> DEFINE e == Head(job.queue)
           freed == IF ok \/ files[e] = "absent" THEN Size[e] ELSE 0
<1>1. /\ CacheTypes /\ JobTypes /\ saved' = saved /\ excused \in BOOLEAN
      /\ job.pc = "evict" /\ job.need > 0 /\ job.need \in Nat /\ job.ep \in Stored
      /\ job.queue \in Seq(Stored) /\ metadata.total \in Int /\ IsMetadata(metadata)
  BY DEF EvictOldest, CacheInv, CacheTypes, JobTypes, NoJob, IsMetadata
<1>2. /\ files' = Without(files, IF ok THEN {e} ELSE {})
      /\ excused' = (excused \/ (~ok /\ files[e] # "absent"))
      /\ metadata' = IF freed > 0 THEN Forget(metadata, e) ELSE metadata
      /\ job' = [job EXCEPT !.queue = Tail(@), !.need = IF @ > freed THEN @ - freed ELSE 0]
      /\ job.queue # <<>>
  BY DEF EvictOldest, Unlink
<1>3. e \in Stored /\ Size[e] \in 1..MaxSize /\ freed \in 0..MaxSize /\ MaxSize \in Nat
      /\ Size[job.ep] \in 1..MaxSize
  BY <1>1, <1>2, EpisodesOfStored
<1>4. /\ JobTypes' /\ job'.pc = "evict" /\ job'.ep = job.ep /\ job'.queue = Tail(job.queue)
      /\ job'.need = IF job.need > freed THEN job.need - freed ELSE 0
  <2>1. Tail(job.queue) \in Seq(Stored)
    BY <1>1, <1>2
  <2> QED  BY <1>1, <1>2, <1>3, <2>1 DEF JobTypes
<1> HIDE DEF e, freed
<1>5. IsMetadata(metadata') /\ CacheTypes'
  <2>1. IsMetadata(metadata')
    BY <1>1, <1>2, <1>3, ForgetIsSound
  <2>2. IsMetadata(saved')
    BY <1>1 DEF CacheTypes
  <2>3. files' \in [Stored -> {"absent", "whole", "unsized", "hollow"}]
    BY <1>1, <1>2 DEF CacheTypes, Without
  <2> QED  BY <1>1, <1>2, <1>4, <2>1, <2>2, <2>3 DEF CacheTypes
<1>6. ASSUME ~excused'
      PROVE  TotalsCover' /\ FilesAreTracked' /\ RoomIsMade' /\ TotalOf(Present') <= MaxSize
  <2>1. /\ ~excused /\ TotalsCover /\ FilesAreTracked /\ RoomIsMade
        /\ TotalOf(Present) <= MaxSize /\ freed = Size[e]
    BY <1>1, <1>2, <1>6 DEF CacheInv, freed
  <2>2. /\ metadata' = Forget(metadata, e) /\ job.queue = metadata.order
        /\ metadata.total <= MaxSize - Size[job.ep] + job.need
        /\ e = Head(metadata.order) /\ e \in Tracked
    BY <1>1, <1>2, <1>3, <2>1 DEF RoomIsMade, e, Tracked, Range
  <2>3. /\ metadata'.total = metadata.total - Size[e] /\ metadata'.order = Tail(metadata.order)
        /\ Tracked' = Tracked \ {e} /\ TotalOf(Tracked') = TotalOf(Tracked) - Size[e]
    <3>1. /\ Forget(metadata, e).total = metadata.total - Size[e]
          /\ Range(Forget(metadata, e).order) = Range(metadata.order) \ {e}
          /\ e \in Range(metadata.order) =>
               TotalOf(Range(Forget(metadata, e).order)) = TotalOf(Range(metadata.order)) - Size[e]
          /\ metadata.order # <<>> /\ e = Head(metadata.order)
               => Forget(metadata, e).order = Tail(metadata.order)
      BY <1>1, <1>3, ForgetIsSound
    <3> QED  BY <1>2, <2>2, <3>1 DEF Tracked
  <2>4. Present' = Present \ {e}
    BY <1>1, <1>2, <1>6, <1>3, <2>1 DEF Present, CacheTypes, Without
  <2>5. TotalOf(Present') <= MaxSize
    <3>1. Present \in SUBSET Stored /\ TotalOf(Present) \in Nat /\ TotalOf(Present \ {e}) \in Nat
      BY <1>1, EpisodesOfStored, BytesAreFinite
    <3>2. TotalOf(Present \ {e}) <= TotalOf(Present)
      BY <3>1, FewerTakeLess
    <3> QED  BY <1>3, <2>1, <2>4, <3>1, <3>2
  <2>6. TotalsCover'
    <3>1. TotalOf(Tracked) \in Nat /\ TotalOf(Range(saved.order)) \in Nat
      BY <1>1, EpisodesOfStored
    <3> QED  BY <1>1, <1>3, <2>1, <2>3, <3>1 DEF TotalsCover
  <2>7. FilesAreTracked'
    BY <1>1, <1>4, <2>1, <2>3, <2>4 DEF FilesAreTracked
  <2>8. RoomIsMade'
    <3>1. metadata'.total <= MaxSize - Size[job.ep] + job'.need
      <4>1. /\ metadata'.total = metadata.total - Size[e] /\ metadata.total \in Int
            /\ metadata.total <= MaxSize - Size[job.ep] + job.need
            /\ job.need \in Nat /\ Size[e] \in Nat /\ Size[job.ep] \in Nat /\ MaxSize \in Nat
        BY <1>1, <1>3, <2>2, <2>3
      <4>2. job'.need = IF job.need > Size[e] THEN job.need - Size[e] ELSE 0
        BY <1>4, <2>1
      <4>3. CASE job.need > Size[e]
        BY <4>1, <4>2, <4>3
      <4>4. CASE ~(job.need > Size[e])
        BY <4>1, <4>2, <4>4
      <4> QED  BY <4>3, <4>4
    <3>2. job'.queue = metadata'.order
      BY <1>4, <2>2, <2>3
    <3> QED  BY <1>4, <3>1, <3>2 DEF RoomIsMade
  <2> QED  BY <2>5, <2>6, <2>7, <2>8
<1> QED  BY <1>1, <1>5, <1>6 DEF CacheInv

\* the eviction is saved,
LEMMA EvictionSavedKeeps == CacheInv /\ EvictionSaved => CacheInv'
<1> SUFFICES ASSUME CacheInv, EvictionSaved PROVE CacheInv'
  OBVIOUS
<1>1. /\ CacheTypes /\ JobTypes /\ job.pc = "evict" /\ (job.need = 0 \/ job.queue = <<>>)
      /\ job.ep \in Stored /\ metadata.total \in Int
      /\ metadata' = metadata /\ saved' \in {metadata, saved} /\ UNCHANGED <<files, excused>>
      /\ job' = [job EXCEPT !.pc = "fetch", !.need = 0, !.queue = <<>>]
  BY DEF EvictionSaved, SaveMetadata, CacheInv, CacheTypes, JobTypes, NoJob, IsMetadata
<1>2. job'.pc = "fetch" /\ job'.ep = job.ep /\ JobTypes'
  <2>1. <<>> \in Seq(Stored)
    OBVIOUS
  <2> QED  BY <1>1, <2>1 DEF JobTypes
<1>3. CacheTypes' /\ Present' = Present /\ Tracked' = Tracked
  BY <1>1, <1>2 DEF CacheTypes, Present, Tracked
<1>4. ASSUME ~excused
      PROVE  TotalsCover' /\ FilesAreTracked' /\ RoomIsMade' /\ TotalOf(Present) <= MaxSize
  <2>1. /\ TotalsCover /\ FilesAreTracked /\ RoomIsMade /\ TotalOf(Present) <= MaxSize
        /\ Present \subseteq Tracked
    BY <1>1, <1>4 DEF CacheInv, FilesAreTracked
  <2>2. TotalsCover'
    BY <1>1, <1>3, <2>1 DEF TotalsCover, Tracked
  <2>3. FilesAreTracked'
    BY <1>2, <1>3, <2>1 DEF FilesAreTracked
  <2>4. TotalOf(Present) + Size[job.ep] <= MaxSize
    <3>1. /\ TotalOf(Present) <= TotalOf(Tracked) /\ TotalOf(Present) \in Nat
          /\ TotalOf(Tracked) \in Nat /\ Size[job.ep] \in 1..MaxSize /\ MaxSize \in Nat
      BY <1>1, <2>1, FewerTakeLess, EpisodesOfStored
    <3>2. /\ job.queue = metadata.order
          /\ metadata.total <= MaxSize - Size[job.ep] + job.need
      BY <1>1, <2>1 DEF RoomIsMade
    <3>3. CASE job.need = 0
      BY <1>1, <2>1, <3>1, <3>2, <3>3 DEF TotalsCover
    <3>4. CASE job.queue = <<>>
      <4>1. Present = {}
        BY <2>1, <3>2, <3>4 DEF Tracked, Range
      <4> QED  BY <3>1, <4>1, NothingIsEmpty
    <3> QED  BY <1>1, <3>3, <3>4
  <2>5. RoomIsMade'
    BY <1>2, <1>3, <2>4 DEF RoomIsMade
  <2> QED  BY <2>1, <2>2, <2>3, <2>5
<1> QED  BY <1>1, <1>3, <1>4 DEF CacheInv

\* its chunks are written,
LEMMA WriteChunksKeeps == CacheInv /\ WriteChunks => CacheInv'
<1> SUFFICES ASSUME CacheInv, WriteChunks PROVE CacheInv'
  OBVIOUS
<1>1. /\ CacheTypes /\ JobTypes /\ job.pc = "fetch" /\ job.ep \in Stored
      /\ job' = [job EXCEPT !.pc = "rename"] /\ UNCHANGED <<files, metadata, saved, excused>>
  BY DEF WriteChunks, CacheInv, CacheTypes, JobTypes, NoJob
<1>2. job'.pc = "rename" /\ job'.ep = job.ep /\ JobTypes'
  BY <1>1 DEF JobTypes
<1>3. excused' \/ RoomIsMade'
  BY <1>1, <1>2 DEF CacheInv, RoomIsMade, Present
<1> QED  BY <1>1, <1>2, <1>3, JobSteps DEF CacheTypes

\* it breaks off,
LEMMA DownloadFailsKeeps == CacheInv /\ DownloadFails => CacheInv'
<1> SUFFICES ASSUME CacheInv, DownloadFails PROVE CacheInv'
  OBVIOUS
<1>1. JobTypes' /\ job'.pc = "none" /\ job.pc = "rename"
  BY NoJobLeft DEF DownloadFails, CacheInv, CacheTypes
<1>2. RoomIsMade'
  BY <1>1 DEF RoomIsMade
<1> QED  BY <1>1, <1>2, JobSteps DEF DownloadFails, CacheInv, CacheTypes

\* the partial file becomes the episode,
LEMMA RenameTempKeeps == CacheInv /\ RenameTemp => CacheInv'
<1> SUFFICES ASSUME CacheInv, RenameTemp PROVE CacheInv'
  OBVIOUS
<1>1. /\ CacheTypes /\ JobTypes /\ job.pc = "rename" /\ job.ep \in Stored
      /\ files' = [files EXCEPT ![job.ep] = IF job.sized THEN "whole" ELSE "unsized"]
      /\ job' = [job EXCEPT !.pc = "record"] /\ UNCHANGED <<metadata, saved, excused>>
  BY DEF RenameTemp, CacheInv, CacheTypes, JobTypes, NoJob
<1>2. job'.pc = "record" /\ job'.ep = job.ep /\ JobTypes'
  BY <1>1 DEF JobTypes
<1>3. CacheTypes' /\ Tracked' = Tracked /\ Present' = Present \cup {job.ep}
  BY <1>1, <1>2 DEF CacheTypes, Present, Tracked
<1>4. ASSUME ~excused
      PROVE  TotalsCover' /\ FilesAreTracked' /\ RoomIsMade' /\ TotalOf(Present') <= MaxSize
  <2>1. /\ TotalsCover /\ FilesAreTracked /\ TotalOf(Present) + Size[job.ep] <= MaxSize
        /\ Present \subseteq Tracked
    BY <1>1, <1>4 DEF CacheInv, FilesAreTracked, RoomIsMade
  <2>2. TotalOf(Present') <= MaxSize
    <3>1. /\ Present \in SUBSET Stored /\ TotalOf(Present) \in Nat
          /\ TotalOf(Present \cup {job.ep}) \in Nat /\ Size[job.ep] \in 1..MaxSize /\ MaxSize \in Nat
      BY <1>1, EpisodesOfStored, BytesAreFinite
    <3>2. TotalOf(Present \cup {job.ep}) <= TotalOf(Present) + Size[job.ep]
      BY <1>1, <3>1, OneMore
    <3> QED  BY <1>3, <2>1, <3>1, <3>2
  <2> QED  BY <1>1, <1>2, <1>3, <2>1, <2>2 DEF TotalsCover, FilesAreTracked, RoomIsMade
<1> QED  BY <1>1, <1>3, <1>4 DEF CacheInv

\* and is recorded.
LEMMA RecordDownloadKeeps == CacheInv /\ RecordDownload => CacheInv'
<1> SUFFICES ASSUME CacheInv, RecordDownload PROVE CacheInv'
  OBVIOUS
<1>1. /\ CacheTypes /\ JobTypes /\ job.pc = "record" /\ job.ep \in Stored
      /\ metadata' = [order |-> Touched(metadata.order, job.ep),
                      total |-> metadata.total + Size[job.ep]]
      /\ saved' \in {metadata', saved} /\ job' = NoJob /\ UNCHANGED <<files, excused>>
      /\ IsMetadata(metadata) /\ IsMetadata(saved)
  BY DEF RecordDownload, SaveMetadata, CacheInv, CacheTypes, JobTypes, NoJob
<1>2. JobTypes' /\ job'.pc = "none"
  BY <1>1, NoJobLeft
<1>3. /\ metadata'.order = Touched(metadata.order, job.ep) /\ metadata'.order \in Seq(Stored)
      /\ IsInjective(metadata'.order) /\ metadata'.total \in Int
      /\ Tracked' = Tracked \cup {job.ep}
  <2>1. metadata.order \in Seq(Stored) /\ IsInjective(metadata.order) /\ metadata.total \in Int
    BY <1>1 DEF IsMetadata
  <2>2. metadata'.order = Touched(metadata.order, job.ep)
        /\ metadata'.total = metadata.total + Size[job.ep]
    BY <1>1
  <2>3. /\ Touched(metadata.order, job.ep) \in Seq(Stored)
        /\ IsInjective(Touched(metadata.order, job.ep))
        /\ Range(Touched(metadata.order, job.ep)) = Range(metadata.order) \cup {job.ep}
    BY <1>1, <2>1, TouchedIsLast
  <2>4. Size[job.ep] \in Int
    BY <1>1, CacheAssumption
  <2> QED  BY <2>1, <2>2, <2>3, <2>4 DEF Tracked
<1>4. IsMetadata(metadata') /\ CacheTypes' /\ Present' = Present
  <2>1. metadata' = [order |-> metadata'.order, total |-> metadata'.total]
    BY <1>1
  <2>2. IsMetadata(metadata')
    BY <1>3, <2>1 DEF IsMetadata
  <2>3. IsMetadata(saved')
    BY <1>1, <2>2
  <2> QED  BY <1>1, <1>2, <2>2, <2>3 DEF CacheTypes, Present
<1>5. ASSUME ~excused
      PROVE  TotalsCover' /\ FilesAreTracked' /\ RoomIsMade' /\ TotalOf(Present) <= MaxSize
  <2>1. TotalsCover /\ FilesAreTracked /\ TotalOf(Present) <= MaxSize
    BY <1>5 DEF CacheInv
  <2>2. TotalOf(Range(metadata'.order)) <= metadata'.total
    BY <1>1, <2>1, RecordIsSound DEF TotalsCover, Tracked
  <2>3. TotalsCover'
    BY <1>1, <2>1, <2>2 DEF TotalsCover, Tracked
  <2> QED  BY <1>1, <1>2, <1>3, <1>4, <2>1, <2>3 DEF FilesAreTracked, RoomIsMade
<1> QED  BY <1>1, <1>4, <1>5 DEF CacheInv

\* So do an eviction by call,
LEMMA EvictEpisodeKeeps ==
  ASSUME CacheInv, NEW e \in Stored, NEW ok \in BOOLEAN, EvictEpisode(e, ok)
  PROVE  CacheInv'
<1>1. /\ CacheTypes /\ JobTypes /\ job = NoJob /\ e \in Tracked /\ job' = job
      /\ excused \in BOOLEAN /\ IsMetadata(metadata) /\ IsMetadata(saved)
      /\ files' = Without(files, IF ok THEN {e} ELSE {})
      /\ excused' = (excused \/ (~ok /\ files[e] # "absent"))
  BY DEF EvictEpisode, Unlink, CacheInv, CacheTypes
<1>2. job.pc = "none" /\ JobTypes'
  BY <1>1 DEF NoJob, JobTypes
<1>3. IF ok \/ files[e] = "absent"
      THEN metadata' = Forget(metadata, e) /\ saved' \in {metadata', saved}
      ELSE metadata' = metadata /\ saved' = saved
  BY DEF EvictEpisode, SaveMetadata
<1>4. IsMetadata(metadata') /\ IsMetadata(saved')
  BY <1>1, <1>3, ForgetIsSound
<1>5. CacheTypes'
  <2>1. files' \in [Stored -> {"absent", "whole", "unsized", "hollow"}]
    BY <1>1 DEF CacheTypes, Without
  <2> QED  BY <1>1, <1>2, <1>4, <2>1 DEF CacheTypes
<1>6. ASSUME ~excused'
      PROVE  TotalsCover' /\ FilesAreTracked' /\ RoomIsMade' /\ TotalOf(Present') <= MaxSize
  <2>1. /\ ~excused /\ TotalsCover /\ FilesAreTracked /\ TotalOf(Present) <= MaxSize
        /\ metadata' = Forget(metadata, e) /\ saved' \in {metadata', saved}
    BY <1>1, <1>3, <1>6 DEF CacheInv
  <2>2. /\ Forget(metadata, e).total = metadata.total - Size[e]
        /\ Range(Forget(metadata, e).order) = Range(metadata.order) \ {e}
        /\ e \in Range(metadata.order) =>
             TotalOf(Range(Forget(metadata, e).order)) = TotalOf(Range(metadata.order)) - Size[e]
    BY <1>1, ForgetIsSound
  <2>3. Present' = Present \ {e} /\ Tracked' = Tracked \ {e}
    BY <1>1, <1>6, <2>1, <2>2 DEF Present, CacheTypes, Tracked, Without
  <2>4. TotalsCover'
    <3>1. /\ TotalOf(Tracked) \in Nat /\ Size[e] \in Int /\ metadata.total \in Int
      BY <1>1, EpisodesOfStored DEF IsMetadata
    <3>2. TotalOf(Range(metadata'.order)) <= metadata'.total
      BY <1>1, <2>1, <2>2, <3>1 DEF TotalsCover, Tracked
    <3> QED  BY <2>1, <3>2 DEF TotalsCover, Tracked
  <2>5. TotalOf(Present') <= MaxSize
    <3>1. /\ Present \in SUBSET Stored /\ TotalOf(Present) \in Nat
          /\ TotalOf(Present \ {e}) \in Nat /\ MaxSize \in Nat
      BY <1>1, EpisodesOfStored, BytesAreFinite
    <3>2. TotalOf(Present \ {e}) <= TotalOf(Present)
      BY <3>1, FewerTakeLess
    <3> QED  BY <2>1, <2>3, <3>1, <3>2
  <2>6. FilesAreTracked' /\ RoomIsMade'
    BY <1>1, <1>2, <2>1, <2>3 DEF FilesAreTracked, RoomIsMade
  <2> QED  BY <2>4, <2>5, <2>6
<1> QED  BY <1>1, <1>5, <1>6 DEF CacheInv

\* the clearing of the cache,
LEMMA ClearKeeps ==
  ASSUME CacheInv, NEW stuck \in SUBSET Tracked, ClearEpisodeCache(stuck)
  PROVE  CacheInv'
<1>1. /\ CacheTypes /\ JobTypes /\ job = NoJob /\ job' = job
      /\ excused \in BOOLEAN /\ IsMetadata(saved)
      /\ files' = Without(files, Tracked \ stuck)
      /\ excused' = (excused \/ \E e \in stuck : files[e] # "absent")
      /\ metadata' = [order |-> <<>>, total |-> 0] /\ saved' \in {metadata', saved}
  BY DEF ClearEpisodeCache, SaveMetadata, CacheInv, CacheTypes
<1>2. job.pc = "none" /\ JobTypes'
  BY <1>1 DEF NoJob, JobTypes
<1>3. /\ metadata'.order = <<>> /\ metadata'.total = 0 /\ Range(metadata'.order) = {}
      /\ IsMetadata(metadata') /\ IsMetadata(saved')
  <2>1. <<>> \in Seq(Stored) /\ IsInjective(<<>>) /\ Range(<<>>) = {}
    BY DEF IsInjective, Range
  <2>2. metadata'.order = <<>> /\ metadata'.total = 0
    BY <1>1
  <2>3. metadata' = [order |-> metadata'.order, total |-> metadata'.total]
    BY <1>1, <2>2
  <2>4. IsMetadata(metadata')
    BY <2>1, <2>2, <2>3 DEF IsMetadata
  <2> QED  BY <1>1, <2>1, <2>2, <2>4
<1>4. CacheTypes'
  <2>1. files' \in [Stored -> {"absent", "whole", "unsized", "hollow"}]
    BY <1>1 DEF CacheTypes, Without
  <2>2. excused' \in BOOLEAN
    BY <1>1
  <2> QED  BY <1>2, <1>3, <2>1, <2>2 DEF CacheTypes
<1>5. ASSUME ~excused'
      PROVE  TotalsCover' /\ FilesAreTracked' /\ RoomIsMade' /\ TotalOf(Present') <= MaxSize
  <2>1. ~excused /\ TotalsCover /\ FilesAreTracked /\ \A e \in stuck : files[e] = "absent"
    BY <1>1, <1>5 DEF CacheInv
  <2>2. Present \subseteq Tracked
    BY <1>2, <2>1 DEF FilesAreTracked
  <2>3. Present' = {}
    BY <1>1, <2>1, <2>2 DEF Present, Without
  <2>4. TotalOf(Present') <= MaxSize /\ TotalOf(Range(metadata'.order)) <= metadata'.total
    <3>1. TotalOf(Present') = 0
      BY <2>3, NothingIsEmpty
    <3>2. TotalOf(Range(metadata'.order)) = 0
      BY <1>3, NothingIsEmpty
    <3> QED  BY <1>3, <3>1, <3>2, CacheAssumption
  <2>5. TotalsCover'
    BY <1>1, <2>1, <2>4 DEF TotalsCover, Tracked
  <2> QED  BY <1>1, <1>2, <2>3, <2>4, <2>5 DEF FilesAreTracked, RoomIsMade
<1> QED  BY <1>1, <1>4, <1>5 DEF CacheInv

\* and a start, with the metadata of memory or disk and whatever files it cannot
\* delete.
LEMMA RestartKeeps ==
  ASSUME CacheInv, NEW m \in {metadata, saved}, m = saved \/ job.pc = "none",
         NEW stuck, NEW lost, CacheRestart(m, stuck, lost)
  PROVE  CacheInv'
<1>1. /\ CacheTypes /\ JobTypes /\ excused \in BOOLEAN /\ IsMetadata(m)
      /\ files' = Without([e \in Stored |-> IF e \in lost /\ files[e] # "absent" THEN "hollow"
                                                                           ELSE files[e]],
                          Orphans(m) \ stuck)
      /\ excused' = (excused \/ stuck # {})
      /\ job' = NoJob /\ saved' = m /\ metadata' = m
  BY DEF CacheRestart, CacheInv, CacheTypes
<1>2. JobTypes' /\ job'.pc = "none"
  BY <1>1, NoJobLeft
<1>3. CacheTypes'
  <2>1. files' \in [Stored -> {"absent", "whole", "unsized", "hollow"}]
    BY <1>1 DEF CacheTypes, Without
  <2>2. excused' \in BOOLEAN
    BY <1>1
  <2>3. IsMetadata(metadata') /\ IsMetadata(saved')
    BY <1>1
  <2> QED  BY <1>2, <2>1, <2>2, <2>3 DEF CacheTypes
<1>4. ASSUME ~excused'
      PROVE  TotalsCover' /\ FilesAreTracked' /\ RoomIsMade' /\ TotalOf(Present') <= MaxSize
  <2>1. ~excused /\ stuck = {} /\ TotalsCover /\ TotalOf(Present) <= MaxSize
    BY <1>1, <1>4 DEF CacheInv
  <2>2. Present' = Present \cap Range(m.order) /\ Tracked' = Range(m.order)
    BY <1>1, <2>1 DEF Present, Orphans, Tracked, Without
  <2>3. TotalOf(Range(m.order)) <= m.total
    BY <2>1 DEF TotalsCover, Tracked
  <2>4. TotalOf(Present') <= MaxSize
    <3>1. /\ Present \in SUBSET Stored /\ TotalOf(Present) \in Nat /\ MaxSize \in Nat
          /\ TotalOf(Present \cap Range(m.order)) \in Nat
      BY <1>1, EpisodesOfStored, BytesAreFinite
    <3>2. TotalOf(Present \cap Range(m.order)) <= TotalOf(Present)
      BY <3>1, FewerTakeLess
    <3> QED  BY <2>1, <2>2, <3>1, <3>2
  <2>5. TotalsCover'
    BY <1>1, <2>2, <2>3 DEF TotalsCover
  <2> QED  BY <1>2, <2>2, <2>4, <2>5 DEF FilesAreTracked, RoomIsMade
<1> QED  BY <1>1, <1>3, <1>4 DEF CacheInv

\* The cache stays within its limit, and an episode in it is whole.
LEMMA CacheInvariant == CacheSpec => []CacheInv
<1>1. CacheInv /\ [CacheNext]_cacheVars => CacheInv'
  <2> SUFFICES ASSUME CacheInv, [CacheNext]_cacheVars PROVE CacheInv'
    OBVIOUS
  <2>1. ASSUME NEW e \in Stored, Want(e) PROVE CacheInv'
    BY <2>1, WantKeeps
  <2>2. ASSUME NEW e \in Stored, NEW ok \in BOOLEAN, EvictEpisode(e, ok) PROVE CacheInv'
    BY <2>2, EvictEpisodeKeeps
  <2>3. CASE NoDownload
    BY <2>3, NoDownloadKeeps
  <2>4. ASSUME NEW declared, Answered(declared) PROVE CacheInv'
    BY <2>4, AnsweredKeeps
  <2>5. ASSUME NEW ok \in BOOLEAN, EvictOldest(ok) PROVE CacheInv'
    BY <2>5, EvictOldestKeeps
  <2>6. CASE DownloadFails
    BY <2>6, DownloadFailsKeeps
  <2>7. CASE EvictionSaved
    BY <2>7, EvictionSavedKeeps
  <2>8. CASE WriteChunks
    BY <2>8, WriteChunksKeeps
  <2>9. CASE RenameTemp
    BY <2>9, RenameTempKeeps
  <2>10. CASE RecordDownload
    BY <2>10, RecordDownloadKeeps
  <2>11. ASSUME NEW stuck \in SUBSET Tracked, ClearEpisodeCache(stuck) PROVE CacheInv'
    BY <2>11, ClearKeeps
  <2>12. CASE CacheExit
    <3>1. PICK stuck : CacheRestart(metadata, stuck, {})
      BY <2>12 DEF CacheExit
    <3>2. job.pc = "none"
      BY <2>12 DEF CacheExit, NoJob
    <3> QED  BY <3>1, <3>2, RestartKeeps
  <2>13. CASE CacheCrash
    <3>1. PICK stuck, lost : CacheRestart(saved, stuck, lost)
      BY <2>13 DEF CacheCrash
    <3> QED  BY <3>1, RestartKeeps
  <2>15. ASSUME NEW e \in Stored, WriteBack(e) PROVE CacheInv'
    BY <2>15 DEF WriteBack, CacheInv, CacheTypes, JobTypes, IsMetadata, TotalsCover,
                 FilesAreTracked, RoomIsMade, Present, Tracked
  <2>14. CASE UNCHANGED cacheVars
    BY <2>14 DEF cacheVars, CacheInv, CacheTypes, JobTypes, IsMetadata, TotalsCover,
                 FilesAreTracked, RoomIsMade, Present, Tracked
  <2> QED
    BY <2>1, <2>2, <2>3, <2>4, <2>5, <2>6, <2>7, <2>8, <2>9, <2>10, <2>11, <2>12, <2>13, <2>14, <2>15
       DEF CacheNext
<1> QED  BY <1>1, CacheStarts, PTL DEF CacheSpec

\* The episodes on disk never exceed the configured size, whatever their sizes and
\* however many there are, and what the cache hands out is the whole episode, or
\* what a power cut left of one that was not written back (download_episode, which
\* renames without a sync).
THEOREM CacheIsKept == CacheSpec => [](CacheWithinLimit /\ CachedIsWhole)
<1>1. CacheInv => CacheWithinLimit /\ CachedIsWhole
  BY DEF CacheInv, CacheTypes, CacheWithinLimit, CachedIsWhole, IsCached, Present
<1> QED  BY <1>1, CacheInvariant, PTL

----------------------------------------------------------------------------
(* What is fetched for an hour: every list that is served is whole.           *)

ListsSpec == ListsInit /\ [][ListsNext]_listVars

OfFeed == {"fetch", "openFeed", "writeFeed"}
OfList == {"page", "openLists", "writeLists"}

Pages(u) == {0, PagesOf[u]}

\* Whatever is kept of a list, in memory or in a file that can be read, is all of it.
Kept(c) == c \in [Uris -> Nat] /\ \A u \in Uris : c[u] \in Pages(u)

ListTypes ==
  /\ feedFile \in [Feeds -> Nat \cup {Unreadable}] /\ parsed \in [Feeds -> Nat]
  /\ asked \in [at : {"idle"} \cup OfFeed \cup OfList, list : Feeds \cup Uris \cup {NoList},
                pages : Nat]
  /\ asked.at \in OfFeed => asked.list \in Feeds
  /\ asked.at \in OfList => asked.list \in Uris

\* Pages are kept in memory only when the last of them is there, before the file is
\* written, which is unreadable until it holds the whole cache; the file of a feed is
\* unreadable until it holds all of what it was opened for.
ListsInv ==
  /\ ListTypes
  /\ Kept(cache)
  /\ cacheFile = Unreadable \/ Kept(cacheFile)
  /\ asked.at \in {"openLists", "writeLists"} => cache[asked.list] = PagesOf[asked.list]
  /\ \A f \in Feeds : feedFile[f] \in {parsed[f], Unreadable}
  /\ asked.at = "writeFeed" => asked.pages = parsed[asked.list]
  /\ asked.at # "idle" => served = NotServed
  /\ ServedListsAreWhole

\* What is cached is a whole list, or the request for it failed.
LEMMA ListsInvariant == ListsSpec => []ListsInv
<1> USE ListsAssumption DEF OfFeed, OfList, Pages
<1>1. ListsInit => ListsInv
  BY DEF ListsInit, ListsInv, ListTypes, Kept, ServedListsAreWhole, NotAsked, NotServed
<1>2. ListsInv /\ [ListsNext]_listVars => ListsInv'
  <2> SUFFICES ASSUME ListsInv, [ListsNext]_listVars PROVE ListsInv'
    OBVIOUS
  <2> USE DEF ListsInv, ListTypes, Kept, ServedListsAreWhole
  <2>1. ASSUME NEW f \in Feeds, NEW forceRefresh \in BOOLEAN, AskFeed(f, forceRefresh)
        PROVE  ListsInv'
    BY <2>1 DEF AskFeed, Serve, NotAsked, NotServed
  <2>2. CASE FetchFeed
    <3>1. asked.at = "fetch" /\ asked.list \in Feeds /\ PagesOf[asked.list] \in Nat
      BY <2>2 DEF FetchFeed
    <3>2. PICK n \in 0..PagesOf[asked.list] :
            asked' = [asked EXCEPT !.at = "openFeed", !.pages = n]
      BY <2>2 DEF FetchFeed
    <3>3. n \in Nat
      BY <3>1, <3>2
    <3>4. asked' = [at |-> "openFeed", list |-> asked.list, pages |-> n]
      BY <3>2
    <3>5. /\ asked'.at = "openFeed" /\ asked'.list = asked.list
          /\ asked' \in [at : {"idle"} \cup OfFeed \cup OfList,
                       list : Feeds \cup Uris \cup {NoList}, pages : Nat]
      BY <3>1, <3>3, <3>4
    <3> QED  BY <2>2, <3>1, <3>5 DEF FetchFeed
  <2>3. CASE FetchFeedFails
    BY <2>3 DEF FetchFeedFails, Serve, NotAsked
  <2>4. CASE OpenFeed
    BY <2>4 DEF OpenFeed, ProceedTo
  <2>5. CASE WriteFeed
    BY <2>5 DEF WriteFeed, Serve, NotAsked
  <2>6. ASSUME NEW u \in Uris, AskList(u) PROVE ListsInv'
    BY <2>6 DEF AskList, Serve, NotAsked, NotServed
  <2>7. CASE FetchPage
    BY <2>7 DEF FetchPage
  <2>8. CASE FetchPageFails
    BY <2>8 DEF FetchPageFails, Serve, NotAsked
  <2>9. CASE KeepList
    BY <2>9 DEF KeepList, ProceedTo
  <2>10. CASE OpenLists
    BY <2>10 DEF OpenLists, ProceedTo
  <2>11. CASE WriteLists
    BY <2>11 DEF WriteLists, Serve, NotAsked
  <2>12. ASSUME NEW l \in Feeds \cup Uris, HourPasses(l) PROVE ListsInv'
    BY <2>12 DEF HourPasses
  <2>13. CASE StartAgain
    BY <2>13 DEF StartAgain, NotAsked, NotServed
  <2>14. CASE UNCHANGED listVars
    BY <2>14 DEF listVars
  <2> QED
    BY <2>1, <2>2, <2>3, <2>4, <2>5, <2>6, <2>7, <2>8, <2>9, <2>10, <2>11, <2>12,
       <2>13, <2>14 DEF ListsNext
<1> QED
  BY <1>1, <1>2, PTL DEF ListsSpec

\* A list that is played or shown is whole, a feed as much of it as could be parsed,
\* or the request for it failed in that very call, for any number of feeds and lists
\* of any length: no file that a write or the power left damaged is ever served.
THEOREM DamagedListsAreNeverServed == ListsSpec => []ServedListsAreWhole
BY ListsInvariant, PTL DEF ListsInv
=============================================================================
