----------------------------- MODULE CardSwipe -----------------------------
(***************************************************************************)
(* First and second swipes of a card, as the three backends decide them:   *)
(*   components/playermpd      play_card, decide_swipe (state_store.py)    *)
(*   components/playerpodcast  play_card, play_podcast_series,             *)
(*                             decide_second_swipe (playback_state.py)     *)
(*   components/playerspotify  play_card, decide_spotify_swipe             *)
(* together with what else moves the markers those decisions read: starts  *)
(* from the Web UI, transport commands, hand-offs and reboots.             *)
(*                                                                         *)
(* Every call holds the plugs lock for its whole duration (plugs.call), so *)
(* a call is one step and its hand-off is part of it.  The one piece that  *)
(* is not is the podcast player's stop, which needs the lock its own       *)
(* caller holds and so lands after the call (see PlayerCoordinator).       *)
(***************************************************************************)
EXTENDS Naturals

CONSTANTS
  Folders,        \* content of the MPD player
  Podcasts,       \* content of the podcast player: series and episodes
  Uris,           \* content of the Spotify player
  NoItem,         \* nothing, or an empty marker
  Feed,           \* the series a podcast item belongs to (a series: itself)
  SecondActions,  \* settings of playermpd.second_swipe_action to consider
  PodcastActions, \* settings of playerpodcast.second_swipe_action, likewise
  MaxLateStops    \* bound: no call starts while this many stops are overdue

Items == Folders \union Podcasts \union Uris

ASSUME ItemsAssumption ==
  /\ NoItem \notin Items
  /\ Folders \intersect Podcasts = {}
  /\ Folders \intersect Uris = {}
  /\ Podcasts \intersect Uris = {}
  /\ Feed \in [Podcasts -> Podcasts]
  /\ \A i \in Podcasts : Feed[Feed[i]] = Feed[i]
  /\ SecondActions \subseteq {"none", "toggle", "play", "skip", "rewind", "replay",
                            "replay_if_stopped", "custom"}
  /\ PodcastActions \subseteq {"toggle", "next_episode", "none"}
  /\ MaxLateStops \in Nat \ {0}

VARIABLES
  slot,         \* coordinator.current()
  wire,         \* MPD: what is loaded, and whether it plays
  connect,      \* the Spotify Connect device, likewise
  mpd,          \* MPDStateStore: last_swiped_folder and last_played_folder
  mpdDisk,      \* its status file
  podcast,      \* playback_active, what was started, last_played.feed_url
  spotify,      \* player_status: last_played_uri and last_card_uri
  spotifyDisk,  \* its status file
  lateStops,    \* podcast stops of hand-offs that have yet to land
  origin,       \* history: who started what Spotify last started
  swiped,       \* history: the folder and Spotify cards swiped since boot
  unbound       \* history: the podcast flag is up, and not for what MPD has: its
                \* stop failed, or it went up without the slot being claimed

vars == <<slot, wire, connect, mpd, mpdDisk, podcast, spotify, spotifyDisk,
          lateStops, origin, swiped, unbound>>

history == <<origin, swiped>>
podcasts == <<podcast, unbound>>

(* The settings of the second swipe are an input of each swipe: the code reads *)
(* them on startup, so what it does is among what is modelled.  So is what the *)
(* buffered MPD status says, which the poll may have left behind the player.   *)

Empty == [item |-> NoItem, mode |-> "stop"]
Playing(i) == [item |-> i, mode |-> "play"]
Stopped(p) == [p EXCEPT !.mode = "stop"]
Paused(p) == [p EXCEPT !.mode = IF @ = "play" THEN "pause" ELSE @]
Unpaused(p) == [p EXCEPT !.mode = IF @ = "pause" THEN "play" ELSE @]
Started(p) == [p EXCEPT !.mode = IF p.item = NoItem THEN @ ELSE "play"]

\* MPD's pause command without an argument: nothing happens when stopped.
Toggled(p) == IF p.mode = "play" THEN Paused(p) ELSE Unpaused(p)

Init ==
  /\ slot = "mpd"
  /\ wire = Empty
  /\ connect = Empty
  /\ mpd = [swiped |-> NoItem, played |-> NoItem]
  /\ mpdDisk = mpd
  /\ podcast = [active |-> FALSE, item |-> NoItem, last |-> NoItem]
  /\ spotify = [played |-> NoItem, card |-> NoItem]
  /\ spotifyDisk = spotify
  /\ lateStops = 0
  /\ origin = "none"
  /\ swiped = {}
  /\ unbound = FALSE

-----------------------------------------------------------------------------
(* The hand-off to b, as far as it is done when the call returns: the      *)
(* outgoing backend is paused and stopped, the podcast player only paused. *)

WireAfter(b) ==
  CASE slot = "mpd" /\ b # "mpd" -> Stopped(wire)
    [] slot = "podcast" /\ b # "podcast" -> Paused(wire)
    [] OTHER -> wire

\* pause() and stop() of the Spotify player as hand-off callbacks: each saves
\* the status when the Web API accepts it, and does nothing when it refuses.
LeaveSpotify ==
  \/ connect' \in {Stopped(connect), Paused(connect)} /\ spotifyDisk' = spotify
  \/ UNCHANGED <<connect, spotifyDisk>>

Activate(b) ==
  /\ slot' = b
  /\ lateStops' = IF slot = "podcast" /\ b # "podcast"
                    THEN lateStops + 1 ELSE lateStops

\* Activate for a backend that leaves the Connect device alone.
TakeOver(b) ==
  /\ Activate(b)
  /\ IF slot = "spotify" /\ b # "spotify"
       THEN LeaveSpotify ELSE UNCHANGED <<connect, spotifyDisk>>

CallAllowed == lateStops < MaxLateStops

-----------------------------------------------------------------------------
(* The podcast player's flag and its episodes *)

DropFlag ==
  /\ podcast' = [podcast EXCEPT !.active = FALSE]
  /\ unbound' = FALSE

EpisodeStarts(j, bound) ==
  /\ wire' = Playing(j)
  /\ podcast' = [active |-> TRUE, item |-> j, last |-> Feed[j]]
  /\ unbound' = ~bound

\* A feed may not be fetched, or have nothing to go to; and MPD may refuse what
\* it is asked to play, after it cleared its queue.
PodcastOutcomes == {"ok", "noFeed", "refused"}

\* _play_episode_from_queue with another episode of the feed, if there is one;
\* kept is what MPD does otherwise.
AnotherEpisode(outcome, kept, bound) ==
  \/ outcome = "noFeed" /\ wire' = kept /\ UNCHANGED podcasts
  \/ /\ podcast.item # NoItem
     /\ \/ outcome = "refused" /\ wire' = Empty /\ UNCHANGED podcasts
        \/ outcome = "ok" /\ \E j \in Podcasts :
             Feed[j] = Feed[podcast.item] /\ EpisodeStarts(j, bound)

\* next and prev of the podcast player claim the slot first, and
NeighbourEpisode(outcome) ==
  /\ TakeOver("podcast")
  /\ AnotherEpisode(outcome, WireAfter("podcast"), TRUE)

\* _next_episode, on its own, does not.
NextEpisode(outcome) ==
  /\ AnotherEpisode(outcome, wire, slot = "podcast")
  /\ UNCHANGED <<slot, connect, spotifyDisk, lateStops>>

-----------------------------------------------------------------------------
(* MPD *)

\* play_folder with the markers in store: record, save, activate, play.
PlayFolder(f, store) ==
  /\ mpd' = [store EXCEPT !.played = f]
  /\ mpdDisk' = mpd'
  /\ TakeOver("mpd")
  /\ wire' = Playing(f)
  /\ UNCHANGED podcasts

\* next and prev, which ask is_podcast_active: it says no, and drops the flag,
\* when the buffer shows anything but a file of the episode cache.
Skip ==
  \/ podcast.active /\ \E outcome \in PodcastOutcomes : NeighbourEpisode(outcome)
  \/ /\ DropFlag
     /\ wire' \in {wire, Stopped(wire), Started(wire)}
     /\ UNCHANGED <<slot, connect, spotifyDisk, lateStops>>

\* play, which claims the slot.
Play ==
  /\ TakeOver("mpd")
  /\ wire' = Started(WireAfter("mpd"))
  /\ UNCHANGED podcasts

\* decide_swipe
IsSecondFolder(f) == mpd.swiped = f

\* The second_swipe_action.  A custom one is a call of its own, by the same
\* thread: what it does to the players is the next step, if it is one of these.
SecondFolder(action, store) ==
  \/ action \in {"replay", "replay_if_stopped"} /\ PlayFolder(store.played, store)
  \/ /\ mpd' = store
     /\ UNCHANGED mpdDisk
     /\ \/ action = "play" /\ Play
        \/ action = "skip" /\ Skip
        \/ /\ action \in {"toggle", "rewind", "replay_if_stopped", "custom"}
           /\ wire' = CASE action = "toggle" -> Toggled(wire)
                        [] action = "rewind" -> Started(wire)
                        [] OTHER -> wire
           /\ UNCHANGED <<slot, connect, spotifyDisk, lateStops, podcasts>>

\* play_card stamps the swipe marker before it dispatches.  The swipe comes to
\* "none" when it is the first one, or when no second-swipe action is set.
SwipeFolder(f, action) ==
  LET store == [mpd EXCEPT !.swiped = f] IN
  /\ CallAllowed
  /\ swiped' = swiped \union {f}
  /\ \/ action = "none" /\ PlayFolder(f, store)
     \/ IsSecondFolder(f) /\ SecondFolder(action, store)
  /\ UNCHANGED <<spotify, origin>>

WebFolder(f) ==
  /\ CallAllowed
  /\ PlayFolder(f, mpd)
  /\ UNCHANGED <<spotify, history>>

-----------------------------------------------------------------------------
(* Podcasts *)

IsSeries(i) == Feed[i] = i

\* decide_second_swipe: a series matches on its feed, an episode on itself.
\* stopped is what the buffered status says of MPD.
Retap(i, stopped) ==
  IF /\ podcast.active
     /\ Feed[podcast.item] = Feed[i]
     /\ IsSeries(i) \/ podcast.item = i
    THEN IF stopped THEN "clear" ELSE "invoke"
    ELSE "fresh"

Retaps(i) == {Retap(i, stopped) : stopped \in BOOLEAN}

\* _toggle_playback
TogglePodcast ==
  /\ TakeOver("podcast")
  /\ wire' = Toggled(WireAfter("podcast"))
  /\ UNCHANGED podcasts

\* The second_swipe_action: only the default claims the slot.
SecondPodcast(action, outcome) ==
  \/ action = "toggle" /\ outcome = "ok" /\ TogglePodcast
  \/ action = "next_episode" /\ NextEpisode(outcome)
  \/ /\ action = "none" /\ outcome = "ok"
     /\ UNCHANGED <<slot, wire, connect, spotifyDisk, lateStops, podcasts>>

\* play_podcast_series, play_podcast_episode, which come to "start" or to the
\* action of a second swipe.
StartPodcast(i, retap, outcome, action) ==
  \/ retap = "invoke" /\ SecondPodcast(action, outcome)
  \/ /\ retap # "invoke"
     /\ action = "start"
     /\ \/ /\ outcome = "noFeed"
           /\ UNCHANGED <<slot, wire, connect, spotifyDisk, lateStops>>
        \/ outcome = "refused" /\ TakeOver("podcast") /\ wire' = Empty
     /\ IF retap = "clear" THEN DropFlag ELSE UNCHANGED podcasts
  \/ /\ retap # "invoke"
     /\ action = "start"
     /\ outcome = "ok"
     /\ TakeOver("podcast")
     /\ EpisodeStarts(i, TRUE)

PodcastSteps == PodcastActions \union {"start"}

\* play_card: a second swipe iff the persisted last feed is this one's.
SwipePodcast(i, outcome, action) ==
  /\ CallAllowed
  /\ UNCHANGED <<mpd, mpdDisk, spotify, history>>
  /\ IF podcast.last = Feed[i]
       THEN SecondPodcast(action, outcome)
       ELSE \E retap \in Retaps(i) : StartPodcast(i, retap, outcome, action)

\* The same from the Web UI, or from a card of the play_podcast_series alias.
TapPodcast(i, retap, outcome, action) ==
  /\ CallAllowed
  /\ UNCHANGED <<mpd, mpdDisk, spotify, history>>
  /\ StartPodcast(i, retap, outcome, action)

\* Variant: the stop of a hand-off stops MPD but never takes the flag down.
LateStopKeepsFlag ==
  /\ lateStops > 0
  /\ lateStops' = lateStops - 1
  /\ wire' = Stopped(wire)
  /\ UNCHANGED <<slot, connect, mpd, mpdDisk, spotify, spotifyDisk, history, podcasts>>

\* The stop of a hand-off away from the podcast player lands.  It swallows the
\* exception of an MPD that refuses, and then leaves the flag up.
LateStop ==
  /\ lateStops > 0
  /\ lateStops' = lateStops - 1
  /\ \/ wire' = Stopped(wire) /\ DropFlag
     \/ UNCHANGED <<wire, podcast>> /\ unbound' = podcast.active
  /\ UNCHANGED <<slot, connect, mpd, mpdDisk, spotify, spotifyDisk, history>>

-----------------------------------------------------------------------------
(* Spotify *)

\* play_content with the markers in store.  The device may be missing, which
\* is found out before activate(); a playlist may not resolve, after it.
PlayContent(u, store, outcome) ==
  \/ /\ outcome = "noDevice"
     /\ spotify' = store
     /\ UNCHANGED <<slot, wire, connect, spotifyDisk, lateStops>>
  \/ /\ outcome = "unresolved"
     /\ spotify' = store
     /\ Activate("spotify")
     /\ wire' = WireAfter("spotify")
     /\ UNCHANGED <<connect, spotifyDisk>>
  \/ /\ outcome = "ok"
     /\ spotify' = [store EXCEPT !.played = u]
     /\ spotifyDisk' = spotify'
     /\ Activate("spotify")
     /\ wire' = WireAfter("spotify")
     /\ connect' = Playing(u)

ContentOutcomes == {"ok", "noDevice", "unresolved"}

\* Variant: without the comparison with what was played last.
IsSecondUriAny(u) == slot = "spotify" /\ spotify.card = u

\* decide_spotify_swipe
IsSecondUri(u) == spotify.played = u /\ slot = "spotify" /\ spotify.card = u

\* toggle, which is only reached with Spotify active: pause or play, saved.
ToggleSpotify(store) ==
  /\ connect' = IF connect.mode = "play" THEN Paused(connect) ELSE Started(connect)
  /\ spotify' = store
  /\ spotifyDisk' = IF connect.item = NoItem THEN spotifyDisk ELSE store
  /\ Activate("spotify")
  /\ wire' = WireAfter("spotify")
  /\ UNCHANGED origin

\* Variant: the card marker is stamped by a second swipe only.
SwipeUriUnstamped(u, outcome) ==
  /\ CallAllowed
  /\ \/ IsSecondUri(u) /\ outcome = "ok" /\ ToggleSpotify([spotify EXCEPT !.card = u])
     \/ /\ ~IsSecondUri(u)
        /\ PlayContent(u, spotify, outcome)
        /\ origin' = IF outcome = "ok" THEN "card" ELSE origin
  /\ swiped' = swiped \union {u}
  /\ UNCHANGED <<mpd, mpdDisk, podcasts>>

\* play_card
SwipeUri(u, outcome) ==
  LET store == [spotify EXCEPT !.card = u] IN
  /\ CallAllowed
  /\ swiped' = swiped \union {u}
  /\ \/ IsSecondUri(u) /\ outcome = "ok" /\ ToggleSpotify(store)
     \/ /\ IsSecondUri(u) /\ outcome = "noDevice"
        /\ spotify' = store
        /\ UNCHANGED <<slot, wire, connect, spotifyDisk, lateStops, origin>>
     \/ /\ ~IsSecondUri(u)
        /\ PlayContent(u, store, outcome)
        /\ origin' = IF outcome = "ok" THEN "card" ELSE origin
  /\ UNCHANGED <<mpd, mpdDisk, podcasts>>

WebUri(u, outcome) ==
  /\ CallAllowed
  /\ PlayContent(u, spotify, outcome)
  /\ origin' = IF outcome = "ok" THEN "web" ELSE origin
  /\ UNCHANGED <<mpd, mpdDisk, podcasts, swiped>>

-----------------------------------------------------------------------------
(* Transport commands, the end of the queue, and reboots *)

\* MPD's pause, toggle and stop do not touch the slot, play does.
PauseMPD ==
  /\ CallAllowed
  /\ wire' \in {Paused(wire), Unpaused(wire), Stopped(wire)}
  /\ UNCHANGED <<slot, connect, mpd, mpdDisk, podcasts, spotify, spotifyDisk,
                 lateStops, history>>

PlayMPD ==
  /\ CallAllowed
  /\ Play
  /\ UNCHANGED <<mpd, mpdDisk, spotify, history>>

SkipMPD ==
  /\ CallAllowed
  /\ Skip
  /\ UNCHANGED <<mpd, mpdDisk, spotify, history>>

\* The podcast player's pause, play, next and prev claim the slot, its stop does
\* not; the stop swallows the exception of an MPD that refuses.
PausePodcast ==
  /\ CallAllowed
  /\ TakeOver("podcast")
  /\ wire' \in {Paused(WireAfter("podcast")), Unpaused(WireAfter("podcast"))}
  /\ UNCHANGED <<mpd, mpdDisk, podcasts, spotify, history>>

SkipPodcast ==
  /\ CallAllowed
  /\ \E outcome \in PodcastOutcomes : NeighbourEpisode(outcome)
  /\ UNCHANGED <<mpd, mpdDisk, spotify, history>>

StopPodcast ==
  /\ CallAllowed
  /\ \/ wire' = Stopped(wire) /\ DropFlag
     \/ UNCHANGED <<wire, podcasts>>
  /\ UNCHANGED <<slot, connect, mpd, mpdDisk, spotify, spotifyDisk, lateStops,
                 history>>

\* Spotify's pause, stop, next and prev leave the slot alone; next, prev and
\* pause(0) start a device that has something loaded.  Skips do not save.
ControlSpotify ==
  /\ CallAllowed
  /\ connect' \in {Paused(connect), Stopped(connect), Started(connect)}
  /\ spotifyDisk' \in {spotify} \union
       (IF connect' = Started(connect) THEN {spotifyDisk} ELSE {})
  /\ UNCHANGED <<slot, wire, mpd, mpdDisk, podcasts, spotify, lateStops, history>>

\* play() activates before the Web API is asked, which may refuse.
PlaySpotify ==
  /\ CallAllowed
  /\ Activate("spotify")
  /\ wire' = WireAfter("spotify")
  /\ \/ connect' = Started(connect) /\ spotifyDisk' = spotify
     \/ UNCHANGED <<connect, spotifyDisk>>
  /\ UNCHANGED <<mpd, mpdDisk, podcasts, spotify, history>>

QueueEnds ==
  /\ \/ wire.mode = "play" /\ wire' = Stopped(wire) /\ UNCHANGED connect
     \/ connect.mode = "play" /\ connect' = Stopped(connect) /\ UNCHANGED wire
  /\ UNCHANGED <<slot, mpd, mpdDisk, podcasts, spotify, spotifyDisk, lateStops, history>>

\* Variant: the swipe marker is not cleared on startup.
RebootKeepsMarker ==
  /\ slot' = "mpd"
  /\ mpd' \in {mpdDisk, mpd}
  /\ mpdDisk' = mpd'
  /\ wire' = Empty
  /\ connect' = Empty
  /\ podcast' = [podcast EXCEPT !.active = FALSE, !.item = NoItem]
  /\ spotify' \in {spotifyDisk, spotify}
  /\ spotifyDisk' = spotify'
  /\ lateStops' = 0
  /\ origin' = "none"
  /\ swiped' = {}
  /\ unbound' = FALSE

\* The daemon or the machine restarts.  A crash leaves what was saved last, an
\* orderly exit saves once more; the podcast state is on disk after every
\* change.  Startup clears MPD's swipe marker, and its queue if a folder was
\* ever played; apart from that the devices may have gone on without us.
Reboot ==
  /\ slot' = "mpd"
  /\ \E saved \in {mpdDisk, mpd} :
       /\ mpdDisk' = saved
       /\ mpd' = [saved EXCEPT !.swiped = NoItem]
       /\ wire' \in IF saved.played = NoItem THEN {Empty, wire} ELSE {Empty}
  /\ connect' \in {Empty, connect}
  /\ podcast' = [podcast EXCEPT !.active = FALSE, !.item = NoItem]
  /\ \E saved \in {spotifyDisk, spotify} : spotifyDisk' = saved /\ spotify' = saved
  /\ lateStops' = 0
  /\ origin' = "none"
  /\ swiped' = {}
  /\ unbound' = FALSE

Backends == {"mpd", "podcast", "spotify"}

Next ==
  \/ \E f \in Folders : WebFolder(f) \/ \E a \in SecondActions : SwipeFolder(f, a)
  \/ \E i \in Podcasts, o \in PodcastOutcomes, a \in PodcastSteps :
       SwipePodcast(i, o, a) \/ \E retap \in Retaps(i) : TapPodcast(i, retap, o, a)
  \/ \E u \in Uris, o \in ContentOutcomes : SwipeUri(u, o) \/ WebUri(u, o)
  \/ PauseMPD \/ PlayMPD \/ SkipMPD
  \/ PausePodcast \/ SkipPodcast \/ StopPodcast
  \/ ControlSpotify \/ PlaySpotify
  \/ LateStop
  \/ QueueEnds
  \/ Reboot

Spec == Init /\ [][Next]_vars

-----------------------------------------------------------------------------

PlayerState == [item : Items \union {NoItem}, mode : {"stop", "pause", "play"}]

TypeOK ==
  /\ slot \in Backends
  /\ wire \in PlayerState
  /\ connect \in PlayerState
  /\ {mpd, mpdDisk} \subseteq [swiped : Folders \union {NoItem},
                               played : Folders \union {NoItem}]
  /\ podcast \in [active : BOOLEAN, item : Podcasts \union {NoItem},
                  last : Podcasts \union {NoItem}]
  /\ podcast.active => podcast.item # NoItem
  /\ {spotify, spotifyDisk} \subseteq [played : Uris \union {NoItem},
                                       card : Uris \union {NoItem}]
  /\ lateStops \in 0..MaxLateStops
  /\ origin \in {"none", "card", "web"}
  /\ swiped \subseteq Folders \union Uris
  /\ unbound \in BOOLEAN

\* Whatever was started from the Web UI in between, and whatever other cards
\* were swiped, a Spotify swipe that succeeds ends with that card's own content
\* on the Connect device: a second-swipe action never acts on something else
\* (SPEC.md 3.5).  Only as long as Spotify has started nothing since boot may
\* the persisted markers speak of content the device no longer has.
UriSwipeSelectsItsCard ==
  [][ \A u \in Uris : origin # "none" /\ SwipeUri(u, "ok") => connect'.item = u ]_vars

\* A tap of a podcast series selects that series, whichever second-swipe action is
\* set: the flag decide_second_swipe trusts speaks of what MPD has, through every
\* hand-off, skip and refused start.  Not while the stop of a hand-off is overdue,
\* nor when that stop failed or the flag went up without the slot (unbound), nor
\* when the buffered status has yet to follow MPD.
SeriesTapSelectsItsFeed ==
  [][ lateStops = 0 /\ ~unbound =>
        \A i \in Podcasts, a \in PodcastSteps :
          IsSeries(i) /\ TapPodcast(i, Retap(i, wire.mode = "stop"), "ok", a)
            => wire'.item \in Podcasts /\ Feed[wire'.item] = i ]_vars

\* The second of two swipes of a Spotify card is taken for one, and so pauses
\* what the first started: as long as that plays and Spotify has the slot, no
\* detour over other players, failed starts and commands lets the markers drift.
SecondUriSwipeIsRecognised ==
  \A u \in Uris :
    /\ swiped \intersect Uris = {u} /\ origin = "card"
    /\ slot = "spotify" /\ connect = Playing(u)
    => IsSecondUri(u)

\* What a swipe can come to that need not claim the slot: second swipes that leave
\* it to whoever owns it, or, with skip, give it to a podcast that is under way.
LeavesSlot == {"toggle", "skip", "rewind", "replay_if_stopped", "custom"}

\* The first swipe of a folder since boot plays it, whatever was playing and
\* whatever the status file says about the swipes before.  And "a card swipe that
\* routes to a specific backend makes that backend active" (SPEC.md 4.4), whichever
\* decision the swipe comes to, but for second swipes with one of those settings,
\* or with next_episode or none of the podcast player: a first swipe never leaves
\* the slot to another backend, nor does a second one with play or replay, or with
\* the podcast player's default, toggle.
SwipesTakeEffect ==
  [][ /\ swiped \intersect Folders = {} =>
           \A f \in Folders, a \in SecondActions : SwipeFolder(f, a) => wire' = Playing(f)
      /\ slot' # "mpd" =>
           \A f \in Folders, a \in SecondActions \ LeavesSlot : ~SwipeFolder(f, a)
      /\ slot' # "podcast" =>
           \A i \in Podcasts, a \in PodcastSteps :
             SwipePodcast(i, "ok", a)
               => podcast.last = Feed[i] /\ a \in {"next_episode", "none"}
      /\ slot' # "spotify" => \A u \in Uris : ~SwipeUri(u, "ok") ]_vars

\* The markers mean what the decisions take them for, and keep their types.
SwipeInv == TypeOK /\ SecondUriSwipeIsRecognised
=============================================================================
