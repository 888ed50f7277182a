-------------------------- MODULE CardSwipe_proofs ---------------------------
(***************************************************************************)
(* Proofs about first and second swipes, for any folders, podcasts and     *)
(* Spotify content, any feeds and any number of overdue stops.             *)
(***************************************************************************)
EXTENDS CardSwipe, TLAPS

FolderMarkers == [swiped : Folders \union {NoItem}, played : Folders \union {NoItem}]
UriMarkers == [played : Uris \union {NoItem}, card : Uris \union {NoItem}]
PodcastMarkers == [active : BOOLEAN, item : Podcasts \union {NoItem},
                   last : Podcasts \union {NoItem}]

\* TypeOK, variable by variable.
SwipeTypes ==
  /\ slot \in Backends /\ unbound \in BOOLEAN
  /\ wire \in PlayerState /\ connect \in PlayerState
  /\ mpd \in FolderMarkers /\ mpdDisk \in FolderMarkers
  /\ podcast \in PodcastMarkers /\ (podcast.active => podcast.item # NoItem)
  /\ spotify \in UriMarkers /\ spotifyDisk \in UriMarkers
  /\ lateStops \in 0..MaxLateStops
  /\ origin \in {"none", "card", "web"}
  /\ swiped \subseteq Folders \union Uris

\* A marker in memory names a card that was swiped since boot.
SwipesAreMarked ==
  /\ mpd.swiped # NoItem => mpd.swiped \in swiped
  /\ swiped \intersect Uris # {} => spotify.card \in swiped

\* What Spotify started last since boot is what the device has.
DeviceHasWhatWasPlayed ==
  origin # "none" => spotify.played \in Uris /\ connect.item = spotify.played

\* While the flag is up, for what MPD has and with no stop overdue, the podcast
\* player owns MPD: its queue is empty or holds the feed that was started.
FlagMeansFeed ==
  podcast.active /\ lateStops = 0 /\ ~unbound =>
    /\ slot = "podcast"
    /\ \/ wire = Empty
       \/ wire.item \in Podcasts /\ Feed[wire.item] = Feed[podcast.item]

\* The persisted feed is that of the item in memory, if there is one.
LastIsOfItem == podcast.item # NoItem => podcast.last = Feed[podcast.item]

SwipeIInv ==
  SwipeTypes /\ SwipesAreMarked /\ DeviceHasWhatWasPlayed /\ FlagMeansFeed /\ LastIsOfItem

----------------------------------------------------------------------------
(* The helpers.                                                               *)

\* Transport commands keep what is loaded.
LEMMA CommandsKeepTheItem ==
  ASSUME NEW p \in PlayerState
  PROVE  /\ \A q \in {Stopped(p), Paused(p), Unpaused(p), Started(p), Toggled(p)} :
              q \in PlayerState /\ q.item = p.item
         /\ \A q \in {Stopped(p), Paused(p), Unpaused(p), Started(p), Toggled(p)} :
              p = Empty => q = Empty
         /\ Empty \in PlayerState /\ \A i \in Items : Playing(i) \in PlayerState
BY DEF PlayerState, Stopped, Paused, Unpaused, Started, Toggled, Empty, Playing

\* A hand-off pauses or empties the outgoing backend; it never changes what is
\* loaded.
LEMMA HandoffKeepsTheItem ==
  ASSUME wire \in PlayerState, NEW b
  PROVE  /\ WireAfter(b) \in PlayerState /\ WireAfter(b).item = wire.item
         /\ wire = Empty => WireAfter(b) = Empty
BY CommandsKeepTheItem DEF WireAfter

\* A hand-off adds at most one overdue stop, and one whenever podcasts lose the slot.
LEMMA HandingOver ==
  ASSUME SwipeTypes, CallAllowed, NEW b \in Backends, Activate(b)
  PROVE  /\ slot' = b /\ lateStops' \in 0..MaxLateStops
         /\ lateStops' >= lateStops
         /\ lateStops' = 0 => slot # "podcast" \/ b = "podcast"
BY ItemsAssumption DEF SwipeTypes, CallAllowed, Activate

\* activate() gives the slot to its backend, and a stop of the podcast can still come
\* late only after it.
LEMMA TakingOver ==
  ASSUME SwipeTypes, CallAllowed, NEW b \in Backends, TakeOver(b)
  PROVE  /\ slot' = b /\ lateStops' \in 0..MaxLateStops
         /\ lateStops' >= lateStops
         /\ lateStops' = 0 => slot # "podcast" \/ b = "podcast"
         /\ connect' \in PlayerState /\ connect'.item = connect.item
         /\ spotifyDisk' \in UriMarkers
<1>1. connect' \in {Stopped(connect), Paused(connect), connect}
      /\ spotifyDisk' \in {spotify, spotifyDisk}
  BY DEF TakeOver, LeaveSpotify
<1>2. connect' \in PlayerState /\ connect'.item = connect.item
  BY <1>1, CommandsKeepTheItem DEF SwipeTypes
<1>3. spotifyDisk' \in UriMarkers
  BY <1>1 DEF SwipeTypes
<1> QED  BY <1>2, <1>3, HandingOver DEF TakeOver

----------------------------------------------------------------------------
(* The steps.                                                                 *)

\* What a step that is not Spotify's may do to the swipe markers,
Stamps ==
  /\ mpd' \in FolderMarkers /\ mpdDisk' \in FolderMarkers
  /\ mpd'.swiped # NoItem => mpd'.swiped \in swiped'
  /\ swiped \subseteq swiped' /\ swiped' \subseteq Folders \union Uris
  /\ swiped' \intersect Uris = swiped \intersect Uris
  /\ UNCHANGED <<spotify, origin>>

\* and to the podcast flag.
Flags ==
  \/ podcast' = podcast /\ unbound' \in BOOLEAN
  \/ DropFlag
  \/ \E i \in Podcasts, bound \in BOOLEAN : EpisodeStarts(i, bound)

\* Steps that leave the markers alone are among them.
LEMMA NoStamp ==
  ASSUME SwipeIInv, UNCHANGED <<mpd, mpdDisk, spotify, history>>
  PROVE  Stamps
BY DEF Stamps, SwipeIInv, SwipeTypes, SwipesAreMarked, history

\* The flag keeps its type, and the feed of what was started.
LEMMA FlagChanges ==
  ASSUME SwipeIInv, Flags
  PROVE  /\ podcast' \in PodcastMarkers /\ (podcast'.active => podcast'.item # NoItem)
         /\ unbound' \in BOOLEAN /\ LastIsOfItem'
<1>1. CASE podcast' = podcast /\ unbound' \in BOOLEAN
  BY <1>1 DEF SwipeIInv, SwipeTypes, LastIsOfItem
<1>2. CASE DropFlag
  <2>1. podcast' = [podcast EXCEPT !.active = FALSE] /\ unbound' = FALSE
    BY <1>2 DEF DropFlag
  <2>2. podcast' \in PodcastMarkers /\ ~podcast'.active
        /\ podcast'.item = podcast.item /\ podcast'.last = podcast.last
    BY <2>1 DEF SwipeIInv, SwipeTypes, PodcastMarkers
  <2> QED  BY <2>1, <2>2 DEF SwipeIInv, LastIsOfItem
<1>3. ASSUME NEW i \in Podcasts, NEW bound \in BOOLEAN, EpisodeStarts(i, bound)
      PROVE  /\ podcast' \in PodcastMarkers /\ (podcast'.active => podcast'.item # NoItem)
             /\ unbound' \in BOOLEAN /\ LastIsOfItem'
  <2>1. podcast' = [active |-> TRUE, item |-> i, last |-> Feed[i]] /\ unbound' = ~bound
    BY <1>3 DEF EpisodeStarts
  <2>2. i # NoItem /\ Feed[i] \in Podcasts
    BY ItemsAssumption DEF Items
  <2> QED  BY <2>1, <2>2 DEF PodcastMarkers, LastIsOfItem
<1> QED  BY <1>1, <1>2, <1>3 DEF Flags

\* Such a step keeps the invariant, if it leaves the flag with its meaning.
LEMMA PlayerStep ==
  ASSUME SwipeIInv, Stamps, Flags, wire' \in PlayerState,
         \/ CallAllowed /\ \E b \in {"mpd", "podcast"} : TakeOver(b)
         \/ slot' = slot /\ lateStops' \in 0..MaxLateStops /\ UNCHANGED <<connect, spotifyDisk>>,
         FlagMeansFeed'
  PROVE  SwipeIInv'
<1>1. {"mpd", "podcast"} \subseteq Backends
  BY DEF Backends
<1>2. /\ slot' \in Backends /\ lateStops' \in 0..MaxLateStops
      /\ connect' \in PlayerState /\ connect'.item = connect.item
      /\ spotifyDisk' \in UriMarkers
  BY <1>1, TakingOver DEF SwipeIInv, SwipeTypes
<1>3. SwipeTypes'
  BY <1>2, FlagChanges DEF SwipeIInv, SwipeTypes, Stamps
<1>4. SwipesAreMarked'
  BY DEF SwipeIInv, SwipesAreMarked, Stamps
<1>5. DeviceHasWhatWasPlayed'
  BY <1>2 DEF SwipeIInv, DeviceHasWhatWasPlayed, Stamps
<1> QED  BY <1>3, <1>4, <1>5, FlagChanges DEF SwipeIInv

\* Taking the slot for podcasts leaves the feed in MPD's queue, if the flag is up,
LEMMA PodcastKeepsTheFeed ==
  ASSUME SwipeIInv, CallAllowed, TakeOver("podcast"), UNCHANGED podcasts,
         wire' = Empty \/ (wire'.item = wire.item /\ (wire = Empty => wire' = Empty))
  PROVE  FlagMeansFeed'
<1>1. slot' = "podcast" /\ lateStops' >= lateStops /\ lateStops' \in 0..MaxLateStops
  BY TakingOver DEF SwipeIInv, Backends
<1>2. lateStops' = 0 => lateStops = 0
  BY <1>1 DEF SwipeIInv, SwipeTypes
<1> QED  BY <1>1, <1>2 DEF SwipeIInv, FlagMeansFeed, podcasts

\* taking it for MPD leaves a stop of the podcast overdue, if the flag was up,
LEMMA MPDTakesOver ==
  ASSUME SwipeIInv, Stamps, CallAllowed, TakeOver("mpd"), UNCHANGED podcasts,
         wire' \in PlayerState
  PROVE  SwipeIInv'
<1>1. /\ lateStops' >= lateStops /\ lateStops' \in 0..MaxLateStops
      /\ lateStops' = 0 => slot # "podcast"
  BY TakingOver DEF SwipeIInv, Backends
<1>2. lateStops' = 0 => lateStops = 0
  BY <1>1 DEF SwipeIInv, SwipeTypes
<1>3. FlagMeansFeed'
  BY <1>1, <1>2 DEF SwipeIInv, FlagMeansFeed, podcasts
<1>4. Flags
  BY DEF Flags, podcasts, SwipeIInv, SwipeTypes
<1> QED  BY <1>3, <1>4, PlayerStep

\* and commands that leave both the slot and what MPD has loaded leave it too.
LEMMA WireCommands ==
  ASSUME SwipeIInv, Stamps, UNCHANGED <<slot, connect, spotifyDisk>>,
         lateStops' \in 0..MaxLateStops,
         wire' \in {wire, Paused(wire), Unpaused(wire), Stopped(wire), Started(wire),
                    Toggled(wire)},
         \/ UNCHANGED <<podcasts, lateStops>>
         \/ podcast' = podcast /\ unbound' = podcast.active
         \/ DropFlag
  PROVE  SwipeIInv'
<1>1. /\ wire' \in PlayerState /\ wire'.item = wire.item
      /\ wire = Empty => wire' = Empty
  BY CommandsKeepTheItem DEF SwipeIInv, SwipeTypes
<1>2. Flags
  BY DEF Flags, podcasts, SwipeIInv, SwipeTypes, PodcastMarkers
<1>3. FlagMeansFeed'
  <2>1. CASE UNCHANGED <<podcasts, lateStops>>
    BY <1>1, <2>1 DEF SwipeIInv, FlagMeansFeed, podcasts
  <2>2. CASE podcast' = podcast /\ unbound' = podcast.active
    BY <2>2 DEF FlagMeansFeed
  <2>3. CASE DropFlag
    <3>1. ~podcast'.active
      BY <2>3 DEF DropFlag, SwipeIInv, SwipeTypes, PodcastMarkers
    <3> QED  BY <3>1 DEF FlagMeansFeed
  <2> QED  BY <2>1, <2>2, <2>3
<1> QED  BY <1>1, <1>2, <1>3, PlayerStep

----------------------------------------------------------------------------
(* The podcast player.                                                        *)

\* An episode starts: the flag goes up for what MPD has, if the slot is claimed.
LEMMA StartingAnEpisode ==
  ASSUME SwipeIInv, Stamps, NEW i \in Podcasts, NEW bound \in BOOLEAN,
         EpisodeStarts(i, bound),
         \/ CallAllowed /\ TakeOver("podcast")
         \/ UNCHANGED <<slot, connect, spotifyDisk, lateStops>>,
         bound => slot' = "podcast"
  PROVE  SwipeIInv'
<1>1. i \in Items
  BY DEF Items
<1>2. wire' = Playing(i) /\ unbound' = ~bound
      /\ podcast' = [active |-> TRUE, item |-> i, last |-> Feed[i]]
  BY DEF EpisodeStarts
<1>3. wire' \in PlayerState /\ wire'.item = i
  BY <1>1, <1>2 DEF Playing, PlayerState
<1>4. FlagMeansFeed'
  BY <1>2, <1>3 DEF FlagMeansFeed
<1>5. Flags /\ lateStops \in 0..MaxLateStops
  BY DEF Flags, SwipeIInv, SwipeTypes
<1> QED  BY <1>3, <1>4, <1>5, PlayerStep

\* A refused start leaves MPD's queue empty.
LEMMA StartRefused ==
  ASSUME SwipeIInv, Stamps, wire' = Empty, UNCHANGED podcasts \/ DropFlag,
         \/ CallAllowed /\ TakeOver("podcast")
         \/ UNCHANGED <<slot, connect, spotifyDisk, lateStops>>
  PROVE  SwipeIInv'
<1>1. wire' \in PlayerState
  BY DEF Empty, PlayerState
<1>2. Flags /\ lateStops \in 0..MaxLateStops
  BY DEF Flags, podcasts, SwipeIInv, SwipeTypes
<1>3. FlagMeansFeed'
  <2>1. CASE DropFlag
    <3>1. ~podcast'.active
      BY <2>1 DEF DropFlag, SwipeIInv, SwipeTypes, PodcastMarkers
    <3> QED  BY <3>1 DEF FlagMeansFeed
  <2>2. CASE UNCHANGED podcasts /\ CallAllowed /\ TakeOver("podcast")
    BY <2>2, PodcastKeepsTheFeed
  <2>3. CASE UNCHANGED podcasts /\ UNCHANGED <<slot, connect, spotifyDisk, lateStops>>
    BY <2>3 DEF SwipeIInv, FlagMeansFeed, podcasts
  <2> QED  BY <2>1, <2>2, <2>3
<1> QED  BY <1>1, <1>2, <1>3, PlayerStep

\* Taking the slot for podcasts with the queue as it was keeps the invariant,
LEMMA PodcastTakesOver ==
  ASSUME SwipeIInv, Stamps, CallAllowed, TakeOver("podcast"), UNCHANGED podcasts,
         LET w == WireAfter("podcast") IN
           wire' \in {w, Paused(w), Unpaused(w), Toggled(w)}
  PROVE  SwipeIInv'
<1>1. /\ WireAfter("podcast") \in PlayerState /\ WireAfter("podcast").item = wire.item
      /\ wire = Empty => WireAfter("podcast") = Empty
  BY HandoffKeepsTheItem DEF SwipeIInv, SwipeTypes
<1>2. /\ wire' \in PlayerState /\ wire'.item = wire.item
      /\ wire = Empty => wire' = Empty
  BY <1>1, CommandsKeepTheItem
<1>3. FlagMeansFeed'
  BY <1>2, PodcastKeepsTheFeed
<1>4. Flags
  BY DEF Flags, podcasts, SwipeIInv, SwipeTypes
<1> QED  BY <1>2, <1>3, <1>4, PlayerStep

\* and so do next and previous in a feed,
LEMMA Neighbours ==
  ASSUME SwipeIInv, Stamps, CallAllowed, NEW o \in PodcastOutcomes, NeighbourEpisode(o)
  PROVE  SwipeIInv'
<1>1. TakeOver("podcast") /\ slot' = "podcast"
  BY DEF NeighbourEpisode, TakeOver, Activate
<1>2. CASE wire' = WireAfter("podcast") /\ UNCHANGED podcasts
  BY <1>1, <1>2, PodcastTakesOver
<1>3. CASE wire' = Empty /\ UNCHANGED podcasts
  BY <1>1, <1>3, StartRefused
<1>4. ASSUME NEW j \in Podcasts, EpisodeStarts(j, TRUE) PROVE SwipeIInv'
  BY <1>1, <1>4, StartingAnEpisode
<1> QED  BY <1>2, <1>3, <1>4 DEF NeighbourEpisode, AnotherEpisode

\* the second-swipe actions,
LEMMA SecondPodcastSwipes ==
  ASSUME SwipeIInv, Stamps, CallAllowed, NEW o \in PodcastOutcomes, NEW a \in PodcastSteps,
         SecondPodcast(a, o)
  PROVE  SwipeIInv'
<1>1. CASE TogglePodcast
  BY <1>1, PodcastTakesOver DEF TogglePodcast
<1>2. CASE UNCHANGED <<slot, wire, connect, spotifyDisk, lateStops, podcasts>>
  BY <1>2, WireCommands DEF SwipeIInv, SwipeTypes
<1>3. CASE NextEpisode(o)
  <2>1. UNCHANGED <<slot, connect, spotifyDisk, lateStops>> /\ (slot = "podcast") \in BOOLEAN
    BY <1>3 DEF NextEpisode
  <2>2. CASE wire' = wire /\ UNCHANGED podcasts
    BY <2>1, <2>2, WireCommands DEF SwipeIInv, SwipeTypes
  <2>3. CASE wire' = Empty /\ UNCHANGED podcasts
    BY <2>1, <2>3, StartRefused
  <2>4. ASSUME NEW j \in Podcasts, EpisodeStarts(j, slot = "podcast") PROVE SwipeIInv'
    BY <2>1, <2>4, StartingAnEpisode
  <2> QED  BY <1>3, <2>2, <2>3, <2>4 DEF NextEpisode, AnotherEpisode
<1> QED  BY <1>1, <1>2, <1>3 DEF SecondPodcast

\* and what is started, whatever its feed or MPD answers.
LEMMA PodcastStarts ==
  ASSUME SwipeIInv, Stamps, CallAllowed, NEW i \in Podcasts, NEW o \in PodcastOutcomes,
         NEW a \in PodcastSteps, NEW retap, StartPodcast(i, retap, o, a)
  PROVE  SwipeIInv'
<1>1. CASE SecondPodcast(a, o)
  BY <1>1, SecondPodcastSwipes
<1>2. CASE /\ UNCHANGED <<slot, wire, connect, spotifyDisk, lateStops>>
           /\ DropFlag \/ UNCHANGED podcasts
  BY <1>2, WireCommands DEF SwipeIInv, SwipeTypes
<1>3. CASE TakeOver("podcast") /\ wire' = Empty /\ (DropFlag \/ UNCHANGED podcasts)
  BY <1>3, StartRefused
<1>4. CASE TakeOver("podcast") /\ EpisodeStarts(i, TRUE)
  <2>1. slot' = "podcast"
    BY <1>4 DEF TakeOver, Activate
  <2> QED  BY <1>4, <2>1, StartingAnEpisode
<1> QED  BY <1>1, <1>2, <1>3, <1>4 DEF StartPodcast

----------------------------------------------------------------------------
(* The MPD player.                                                            *)

\* next and prev, which may go to the podcast player, keep the invariant,
LEMMA Skipping ==
  ASSUME SwipeIInv, Stamps, CallAllowed, Skip
  PROVE  SwipeIInv'
<1>1. ASSUME NEW o \in PodcastOutcomes, NeighbourEpisode(o) PROVE SwipeIInv'
  BY <1>1, Neighbours
<1>2. CASE /\ DropFlag /\ wire' \in {wire, Stopped(wire), Started(wire)}
           /\ UNCHANGED <<slot, connect, spotifyDisk, lateStops>>
  BY <1>2, WireCommands DEF SwipeIInv, SwipeTypes
<1> QED  BY <1>1, <1>2 DEF Skip

\* and so do play
LEMMA PlayingMPD ==
  ASSUME SwipeIInv, Stamps, CallAllowed, Play
  PROVE  SwipeIInv'
<1>1. wire' \in PlayerState
  BY HandoffKeepsTheItem, CommandsKeepTheItem DEF SwipeIInv, SwipeTypes, Play
<1> QED  BY <1>1, MPDTakesOver DEF Play

\* and play_card and play_folder.
LEMMA FolderSteps ==
  ASSUME SwipeIInv, NEW f \in Folders, NEW a, SwipeFolder(f, a) \/ WebFolder(f)
  PROVE  SwipeIInv'
<1> USE DEF SwipeIInv
<1>1. f \in Items /\ f # NoItem /\ f \notin Uris
  BY ItemsAssumption DEF Items
<1>2. ASSUME NEW g \in Folders \union {NoItem}, NEW store \in FolderMarkers,
             CallAllowed, PlayFolder(g, store),
             store.swiped # NoItem => store.swiped \in swiped',
             swiped \subseteq swiped', swiped' \subseteq Folders \union Uris,
             swiped' \intersect Uris = swiped \intersect Uris,
             UNCHANGED <<spotify, origin>>
      PROVE  SwipeIInv'
  <2>1. /\ mpd' = [store EXCEPT !.played = g] /\ mpdDisk' = mpd' /\ wire' = Playing(g)
        /\ TakeOver("mpd") /\ UNCHANGED podcasts
    BY <1>2 DEF PlayFolder
  <2>2. mpd' \in FolderMarkers /\ mpd'.swiped = store.swiped
    BY <2>1 DEF FolderMarkers
  <2>3. wire' \in PlayerState
    BY <2>1 DEF Playing, PlayerState, Items
  <2>4. Stamps
    BY <1>2, <2>1, <2>2 DEF Stamps
  <2> QED  BY <1>2, <2>1, <2>3, <2>4, MPDTakesOver
<1>3. CASE WebFolder(f)
  <2>1. mpd \in FolderMarkers /\ (mpd.swiped # NoItem => mpd.swiped \in swiped)
        /\ swiped \subseteq Folders \union Uris
    BY DEF SwipeTypes, SwipesAreMarked
  <2> QED  BY <1>2, <1>3, <2>1 DEF WebFolder, history
<1>4. CASE SwipeFolder(f, a)
  <2> DEFINE store == [mpd EXCEPT !.swiped = f]
  <2>1. store \in FolderMarkers /\ store.swiped = f
    BY DEF SwipeTypes, FolderMarkers
  <2>2. /\ CallAllowed /\ swiped' = swiped \union {f} /\ UNCHANGED <<spotify, origin>>
        /\ PlayFolder(f, store) \/ SecondFolder(a, store)
    BY <1>4 DEF SwipeFolder
  <2>3. store.played \in Folders \union {NoItem}
    BY <2>1 DEF FolderMarkers
  <2>4. /\ swiped \subseteq swiped' /\ swiped' \subseteq Folders \union Uris
        /\ swiped' \intersect Uris = swiped \intersect Uris /\ f \in swiped'
    BY <1>1, <2>2 DEF SwipeTypes
  <2> HIDE DEF store
  <2>5. CASE PlayFolder(f, store) \/ PlayFolder(store.played, store)
    BY <1>2, <2>1, <2>2, <2>3, <2>4, <2>5
  <2>6. CASE mpd' = store /\ mpdDisk' = mpdDisk
    <3>1. Stamps
      BY <2>1, <2>2, <2>4, <2>6 DEF Stamps, SwipeTypes
    <3>2. CASE Play
      BY <2>2, <3>1, <3>2, PlayingMPD
    <3>3. CASE Skip
      BY <2>2, <3>1, <3>3, Skipping
    <3>4. CASE /\ wire' \in {Toggled(wire), Started(wire), wire}
               /\ UNCHANGED <<slot, connect, spotifyDisk, lateStops, podcasts>>
      BY <3>1, <3>4, WireCommands DEF SwipeTypes
    <3> QED  BY <2>2, <2>5, <3>2, <3>3, <3>4 DEF SecondFolder
  <2> QED  BY <2>2, <2>5, <2>6 DEF SecondFolder
<1> QED  BY <1>3, <1>4

----------------------------------------------------------------------------
(* Spotify, and the end of a queue.                                           *)

\* What Spotify does: it may take the slot, and leaves the others' markers be.
LEMMA SpotifyStep ==
  ASSUME SwipeIInv, UNCHANGED <<mpd, mpdDisk, podcasts>>,
         \/ CallAllowed /\ Activate("spotify") /\ wire' = WireAfter("spotify")
         \/ UNCHANGED <<slot, wire, lateStops>>,
         connect' \in PlayerState, spotify' \in UriMarkers, spotifyDisk' \in UriMarkers,
         origin' \in {"none", "card", "web"},
         swiped \subseteq swiped', swiped' \subseteq Folders \union Uris,
         swiped' \intersect Uris # {} => spotify'.card \in swiped',
         DeviceHasWhatWasPlayed'
  PROVE  SwipeIInv'
<1>1. "spotify" \in Backends /\ podcast' = podcast /\ unbound' = unbound
      /\ LastIsOfItem'
  BY DEF Backends, podcasts, SwipeIInv, LastIsOfItem
<1>2. CASE CallAllowed /\ Activate("spotify") /\ wire' = WireAfter("spotify")
  <2>1. /\ slot' = "spotify" /\ lateStops' \in 0..MaxLateStops /\ lateStops' >= lateStops
        /\ lateStops' = 0 => slot # "podcast"
    BY <1>1, <1>2, HandingOver DEF SwipeIInv
  <2>2. wire' \in PlayerState
    BY <1>2, HandoffKeepsTheItem DEF SwipeIInv, SwipeTypes
  <2>3. SwipeTypes'
    BY <1>1, <2>1, <2>2 DEF SwipeIInv, SwipeTypes
  <2>4. FlagMeansFeed'
    <3>1. lateStops' = 0 => lateStops = 0
      BY <2>1 DEF SwipeIInv, SwipeTypes
    <3> QED  BY <1>1, <2>1, <3>1 DEF SwipeIInv, FlagMeansFeed
  <2>5. SwipesAreMarked'
    BY DEF SwipeIInv, SwipesAreMarked
  <2> QED  BY <1>1, <2>3, <2>4, <2>5 DEF SwipeIInv
<1>3. CASE UNCHANGED <<slot, wire, lateStops>>
  <2>1. SwipeTypes'
    BY <1>1, <1>3 DEF SwipeIInv, SwipeTypes
  <2>2. FlagMeansFeed' /\ SwipesAreMarked'
    BY <1>1, <1>3 DEF SwipeIInv, FlagMeansFeed, SwipesAreMarked
  <2> QED  BY <1>1, <2>1, <2>2 DEF SwipeIInv
<1> QED  BY <1>2, <1>3

\* What Spotify starts by a card or from the Web UI keeps the invariant,
LEMMA ContentPlays ==
  ASSUME SwipeIInv, CallAllowed, NEW u \in Uris, NEW o \in ContentOutcomes,
         NEW store \in UriMarkers, PlayContent(u, store, o), store.played = spotify.played,
         UNCHANGED <<mpd, mpdDisk, podcasts>>,
         \E who \in {"card", "web"} : origin' = IF o = "ok" THEN who ELSE origin,
         swiped \subseteq swiped', swiped' \subseteq Folders \union Uris,
         swiped' \intersect Uris # {} => store.card \in swiped'
  PROVE  SwipeIInv'
<1>1. CASE /\ o # "ok" /\ spotify' = store /\ UNCHANGED <<connect, spotifyDisk>>
           /\ \/ UNCHANGED <<slot, wire, lateStops>>
              \/ Activate("spotify") /\ wire' = WireAfter("spotify")
  <2>1. DeviceHasWhatWasPlayed'
    BY <1>1 DEF SwipeIInv, DeviceHasWhatWasPlayed
  <2> QED  BY <1>1, <2>1, SpotifyStep DEF SwipeIInv, SwipeTypes
<1>2. CASE /\ o = "ok" /\ spotify' = [store EXCEPT !.played = u] /\ spotifyDisk' = spotify'
           /\ Activate("spotify") /\ wire' = WireAfter("spotify") /\ connect' = Playing(u)
  <2>1. spotify' \in UriMarkers /\ spotify'.played = u /\ spotify'.card = store.card
    BY <1>2 DEF UriMarkers
  <2>2. connect' \in PlayerState /\ connect'.item = u
    BY <1>2 DEF Playing, PlayerState, Items
  <2>3. DeviceHasWhatWasPlayed'
    BY <2>1, <2>2 DEF DeviceHasWhatWasPlayed
  <2>4. origin' \in {"none", "card", "web"}
    BY <1>2
  <2> QED  BY <1>2, <2>1, <2>2, <2>3, <2>4, SpotifyStep
<1> QED  BY <1>1, <1>2 DEF PlayContent

\* whichever way its call fails,
LEMMA UriSteps ==
  ASSUME SwipeIInv, NEW u \in Uris, NEW o \in ContentOutcomes,
         SwipeUri(u, o) \/ WebUri(u, o)
  PROVE  SwipeIInv'
<1>1. CASE WebUri(u, o)
  <2>1. /\ CallAllowed /\ PlayContent(u, spotify, o)
        /\ origin' = IF o = "ok" THEN "web" ELSE origin
        /\ UNCHANGED <<mpd, mpdDisk, podcasts>> /\ swiped' = swiped
    BY <1>1 DEF WebUri
  <2>2. /\ spotify \in UriMarkers /\ swiped' \subseteq Folders \union Uris
        /\ swiped' \intersect Uris # {} => spotify.card \in swiped'
    BY <2>1 DEF SwipeIInv, SwipeTypes, SwipesAreMarked
  <2> QED  BY <2>1, <2>2, ContentPlays
<1>2. CASE SwipeUri(u, o)
  <2> DEFINE store == [spotify EXCEPT !.card = u]
  <2>1. /\ store \in UriMarkers /\ store.card = u /\ store.played = spotify.played
    BY DEF SwipeIInv, SwipeTypes, UriMarkers
  <2>2. /\ CallAllowed /\ swiped' = swiped \union {u}
        /\ UNCHANGED <<mpd, mpdDisk, podcasts>>
        /\ \/ ToggleSpotify(store)
           \/ /\ spotify' = store
              /\ UNCHANGED <<slot, wire, connect, spotifyDisk, lateStops, origin>>
           \/ PlayContent(u, store, o) /\ origin' = IF o = "ok" THEN "card" ELSE origin
    BY <1>2 DEF SwipeUri
  <2>3. swiped' \subseteq Folders \union Uris /\ u \in swiped'
    BY <2>2 DEF SwipeIInv, SwipeTypes
  <2> HIDE DEF store
  <2>4. CASE ToggleSpotify(store)
    <3>1. /\ connect' \in {Paused(connect), Started(connect)} /\ spotify' = store
          /\ spotifyDisk' \in {spotifyDisk, store} /\ origin' = origin
          /\ Activate("spotify") /\ wire' = WireAfter("spotify")
      BY <2>4 DEF ToggleSpotify
    <3>2. connect' \in PlayerState /\ connect'.item = connect.item
      BY <3>1, CommandsKeepTheItem DEF SwipeIInv, SwipeTypes
    <3>3. DeviceHasWhatWasPlayed' /\ spotifyDisk' \in UriMarkers /\ spotify' \in UriMarkers
      BY <2>1, <3>1, <3>2 DEF SwipeIInv, SwipeTypes, DeviceHasWhatWasPlayed
    <3> QED
      BY <2>1, <2>2, <2>3, <3>1, <3>2, <3>3, SpotifyStep DEF SwipeIInv, SwipeTypes
  <2>5. CASE /\ spotify' = store
             /\ UNCHANGED <<slot, wire, connect, spotifyDisk, lateStops, origin>>
    <3>1. DeviceHasWhatWasPlayed'
      BY <2>1, <2>5 DEF SwipeIInv, DeviceHasWhatWasPlayed
    <3> QED
      BY <2>1, <2>2, <2>3, <2>5, <3>1, SpotifyStep DEF SwipeIInv, SwipeTypes
  <2>6. CASE PlayContent(u, store, o) /\ origin' = IF o = "ok" THEN "card" ELSE origin
    BY <2>1, <2>2, <2>3, <2>6, ContentPlays
  <2> QED  BY <2>2, <2>4, <2>5, <2>6
<1> QED  BY <1>1, <1>2

\* and so do Spotify's own commands.
LEMMA SpotifyCommands ==
  ASSUME SwipeIInv, ControlSpotify \/ PlaySpotify
  PROVE  SwipeIInv'
<1>1. /\ connect' \in {connect, Paused(connect), Stopped(connect), Started(connect)}
      /\ spotifyDisk' \in {spotify, spotifyDisk}
      /\ UNCHANGED <<mpd, mpdDisk, podcasts, spotify, history>>
      /\ \/ CallAllowed /\ Activate("spotify") /\ wire' = WireAfter("spotify")
         \/ UNCHANGED <<slot, wire, lateStops>>
  BY DEF ControlSpotify, PlaySpotify
<1>2. connect' \in PlayerState /\ connect'.item = connect.item
  BY <1>1, CommandsKeepTheItem DEF SwipeIInv, SwipeTypes
<1>3. DeviceHasWhatWasPlayed' /\ spotifyDisk' \in UriMarkers
  BY <1>1, <1>2 DEF SwipeIInv, SwipeTypes, DeviceHasWhatWasPlayed, history
<1> QED
  BY <1>1, <1>2, <1>3, SpotifyStep DEF SwipeIInv, SwipeTypes, SwipesAreMarked, history

\* The end of a queue keeps the invariant,
LEMMA QueueRunsOut ==
  ASSUME SwipeIInv, QueueEnds PROVE SwipeIInv'
<1>1. /\ UNCHANGED <<slot, mpd, mpdDisk, podcasts, spotify, spotifyDisk, lateStops, history>>
      /\ wire' \in {wire, Stopped(wire)} /\ connect' \in {connect, Stopped(connect)}
  BY DEF QueueEnds
<1>2. /\ wire' \in PlayerState /\ wire'.item = wire.item /\ (wire = Empty => wire' = Empty)
      /\ connect' \in PlayerState /\ connect'.item = connect.item
  BY <1>1, CommandsKeepTheItem DEF SwipeIInv, SwipeTypes
<1>3. SwipeTypes'
  BY <1>1, <1>2 DEF SwipeIInv, SwipeTypes, history, podcasts
<1>4. SwipesAreMarked' /\ DeviceHasWhatWasPlayed' /\ FlagMeansFeed'
      /\ LastIsOfItem'
  BY <1>1, <1>2 DEF SwipeIInv, SwipesAreMarked, DeviceHasWhatWasPlayed, FlagMeansFeed,
     LastIsOfItem, history, podcasts
<1> QED  BY <1>3, <1>4 DEF SwipeIInv

\* and a boot, with whatever the stores on disk kept.
LEMMA Rebooting ==
  ASSUME SwipeIInv, Reboot PROVE SwipeIInv'
<1>1. /\ slot' = "mpd" /\ unbound' = FALSE /\ lateStops' = 0 /\ origin' = "none"
      /\ swiped' = {} /\ wire' \in {Empty, wire} /\ connect' \in {Empty, connect}
      /\ podcast' = [podcast EXCEPT !.active = FALSE, !.item = NoItem]
      /\ spotifyDisk' \in {spotifyDisk, spotify} /\ spotify' \in {spotifyDisk, spotify}
      /\ mpdDisk' \in {mpdDisk, mpd} /\ mpd' = [mpdDisk' EXCEPT !.swiped = NoItem]
  BY DEF Reboot
<1>2. wire' \in PlayerState /\ connect' \in PlayerState
  BY <1>1 DEF SwipeIInv, SwipeTypes, Empty, PlayerState
<1>3. mpdDisk' \in FolderMarkers /\ mpd' \in FolderMarkers /\ mpd'.swiped = NoItem
  <2>1. mpdDisk' \in FolderMarkers
    BY <1>1 DEF SwipeIInv, SwipeTypes
  <2> QED  BY <1>1, <2>1 DEF FolderMarkers
<1>4. podcast' \in PodcastMarkers /\ ~podcast'.active /\ podcast'.item = NoItem
  BY <1>1 DEF SwipeIInv, SwipeTypes, PodcastMarkers
<1>5. spotify' \in UriMarkers /\ spotifyDisk' \in UriMarkers
  BY <1>1 DEF SwipeIInv, SwipeTypes
<1>6. SwipeTypes'
  <2>1. lateStops' \in 0..MaxLateStops
    <3>1. lateStops' = 0 /\ MaxLateStops \in Nat
      BY <1>1, ItemsAssumption
    <3> QED  BY <3>1
  <2>3. unbound' \in BOOLEAN
    BY <1>1
  <2>2. slot' \in Backends /\ origin' \in {"none", "card", "web"}
        /\ swiped' \subseteq Folders \union Uris
    BY <1>1 DEF Backends
  <2> QED  BY <1>2, <1>3, <1>4, <1>5, <2>1, <2>2, <2>3 DEF SwipeTypes
<1>7. SwipesAreMarked' /\ DeviceHasWhatWasPlayed' /\ FlagMeansFeed' /\ LastIsOfItem'
  BY <1>1, <1>3, <1>4 DEF SwipesAreMarked, DeviceHasWhatWasPlayed, FlagMeansFeed, LastIsOfItem
<1> QED  BY <1>6, <1>7 DEF SwipeIInv

----------------------------------------------------------------------------

\* The stores name every swipe that can be the second one, and a podcast that is up
\* owns what MPD has loaded.
LEMMA SwipeInvariant == Spec => []SwipeIInv
<1>1. Init => SwipeIInv
  <2> SUFFICES ASSUME Init PROVE SwipeIInv
    OBVIOUS
  <2>1. Empty \in PlayerState
    BY DEF Empty, PlayerState
  <2>2. mpd \in FolderMarkers /\ spotify \in UriMarkers /\ podcast \in PodcastMarkers
    BY DEF Init, FolderMarkers, UriMarkers, PodcastMarkers
  <2>3. SwipeTypes
    <3>1. lateStops = 0 /\ MaxLateStops \in Nat
      BY ItemsAssumption DEF Init
    <3>2. lateStops \in 0..MaxLateStops
      BY <3>1
    <3>3. unbound \in BOOLEAN /\ ~podcast.active
      BY DEF Init
    <3> QED  BY <2>1, <2>2, <3>2, <3>3 DEF Init, SwipeTypes, Backends
  <2>4. SwipesAreMarked /\ DeviceHasWhatWasPlayed /\ FlagMeansFeed /\ LastIsOfItem
    BY DEF Init, SwipesAreMarked, DeviceHasWhatWasPlayed, FlagMeansFeed, LastIsOfItem
  <2> QED  BY <2>3, <2>4 DEF SwipeIInv
<1>2. SwipeIInv /\ [Next]_vars => SwipeIInv'
  <2> SUFFICES ASSUME SwipeIInv, [Next]_vars PROVE SwipeIInv'
    OBVIOUS
  <2> DEFINE Unstamped == CallAllowed /\ UNCHANGED <<mpd, mpdDisk, spotify, history>>
  <2>1. ASSUME NEW f \in Folders, NEW a \in SecondActions, SwipeFolder(f, a)
        PROVE  SwipeIInv'
    BY <2>1, FolderSteps
  <2>2. ASSUME NEW f \in Folders, WebFolder(f) PROVE SwipeIInv'
    <3>1. SwipeFolder(f, "none") \/ WebFolder(f)
      BY <2>2
    <3> QED  BY <3>1, FolderSteps
  <2>3. ASSUME NEW i \in Podcasts, NEW o \in PodcastOutcomes, NEW a \in PodcastSteps,
               SwipePodcast(i, o, a)
        PROVE  SwipeIInv'
    <3>1. Unstamped /\ Stamps
      BY <2>3, NoStamp DEF SwipePodcast
    <3> QED
      BY <2>3, <3>1, SecondPodcastSwipes, PodcastStarts DEF SwipePodcast
  <2>4. ASSUME NEW i \in Podcasts, NEW o \in PodcastOutcomes, NEW a \in PodcastSteps,
               NEW retap \in Retaps(i), TapPodcast(i, retap, o, a)
        PROVE  SwipeIInv'
    <3>1. Unstamped /\ Stamps
      BY <2>4, NoStamp DEF TapPodcast
    <3> QED  BY <2>4, <3>1, PodcastStarts DEF TapPodcast
  <2>5. ASSUME NEW u \in Uris, NEW o \in ContentOutcomes, SwipeUri(u, o) \/ WebUri(u, o)
        PROVE  SwipeIInv'
    BY <2>5, UriSteps
  <2>6. CASE PauseMPD \/ StopPodcast
    <3>1. /\ lateStops' = lateStops /\ lateStops \in 0..MaxLateStops
          /\ Stamps
      BY <2>6, NoStamp DEF PauseMPD, StopPodcast, SwipeIInv, SwipeTypes
    <3>2. CASE PauseMPD
      BY <3>1, <3>2, WireCommands DEF PauseMPD
    <3>3. CASE StopPodcast
      <4>1. wire' \in {wire, Stopped(wire)} /\ (DropFlag \/ UNCHANGED podcasts)
            /\ UNCHANGED <<slot, connect, spotifyDisk>>
        BY <3>3 DEF StopPodcast
      <4> QED  BY <3>1, <4>1, WireCommands
    <3> QED  BY <2>6, <3>2, <3>3
  <2>7. CASE PlayMPD
    BY <2>7, NoStamp, PlayingMPD DEF PlayMPD
  <2>8. CASE SkipMPD
    BY <2>8, NoStamp, Skipping DEF SkipMPD
  <2>9. CASE PausePodcast
    BY <2>9, NoStamp, PodcastTakesOver DEF PausePodcast
  <2>10. CASE SkipPodcast
    BY <2>10, NoStamp, Neighbours DEF SkipPodcast
  <2>11. CASE ControlSpotify \/ PlaySpotify
    BY <2>11, SpotifyCommands
  <2>12. CASE LateStop
    <3>1. /\ lateStops' \in 0..MaxLateStops /\ Stamps
          /\ UNCHANGED <<slot, connect, spotifyDisk>>
      BY <2>12, NoStamp, ItemsAssumption DEF LateStop, SwipeIInv, SwipeTypes
    <3>2. /\ wire' \in {wire, Stopped(wire)}
          /\ (podcast' = podcast /\ unbound' = podcast.active) \/ DropFlag
      BY <2>12 DEF LateStop
    <3> QED  BY <3>1, <3>2, WireCommands
  <2>13. CASE QueueEnds
    BY <2>13, QueueRunsOut
  <2>14. CASE Reboot
    BY <2>14, Rebooting
  <2>15. CASE UNCHANGED vars
    BY <2>15 DEF vars, SwipeIInv, SwipeTypes, SwipesAreMarked, DeviceHasWhatWasPlayed,
       FlagMeansFeed, LastIsOfItem
  <2> QED
    BY <2>1, <2>2, <2>3, <2>4, <2>5, <2>6, <2>7, <2>8, <2>9, <2>10, <2>11, <2>12, <2>13,
       <2>14, <2>15
    DEF Next
<1> QED  BY <1>1, <1>2, PTL DEF Spec

\* The markers keep their types, and the second of two swipes of a Spotify card is
\* recognised as long as what the first started plays and Spotify has the slot
\* (decide_spotify_swipe).
THEOREM SecondSwipesAreRecognised == Spec => []SwipeInv
<1>1. SwipeIInv => SwipeInv
  <2> SUFFICES ASSUME SwipeIInv PROVE SwipeInv
    OBVIOUS
  <2>1. TypeOK
    BY DEF SwipeIInv, SwipeTypes, TypeOK, FolderMarkers, PodcastMarkers, UriMarkers
  <2>2. ASSUME NEW u \in Uris, swiped \intersect Uris = {u}, origin = "card",
               slot = "spotify", connect = Playing(u)
        PROVE  IsSecondUri(u)
    <3>1. spotify.card = u
      <4>1. spotify.card \in swiped /\ spotify.card \in Uris \union {NoItem}
        BY <2>2 DEF SwipeIInv, SwipeTypes, SwipesAreMarked, UriMarkers
      <4>2. NoItem \notin swiped
        BY ItemsAssumption DEF SwipeIInv, SwipeTypes, Items
      <4> QED  BY <2>2, <4>1, <4>2
    <3>2. spotify.played = u
      BY <2>2 DEF SwipeIInv, DeviceHasWhatWasPlayed, Playing
    <3> QED  BY <2>2, <3>1, <3>2 DEF IsSecondUri
  <2> QED  BY <2>1, <2>2 DEF SwipeInv, SecondUriSwipeIsRecognised
<1> QED  BY <1>1, SwipeInvariant, PTL

\* Once Spotify has started anything since boot, a swipe that succeeds ends with
\* the content of its own card on the device (playerspotify.play_card).
THEOREM UriSwipesSelect == Spec => UriSwipeSelectsItsCard
<1>1. SwipeIInv => \A u \in Uris : origin # "none" /\ SwipeUri(u, "ok") => connect'.item = u
  <2> SUFFICES ASSUME SwipeIInv, NEW u \in Uris, origin # "none", SwipeUri(u, "ok")
               PROVE  connect'.item = u
    OBVIOUS
  <2>1. CASE IsSecondUri(u)
    <3>1. connect.item = u /\ connect \in PlayerState
      BY <2>1 DEF IsSecondUri, SwipeIInv, SwipeTypes, DeviceHasWhatWasPlayed
    <3>2. connect' \in {Paused(connect), Started(connect)}
      BY <2>1 DEF SwipeUri, ToggleSpotify
    <3> QED  BY <3>1, <3>2, CommandsKeepTheItem
  <2>2. CASE ~IsSecondUri(u)
    BY <2>2 DEF SwipeUri, PlayContent, Playing
  <2> QED  BY <2>1, <2>2
<1> QED  BY <1>1, SwipeInvariant, PTL DEF UriSwipeSelectsItsCard

\* With no stop of a hand-off overdue or failed, and the slot claimed whenever the
\* flag went up, a tap of a series selects that series (decide_second_swipe).
THEOREM SeriesTapsSelect == Spec => SeriesTapSelectsItsFeed
<1>1. SwipeIInv =>
        (lateStops = 0 /\ ~unbound =>
          \A i \in Podcasts, a \in PodcastSteps :
            IsSeries(i) /\ TapPodcast(i, Retap(i, wire.mode = "stop"), "ok", a)
              => wire'.item \in Podcasts /\ Feed[wire'.item] = i)
  <2> SUFFICES ASSUME SwipeIInv, lateStops = 0, ~unbound,
                      NEW i \in Podcasts, NEW a \in PodcastSteps, IsSeries(i),
                      TapPodcast(i, Retap(i, wire.mode = "stop"), "ok", a)
               PROVE  wire'.item \in Podcasts /\ Feed[wire'.item] = i
    OBVIOUS
  <2> DEFINE retap == Retap(i, wire.mode = "stop")
  <2>1. CASE retap = "invoke"
    <3>1. /\ podcast.active /\ Feed[podcast.item] = i /\ wire.mode # "stop"
          /\ SecondPodcast(a, "ok")
      BY <2>1 DEF Retap, TapPodcast, StartPodcast, IsSeries
    <3>2. wire.item \in Podcasts /\ Feed[wire.item] = i
      BY <3>1 DEF SwipeIInv, FlagMeansFeed, Empty
    <3>3. CASE TogglePodcast
      <4>1. wire'.item = wire.item
        BY <3>3, HandoffKeepsTheItem, CommandsKeepTheItem
        DEF TogglePodcast, SwipeIInv, SwipeTypes
      <4> QED  BY <3>2, <4>1
    <3>4. CASE wire' = wire
      BY <3>2, <3>4
    <3>5. CASE NextEpisode("ok")
      <4>1. PICK j \in Podcasts :
              Feed[j] = Feed[podcast.item] /\ EpisodeStarts(j, slot = "podcast")
        BY <3>5 DEF NextEpisode, AnotherEpisode
      <4>2. wire'.item = j
        BY <4>1 DEF EpisodeStarts, Playing
      <4> QED  BY <3>1, <4>1, <4>2
    <3> QED  BY <3>1, <3>3, <3>4, <3>5 DEF SecondPodcast
  <2>2. CASE retap # "invoke"
    <3>1. EpisodeStarts(i, TRUE)
      BY <2>2 DEF TapPodcast, StartPodcast
    <3> QED  BY <3>1 DEF EpisodeStarts, Playing, IsSeries
  <2> QED  BY <2>1, <2>2
<1> QED  BY <1>1, SwipeInvariant, PTL DEF SeriesTapSelectsItsFeed

\* The first swipe of a folder since boot plays it, and a swipe that routes to a
\* backend makes it the active one, but for the second swipes whose setting need
\* not claim the slot.
THEOREM SwipesDoTakeEffect == Spec => SwipesTakeEffect
<1> DEFINE Effect ==
      /\ swiped \intersect Folders = {} =>
           \A f \in Folders, a \in SecondActions : SwipeFolder(f, a) => wire' = Playing(f)
      /\ slot' # "mpd" =>
           \A f \in Folders, a \in SecondActions \ LeavesSlot : ~SwipeFolder(f, a)
      /\ slot' # "podcast" =>
           \A i \in Podcasts, a \in PodcastSteps :
             SwipePodcast(i, "ok", a)
               => podcast.last = Feed[i] /\ a \in {"next_episode", "none"}
      /\ slot' # "spotify" => \A u \in Uris : ~SwipeUri(u, "ok")
<1>1. SwipeIInv => Effect
  <2> SUFFICES ASSUME SwipeIInv PROVE Effect
    OBVIOUS
  <2>1. ASSUME swiped \intersect Folders = {}, NEW f \in Folders, NEW a \in SecondActions,
               SwipeFolder(f, a)
        PROVE  wire' = Playing(f)
    <3>1. ~IsSecondFolder(f)
      BY <2>1, ItemsAssumption DEF IsSecondFolder, SwipeIInv, SwipesAreMarked, Items
    <3> QED  BY <2>1, <3>1 DEF SwipeFolder, PlayFolder
  <2>2. ASSUME slot' # "mpd", NEW f \in Folders, NEW a \in SecondActions \ LeavesSlot,
               SwipeFolder(f, a)
        PROVE  FALSE
    <3>1. a \in {"none", "play", "replay"}
      BY <2>2, ItemsAssumption DEF LeavesSlot
    <3>2. TakeOver("mpd")
      BY <2>2, <3>1 DEF SwipeFolder, SecondFolder, PlayFolder, Play
    <3> QED  BY <2>2, <3>2 DEF TakeOver, Activate
  <2>3. ASSUME slot' # "podcast", NEW i \in Podcasts, NEW a \in PodcastSteps,
               SwipePodcast(i, "ok", a)
        PROVE  podcast.last = Feed[i] /\ a \in {"next_episode", "none"}
    <3>1. ~TakeOver("podcast")
      BY <2>3 DEF TakeOver, Activate
    <3>2. CASE podcast.last = Feed[i]
      BY <2>3, <3>1, <3>2 DEF SwipePodcast, SecondPodcast, TogglePodcast
    <3>3. CASE podcast.last # Feed[i]
      <4>1. ASSUME NEW stopped \in BOOLEAN PROVE Retap(i, stopped) = "fresh"
        BY <3>3 DEF Retap, SwipeIInv, SwipeTypes, LastIsOfItem
      <4>2. PICK retap \in Retaps(i) : StartPodcast(i, retap, "ok", a)
        BY <2>3, <3>3 DEF SwipePodcast
      <4>3. retap = "fresh"
        BY <4>1, <4>2 DEF Retaps
      <4> QED  BY <3>1, <4>2, <4>3 DEF StartPodcast
    <3> QED  BY <3>2, <3>3
  <2>4. ASSUME slot' # "spotify", NEW u \in Uris, SwipeUri(u, "ok")
        PROVE  FALSE
    BY <2>4 DEF SwipeUri, PlayContent, ToggleSpotify, Activate
  <2> QED  BY <2>1, <2>2, <2>3, <2>4
<1> QED  BY <1>1, SwipeInvariant, PTL DEF SwipesTakeEffect
=============================================================================
