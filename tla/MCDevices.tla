----------------------------- MODULE MCDevices -----------------------------
(* The parts that do not interact with one another, side by side: the buttons, *)
(* an LED, the key listeners, the battery monitor, and of the podcasts the     *)
(* record of what was heard, the cache of episodes and what is fetched for an  *)
(* hour.  A behaviour is one part's behaviour, with the other parts at rest in *)
(* one initial state.  The record and the cache meet in one place only: an     *)
(* episode in Streamed is one the cache could not download.                    *)
EXTENDS GpioButtons, GpioLed, KeyListeners, BatteryMonitor,
        PodcastPlayback, EpisodeCache, FetchedLists, TLC

CONSTANTS news, olds, extra

VARIABLE part

MCFeed == <<news, olds>>
MCSize == (news :> 1) @@ (olds :> 2) @@ (extra :> 2)
TwoPages == [l \in Feeds \cup Uris |-> 2]

deviceVars == <<buttonVars, ledVars, keyVars, batteryVars>>
podcastsVars == <<podcastVars, cacheVars, listVars>>

Init ==
  /\ part \in {"buttons", "led", "keys", "battery", "playback", "episodes", "lists"}
  /\ ButtonsInit /\ LedInit /\ KeysInit /\ BatteryInit
  /\ PodcastInit /\ CacheInit /\ ListsInit
  /\ part # "buttons" => config = [kind |-> "twin", long |-> {}, repeat |-> FALSE]
  /\ part # "keys" => plugin = "bluetooth" /\ \A d \in Devices : plugged[d] = "there"
  /\ part # "battery" => fast = Ok * Unit /\ actions = {}

DevicesNext ==
  \/ part = "buttons" /\ ButtonsNext /\ UNCHANGED <<ledVars, keyVars, batteryVars>>
  \/ part = "led" /\ LedNext /\ UNCHANGED <<buttonVars, keyVars, batteryVars>>
  \/ part = "keys" /\ KeysNext /\ UNCHANGED <<buttonVars, ledVars, batteryVars>>
  \/ part = "battery" /\ BatteryNext /\ UNCHANGED <<buttonVars, ledVars, keyVars>>

PodcastsNext ==
  \/ part = "playback" /\ PodcastNext /\ UNCHANGED <<cacheVars, listVars>>
  \/ part = "episodes" /\ CacheNext /\ UNCHANGED <<podcastVars, listVars>>
  \/ part = "lists" /\ ListsNext /\ UNCHANGED <<podcastVars, cacheVars>>

Next ==
  /\ UNCHANGED part
  /\ \/ DevicesNext /\ UNCHANGED podcastsVars
     \/ PodcastsNext /\ UNCHANGED deviceVars

Spec == Init /\ [][Next]_<<part, deviceVars, podcastsVars>>

\* Each device's state is one its driver can be in: a button that is released has
\* left the state machine at rest, and where a warning is configured the battery
\* monitor has called it by an earlier reading than the one that shuts the box down,
\* unless that one alone is too low to go by or is the first after a low start.
DevicesInv ==
  /\ ButtonsTypeOK /\ LedTypeOK /\ KeysTypeOK /\ BatteryTypeOK
  /\ ReleasedTwinIsIdle /\ WarnedBeforeShutdown

\* What is kept of the network's lists and episodes can be relied on after failed
\* requests, failed writes and restarts: the cache of episodes holds whole episodes
\* within its limit, those apart of which a power cut took what was not written
\* back, and the lists served are whole, a feed as far as it could be parsed.
KeptIsWhole == CacheWithinLimit /\ CachedIsWhole /\ ServedListsAreWhole
=============================================================================
