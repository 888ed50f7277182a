------------------------ MODULE MCPlayerCoordinator ------------------------
(* Model values for PlayerCoordinator: the three backends of the jukebox, of   *)
(* which the podcast player plays through MPD's wire (play_single_passive).    *)
(* With them the Spotify player by itself: a behaviour is one part's, the      *)
(* other at rest.  What the coordinator calls, pause and stop, are two of the  *)
(* commands the Spotify player may be given.                                   *)
EXTENDS PlayerCoordinator, SpotifyPlayer

VARIABLE part

AllBackends == {"mpd", "podcast", "spotify"}
AllDevices == {"wire", "connect"}
BackendDevice == [n \in Names |-> IF n = "spotify" THEN "connect" ELSE "wire"]

SumInit == part \in {"coordinator", "spotify"} /\ Init /\ SpotifyInit

SumNext ==
  /\ UNCHANGED part
  /\ \/ part = "coordinator" /\ Next /\ UNCHANGED spotifyVars
     \/ part = "spotify" /\ SpotifyNext /\ UNCHANGED vars

\* Nothing of either fairness is enabled while its part is at rest.
SumSpec ==
  /\ SumInit /\ [][SumNext]_<<part, vars, spotifyVars>>
  /\ Fairness /\ SpotifyFairness
=============================================================================
