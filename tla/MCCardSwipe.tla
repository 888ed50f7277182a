---------------------------- MODULE MCCardSwipe ----------------------------
(* Model values for CardSwipe: two folders, a podcast series with a card for *)
(* one of its episodes, a second series, and two Spotify URIs.  Nothing      *)
(* distinguishes the two folders, nor the two URIs.                          *)
EXTENDS CardSwipe, TLC

TwoSeriesAndEpisode == {"series", "episode", "other"}
SeriesOf == [i \in Podcasts |-> IF i = "other" THEN "other" ELSE "series"]

CardSymmetry ==
  {f @@ u : f \in Permutations(Folders), u \in Permutations(Uris)}
=============================================================================
