SPECIFICATION Spec
CONSTANTS
  Folders = {folderA, folderB}
  Podcasts <- TwoSeriesAndEpisode
  Uris = {uriA, uriB}
  NoItem = NoItem
  Feed <- SeriesOf
  SecondActions = {"none", "toggle", "play", "skip", "rewind", "replay", "replay_if_stopped", "custom"}
  PodcastActions = {"toggle", "next_episode", "none"}
  MaxLateStops = 1
INVARIANT SwipeInv
PROPERTY UriSwipeSelectsItsCard
PROPERTY SeriesTapSelectsItsFeed
PROPERTY SwipesTakeEffect
SYMMETRY CardSymmetry
