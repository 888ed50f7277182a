SPECIFICATION SumSpec
CONSTANTS
  Order <- LoadOrder
  Publishing = "publishing"
  Misc = "misc"
  CallingExits <- Jingle
  Main = main
  Callers = {timer}
  Nobody = Nobody
  MaxDepth = 2
  Detached = {timer}
  Cards <- FiveCards
  NoCard = NoCard
  Kind <- KindOf
  Ids = {c1, c2}
  Entries = {e1}
  Absent = Absent
  Torn = Torn
INVARIANT DaemonInv
INVARIANT LockCountsFrames
PROPERTY SignalEndsDaemon
PROPERTY EveryRemovalIsEarned
INVARIANT LyingCardActsOnce
PROPERTY RemovalFollows
INVARIANT CardsAreKept
CHECK_DEADLOCK FALSE
