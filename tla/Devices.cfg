SPECIFICATION Spec
CONSTANTS
  MaxLag = 3
  Callers = {reader, pulse}
  Slots = {s1, s2}
  NoSlot = NoSlot
  Devices = {headphones, keyboard}
  Askers = {rpc, pulse}
  Listeners = {l1, l2}
  RetryCount = 2
  NoDevice = NoDevice
  Samples = {0, 26, 27, 28, 30, 33, 34, 35, 36}
  Unit = 8
  news = news
  olds = olds
  extra = extra
  Feed <- MCFeed
  Streamed = {olds}
  Other = Other
  Nothing = Nothing
  Length = 2
  Threshold = 2
  MaxStarts = 2
  Stored = {news, olds, extra}
  Size <- MCSize
  MaxSize = 3
  MaxTotal = 4
  Feeds = {feed}
  Uris = {album, playlist}
  PagesOf <- TwoPages
  NoList = NoList
  Unreadable = Unreadable
INVARIANT OneActionPerInput
INVARIANT LedIsRestored
INVARIANT OneListenerPerDevice
INVARIANT DevicesInv
INVARIANT CompletedWasHeard
INVARIANT IncompleteIsResumable
 
 
CHECK_DEADLOCK FALSE
