SPECIFICATION SumSpec
CONSTANTS
  Names <- AllBackends
  NoBackend = NoBackend
  Threads = {t1}
  NoThread = NoThread
  Devices <- AllDevices
  Device <- BackendDevice
  ThroughPlugs = {"podcast"}
  DeafPause = {"spotify"}
  Wedges = {"spotify"}
  Passive = {"mpd", "spotify"}
  Unlocked = {}
  MaxOverrun = 1
  Publishers <- MusicBackends
  HasCleanup = {"spotify"}
  Topics = {"temperature"}
  Revocable = {"temperature"}
  Contents = {x1, x2}
  Nothing = Nothing
  Subscribers = {web1, web2}
  MaxWaiting = 1
  MaxInbox = 2
  Sent = {"status"}
  Polled = {"status"}
  Readings = {r1, r2}
  Unsent = Unsent
  MaxBridges = 2
  MaxHeard = 2
PROPERTY ActiveBackendIsShown
PROPERTY StatusIsShown
INVARIANT JoinedIsCurrent
CHECK_DEADLOCK FALSE
