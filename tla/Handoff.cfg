SPECIFICATION SumSpec
CONSTANTS
  Names <- AllBackends
  NoBackend = NoBackend
  Threads = {t1, t2}
  NoThread = NoThread
  Devices <- AllDevices
  Device <- BackendDevice
  ThroughPlugs = {"podcast"}
  DeafPause = {}
  Wedges = {"spotify"}
  Passive = {"mpd", "spotify"}
  Unlocked = {}
  MaxOverrun = 2
  Secrets = {app}
  NoSecret = NoSecret
  Torn = Torn
  MaxConfigs = 2
  MaxRestarts = 1
INVARIANT ExclusivePlayback
INVARIANT HandoffInv
PROPERTY CallReturns
PROPERTY ImplementsActiveSlot
PROPERTY StatusFollowsDevice
CHECK_DEADLOCK FALSE
