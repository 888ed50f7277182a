SPECIFICATION IdleSpec
CONSTANTS
  Statuses = {stopped, playing}
PROPERTY IdleBoxIsShutDown
CHECK_DEADLOCK FALSE
