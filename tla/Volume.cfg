SPECIFICATION Spec
CONSTANTS
  Callers = {button, web}
  Limiters = {web}
  Nobody = Nobody
  Full = 1
INVARIANT VolumeInv
INVARIANT SoftMaxHolds
INVARIANT ShownVolumeIsCurrent
PROPERTY CommandReturns
CHECK_DEADLOCK FALSE
