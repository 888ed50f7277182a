SPECIFICATION Spec
CONSTANTS
  Callers = {rpc, reader}
  Stoppers = {w1, w2}
  NoThread = NoThread
  MaxLeaks = 1
  MaxAsks = 1
  Folders = {f1, f2}
  Nothing = Nothing
  Tagged = {s1}
  Untagged = {s3}
  MaxQueue = 3
INVARIANT QueueRebuiltWhole
INVARIANT ResumeTargetSurvives
PROPERTY CallsEnd
PROPERTY QueuedCoverIsWritten
CHECK_DEADLOCK FALSE
