SPECIFICATION SumSpec
CONSTANTS
  Iterations = 3
  Modes = {TRUE, FALSE}
  Intervals <- ShortAndLong
  MaxRuns = 2
  MaxStarts = 2
  Steps = 3
  Loud = 2
INVARIANT UncancelledRunIsComplete
INVARIANT AtMostOneCallAfterCancel
INVARIANT RunningIsShown
PROPERTY CancelEnds
PROPERTY CancelSilences
CHECK_DEADLOCK FALSE
