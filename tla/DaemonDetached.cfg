SPECIFICATION SumSpec
CONSTANTS
  Order <- LoadOrder
  Publishing = "publishing"
  Misc = "misc"
  CallingExits <- Jingle
  Main = main
  Callers = {rfid}
  Nobody = Nobody
  MaxDepth = 2
  Detached = {rfid}
  Cards <- FiveCards
  NoCard = NoCard
  Kind <- KindOf
  Ids = {c1, c2}
  Entries = {e1}
  Absent = Absent
  Torn = Torn
INVARIANT LockMatchesCalls
CHECK_DEADLOCK FALSE
