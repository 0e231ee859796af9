CONSTANTS
  c1 = c1  c2 = c2  c3 = c3
  NoKey = NoKey  Zeroed = Zeroed
  Clients = {c1, c2, c3}
  Scenarios <- Start
  History = 1
  OutCap = 8
SPECIFICATION FairSpec
INVARIANTS KeysAgree FramesInPlace
PROPERTIES EpochNeverBack KeyArrives
CHECK_DEADLOCK FALSE
