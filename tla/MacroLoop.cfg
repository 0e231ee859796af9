CONSTANTS
  RoomNames = {"a"}
  First = "a"
  WarRoom = "a"
  Sittings <- MCLoop
  EventCap = 1
  MaxCores = 1
SPECIFICATION AppFairSpec
PROPERTY CommandsEnd
CHECK_DEADLOCK FALSE
