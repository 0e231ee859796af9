CONSTANTS
  a = a  b = b  c1 = c1  c2 = c2  r1 = r1  t1 = t1
  Parts = {"seal", "relay"}
  Clients = {a, b}
  Clocked = {a}
  MaxEntries = 3
  MaxRounds = 2
  MaxVanish = 1
  MaxLeave = 1
  MaxActs = 4
  NoConn = NoConn  NoRoom = NoRoom  NoToken = NoToken  NoTimer = NoTimer
  Conns = {c1, c2}
  Rooms = {r1}
  Tokens = {}
  Timers = {t1}
  IdleBurn = {r1}
  Tids = {}
  MaxTransfers = 1
  BeaconRooms = {}
  InviteOnly = {}
  OwnerLossBurn = {r1}
  TTLRooms = {}
  WarRooms = {}
  MaxGrace = 0
SPECIFICATION AllSpec
INVARIANTS RecordSound CollectedOnce
PROPERTIES SealEnds ScuttledLeave JanitorsEnd
CHECK_DEADLOCK FALSE
