CONSTANTS
  c1 = c1  c2 = c2  c3 = c3  r1 = r1  w1 = w1  t1 = t1  t2 = t2
  NoConn = NoConn  NoRoom = NoRoom  NoToken = NoToken  NoTimer = NoTimer
  Conns = {c1, c2}
  Rooms = {r1, w1}
  Tokens = {t1}
  Timers = {}
  IdleBurn = {}
  Tids = {}
  MaxTransfers = 1
  BeaconRooms = {}
  InviteOnly = {}
  OwnerLossBurn = {}
  TTLRooms = {}
  WarRooms = {w1}
  MaxGrace = 0
SPECIFICATION Spec
INVARIANT WarRoomCloses
CHECK_DEADLOCK FALSE
