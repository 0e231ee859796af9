CONSTANTS
  c1 = c1  c2 = c2  c3 = c3  r1 = r1  w1 = w1  t1 = t1  t2 = t2
  NoConn = NoConn  NoRoom = NoRoom  NoToken = NoToken  NoTimer = NoTimer
  Conns = {c1, c2, c3}
  Rooms = {r1}
  Tokens = {t1, t2}
  Timers = {}
  IdleBurn = {}
  Tids = {}
  MaxTransfers = 1
  BeaconRooms = {}
  InviteOnly = {r1}
  OwnerLossBurn = {r1}
  TTLRooms = {}
  WarRooms = {}
  MaxGrace = 1
  p = p  a = a  b = b
  Parts = {"relay", "action"}
  Clients = {p, a}
  Ids = {p, a}
  Requester = p
  Fpr <- OwnIdentity
  Quorum = 2
  MaxVanish = 1
  ServerBurns = TRUE
SPECIFICATION AllSpec
SYMMETRY AllSymmetric
INVARIANTS TypeOK OwnedRegistry TokenOnce BurnAfterReceipt
PROPERTY DistributorStable
CHECK_DEADLOCK FALSE
