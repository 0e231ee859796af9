CONSTANTS
  c1 = c1  c2 = c2  c3 = c3  r1 = r1  w1 = w1  t1 = t1  t2 = t2
  NoConn = NoConn  NoRoom = NoRoom  NoToken = NoToken  NoTimer = NoTimer
  Conns = {c1, c2}
  Rooms = {r1, w1}
  Tokens = {t1}
  Timers = {}
  IdleBurn = {}
  Tids = {t1, t2}
  MaxTransfers = 1
  BeaconRooms = {r1}
  InviteOnly = {}
  OwnerLossBurn = {r1}
  TTLRooms = {r1}
  WarRooms = {w1}
  MaxGrace = 0
  p = p  a = a  b = b
  Parts = {"relay", "action"}
  Clients = {p, a, b}
  Ids = {p, a, b}
  Requester = p
  Fpr <- OwnIdentity
  Quorum = 3
  MaxVanish = 0
  ServerBurns = FALSE
SPECIFICATION AllSpec
SYMMETRY AllSymmetric
INVARIANTS NoStranded SlotsAccounted StaleBeaconPurged TwoPerson
CHECK_DEADLOCK FALSE
