CONSTANTS
  r1 = r1
  r2 = r2
  host = host
  guest = guest
  Parts = {"file"}
  Receivers = {r1, r2}
  Chunks = 4
  FileWindow = 2
  AckEvery = 2
  AckCap = 1
  WireCap = 2
  MaxDamage = 1
  MaxFrames = 4
  SendCap = 2
  Flushing = {TRUE, FALSE}
  Host = host
  Peers = {guest}
  Lan = TRUE
  Burnable = TRUE
  OutCap = 2
  MaxLines = 1
  Commands <- MCCommands
  Feeds <- MCFeeds
  Self = "bot"
  Backoff = 1
  BatchSize = 2
  MaxTicks = 2
  p = p
  a = a
  Clients = {p, a}
  Ids = {p, a}
  Requester = p
  Fpr <- OwnIdentity
  Quorum = 2
  MaxVanish = 1
  ServerBurns = TRUE
SPECIFICATION AllSpec
INVARIANT SlowestPaced
CHECK_DEADLOCK FALSE
