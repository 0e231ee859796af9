CONSTANTS
  cp = cp  ca = ca  cb = cb  cd = cd
  Parts = {"approval", "record", "roster", "identity", "ingest", "adapters", "app"}
  Clients = {cp, ca, cb}
  Proposer = cp
  Fpr <- FprOfThree
  Quorum = 2
  MaxLoss = 1
  Authors = {"alice", "bob"}
  Rooms = {"ops", "lab"}
  EntrySpecs <- MCEntrySpecs
  Meanings = {"ok"}
  Roles = {"qa"}
  MaxChain = 2
  MaxSealerOps = 2
  MaxAlter = 1
  Holders = {"a", "b"}
  Attesters = {"a"}
  Joiners = {"j"}
  MaxRosters = 2
  MaxRatchets = 1
  MaxFlux = 1
  Issuers = {"i1", "i2"}
  Subjects = {"s1", "s2"}
  Members = {"s1"}
  Displays = {"Ann"}
  Serials = {"n1"}
  Lifetimes = {0, 1}
  LongLived = 1
  Skews = {1}
  Faults = {"version", "parse"}
  MaxTime = 4
  MaxIssued = 1
  MaxStatements = 2
  MaxDamage = 1
  MaxFiled = 2
  Handle <- MCHandle
  Trusts <- MCTrusts
  MaxShown = 1
  RawConfigs <- MCRawConfigs
  Payloads <- MCPayloads
  Minute = 2
  Hour = 3
  MinTTL = 1
  MaxTTL = 4
  DefaultRate = 3
  DefaultSpawn = 1
  DefaultUnauth = 1
  DefaultWindow = 2
  DefaultSkew = 1
  MaxClock = 4
  MaxPosted = 1
  MaxRequests = 3
  Setups <- MCSetups
  Batches <- MCBatches
  MaxDeliveries <- MCDeliveries
  MaxRepeats = 1
  RoomNames = {"a", "b"}
  First = "a"
  WarRoom = "b"
  Sittings <- MCSittings
  EventCap = 1
  MaxCores = 3
SPECIFICATION AllSpec
INVARIANTS QuorumBacked AtMostOneWriter EvidenceBacked SealerVerifies RosterTrue NamesAreVouched VerdictMonotone LimitsFair NothingSwallowed EventsFlow ClientsAnswered MacrosRun
CHECK_DEADLOCK FALSE
