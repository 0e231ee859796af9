CONSTANTS
  p = p  a = a  b = b
  Clients = {p, a}
  Ids = {p, a}
  Requester = p
  Fpr <- OwnIdentity
  Quorum = 2
  MaxVanish = 1
  ServerBurns = FALSE
SPECIFICATION ActionFairSpec
PROPERTY ExecutedBurns
CHECK_DEADLOCK FALSE
