CONSTANTS
  cp = cp  ca = ca  cb = cb  cd = cd
  Clients = {cp, ca, cb, cd}
  Proposer = cp
  Fpr <- FprOfFour
  Quorum = 2
  MaxLoss = 0
SPECIFICATION Spec
INVARIANT AtMostOneWriter
CHECK_DEADLOCK FALSE
