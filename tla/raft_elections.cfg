SPECIFICATION Spec
CONSTANTS
  Nodes = {n1, n2, n3}
  Values = {v1}
  Threads = {t1, t2}
  OneCallPerNode = TRUE
  InitiallyVerified <- Ring
  MaxTerm = 2
  MaxLog = 1
  NoVote = NoVote
  NoReply = NoReply
  Idle = Idle
SYMMETRY ThreadSymmetry
INVARIANT ElectionSafety
CHECK_DEADLOCK FALSE
