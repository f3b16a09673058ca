SPECIFICATION Spec
CONSTANTS
  Nodes = {n1, n2, n3}
  Values = {v1, v2}
  Threads = {t1}
  OneCallPerNode = TRUE
  InitiallyVerified <- AllVerified
  MaxTerm = 3
  MaxLog = 2
  NoVote = NoVote
  NoReply = NoReply
  Idle = Idle
SYMMETRY NodeSymmetry
INVARIANTS TypeOK LogMatching StateMachineSafety CommittedIsReplicated
PROPERTY CommitsAreFinal
CHECK_DEADLOCK FALSE
