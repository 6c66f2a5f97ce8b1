SPECIFICATION FairSpec
CONSTANTS
  peerA = peerA  peerB = peerB
  op1 = op1  op2 = op2  op3 = op3  op4 = op4  op5 = op5  op6 = op6
  None = None
  Peer = {peerA, peerB}
  Sync = {peerA, peerB}
  Op = {op1, op2}
  kind <- CallKind
  caller <- CrossCaller
  target <- CrossTarget
  ack = {}
  within <- Alone
  MaxId = 3
  Pool = 2
  PoolSize <- MCPool
  Inline = {peerA, peerB}
  MayCancel = {}
  Breaks = {}
  Restarts = {}
  LongTimeout = TRUE
PROPERTIES
  GetsResponse
CHECK_DEADLOCK FALSE
