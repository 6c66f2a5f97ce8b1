SPECIFICATION Spec
CONSTANTS
  peerA = peerA  peerB = peerB
  op1 = op1  op2 = op2  op3 = op3  op4 = op4  op5 = op5  op6 = op6
  None = None
  Peer = {peerA, peerB}
  Sync = {peerB}
  Op = {op1, op2, op3, op4, op5, op6}
  kind <- MixedKind
  caller <- MixedCaller
  target <- MixedTarget
  ack = {op1}
  within <- MixedWithin
  MaxId = 2
  Pool = 1
  PoolSize <- MCPool
  Inline = {peerB}
  MayCancel = {op1}
  Breaks = {peerB}
  Restarts = {peerA}
  LongTimeout = FALSE
INVARIANTS
  TypeOK
  ReplyAnswersCall
  EntriesMatchCalls
CHECK_DEADLOCK FALSE
