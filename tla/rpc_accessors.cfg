SPECIFICATION FairSpec
CONSTANTS
  MaxWrites = 3
  Cap = 2
  Stalls = TRUE
  Cursor = {c1, c2}
  Caller = {t1, t2}
  cleaner = cleaner
  Topic <- MCTopic
  Prefix <- MCPrefix
  Handler = {h1, h2}
  Proc = {p1}
  MaxFrames = 3
  MaxRegs = 3
  ChanSize = 2
  Path = {x1, x2}
  Socket = {x1}
  Kind = {"async", "sync", "other"}
  Slow = TRUE
  SENDER <- MCSender
  TARGET <- MCTarget
  RECEIVER <- MCReceiver
  RpcId <- MCRpcId
  RpcCode <- MCRpcCode
  Method <- MCMethod
  Data <- MCData
  Raw <- MCRaw
  Nil = Nil
  None = None
INVARIANTS
  AccessorsDoNotPanic
CHECK_DEADLOCK FALSE
