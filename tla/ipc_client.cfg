SPECIFICATION SessionSpec
CONSTANTS
  op1 = op1  op2 = op2  op3 = op3  op4 = op4
  None = None
  Modes = {TRUE, FALSE}
  Op = {op1, op2, op3, op4}
  Ping = {op4}
  ack = {op1, op2}
  after <- MCAfter
  MaxId = 2
  QueueSize = 1
  MaxEvents = 2
  Stalls = TRUE
  MayCancel = {op1}
  Breaks = TRUE
  Kind = {"async", "sync", "other"}
  Slow = TRUE
INVARIANTS
  SessionTypeOK
  AnswerIsTrue
  IntactUnlessDisconnected
  AckAnswersFrame

  
CHECK_DEADLOCK FALSE
