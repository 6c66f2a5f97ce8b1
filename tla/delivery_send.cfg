SPECIFICATION FairSpec
CONSTANTS
  a = a  b = b  i = i  t1 = t1  t2 = t2
  Conn = {a, b}
  Internal = {i}
  Topic = {t1}
  primary <- MCprimary
  Script <- ScriptSend
  MaxOps <- MCMaxOps
  OpsA = 2  OpsB = 0  OpsI = 1
  QueueSize = 2
  Pinged = {}
  Breaks = {b}
  Denied = {}
  None = None
INVARIANTS
  TypeOK
  InOrder
  ConfirmedIsQueued
PROPERTIES
  OpsEnd
CHECK_DEADLOCK FALSE
