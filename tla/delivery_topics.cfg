SPECIFICATION Spec
CONSTANTS
  a = a  b = b  i = i  t1 = t1  t2 = t2
  Conn = {a, b}
  Internal = {i}
  Topic = {t1, t2}
  primary <- MCprimary
  Script <- ScriptTopics
  MaxOps <- MCMaxOps
  OpsA = 1  OpsB = 3  OpsI = 1
  QueueSize = 1
  Pinged = {b}
  Breaks = {}
  Denied <- DeniedU
  None = None
INVARIANTS
  PublicationReaches
  OnlyEntitledReceive
  SubscribedWhenConfirmed
CHECK_DEADLOCK FALSE
