SPECIFICATION Spec
CONSTANTS
  Inst = {p1, p2, s1}
  Secs = {s1}
  Others = {}
  Internal = {p1}
  MayUnregister = {p1}
  Senders = {s1}
  Kicked = {}
  Listing = TRUE
  ForceRegister = TRUE
  Topic = {}
  Workers = 3
  Name <- MCName
  name <- MCname
  primary_name <- MCprimary_name
  Lister = Lister
  Core = None
  None = None
INVARIANTS
  LockOrder
  HolderNeverBlocked
  DoneIsGone
