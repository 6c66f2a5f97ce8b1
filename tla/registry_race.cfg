SPECIFICATION Spec
CONSTANTS
  Inst = {p1, p2, p3}
  Secs = {}
  Others = {}
  Internal = {}
  MayUnregister = {}
  Senders = {}
  Kicked = {}
  Listing = FALSE
  ForceRegister = TRUE
  Topic = {}
  Workers = 2
  Name <- MCName
  name <- MCname
  primary_name <- MCprimary_name
  Lister = Lister
  Core = None
  None = None
INVARIANTS
  UniqueRegistered
