SPECIFICATION ViewSpec
CONSTANTS
  Inst = {p1, p2, s1, Core}
  Secs = {s1}
  Others = {}
  Internal = {Core}
  MayUnregister = {}
  Senders = {p1, s1}
  Kicked = {}
  Listing = FALSE
  ForceRegister = TRUE
  Topic = {"BROKER_INFO_TOPIC"}
  Workers = 1
  Name <- MCName
  name <- MCname
  primary_name <- MCprimary_name
  Lister = Lister
  Core = Core
  None = None
INVARIANTS
  TypeOK
  IndexesAgree
  RegisteredIsListed
  SecondariesLinked
  EvictedAreTold
  AnnouncedOnce
PROPERTIES
  ImplementsNames
