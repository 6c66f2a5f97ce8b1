SPECIFICATION FairSpec
CONSTANTS
  Inst = {p1, p2, Core}
  Secs = {}
  Others = {p2}
  Internal = {Core}
  MayUnregister = {}
  Senders = {}
  Kicked = {}
  Listing = FALSE
  ForceRegister = FALSE
  Topic = {"BROKER_INFO_TOPIC"}
  Workers = 1
  Name <- MCName
  name <- MCname
  primary_name <- MCprimary_name
  Lister = Lister
  Core = Core
  None = None
PROPERTIES
  AnnounceEnds
