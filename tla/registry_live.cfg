SPECIFICATION FairSpec
CONSTANTS
  Inst = {p1, s1, Core}
  Secs = {s1}
  Others = {}
  Internal = {Core}
  MayUnregister = {}
  Senders = {s1}
  Kicked = {"n"}
  Listing = FALSE
  ForceRegister = FALSE
  Topic = {"BROKER_INFO_TOPIC"}
  Workers = 2
  Name <- MCName
  name <- MCname
  primary_name <- MCprimary_name
  Lister = Lister
  Core = Core
  None = None
PROPERTIES
  ToldEnds
  SectionsEnd
