SPECIFICATION Spec
CONSTANTS
  e1 = e1
  e2 = e2
  Entries <- FourRouters
  Saved <- Namesakes
INVARIANTS
  RegistryTypeOK
  NothingDangles
  EveryoneHears
  MembersCounted
  DevicesOwned
PROPERTIES
  RestartRestores
