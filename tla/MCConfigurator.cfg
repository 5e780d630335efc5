SPECIFICATION Spec
CONSTANTS
  Addresses <- AllAddresses
  Size <- Strings
  Shortened <- FirstBytes
  StreamBuffer = 325
  Interfaces <- TwoInterfaces
  Removable = {"eth1"}
  Routers <- SomeRouters
  Cuts = {0, 1, 2, 3, 11, 13, 17, 21, 24, 25, 37}
  MaxIndex = 3
  OldFiles <- Earlier
  VlanValues = {0, 9}
INVARIANTS
  ConfiguratorTypeOK
  NoneHalfRestored
  SaveIsRestored
PROPERTIES
  RestartChangesNothing
