SPECIFICATION SortedSpec
CONSTANTS
  r1 = r1
  r2 = r2
  r3 = r3
  Routers <- ThreeRouters
  IPv4 = TRUE
  VlanId = 0
  MacvlanOutcomes = {TRUE}
  Subnets = {}
  AddressOf <- AddressOfNone
  InitialSubnets <- NoAddresses
  InterfaceIp <- Ip3
  PrimaryIps = {}
  Priorities = {1, 100}
  Intervals = {2}
  PreemptModes = {TRUE}
  AcceptModes = {FALSE}
  Commands = {}
  Packets = {}
  TimeSteps = {10}
  LookupOutcomes = {TRUE}
  MaxLinkEvents = 0
  MaxLosses = 0
  MaxCrashes = 0
  MaxInbox = 0
INVARIANTS
  OneMasterWhenQuiet
PROPERTIES
  ImplementsGroup
