SPECIFICATION SortedSpec
CONSTANTS
  r1 = r1
  r2 = r2
  r3 = r3
  Routers <- TwoRouters
  IPv4 = TRUE
  VlanId = 0
  MacvlanOutcomes = {TRUE}
  Subnets = {}
  AddressOf <- AddressOfNone
  InitialSubnets <- NoAddresses
  InterfaceIp <- Ip2
  PrimaryIps = {}
  Priorities = {1, 100, 255}
  Intervals = {2}
  PreemptModes = {TRUE, FALSE}
  AcceptModes = {FALSE}
  Commands = {}
  Packets = {}
  TimeSteps = {10}
  LookupOutcomes = {TRUE}
  MaxLinkEvents = 0
  MaxLosses = 1
  MaxCrashes = 1
  MaxInbox = 1
INVARIANTS
  OneMasterWhenQuiet
  TakeoverBound
PROPERTIES
  Converges
  ConvergesToBest
  ImplementsGroup
  NeverAbandoned
