SPECIFICATION OperatorSpec
CONSTANTS
  r1 = r1
  Routers <- OneRouter
  IPv4 = TRUE
  VlanId = 0
  MacvlanOutcomes = {TRUE}
  Subnets = {}
  AddressOf <- AddressOfNone
  InitialSubnets <- NoAddresses
  InterfaceIp <- Ip1
  PrimaryIps = {}
  Priorities = {100}
  Intervals = {100}
  PreemptModes = {TRUE}
  AcceptModes = {FALSE}
  Commands = {}
  Packets = {}
  TimeSteps = {10000}
  LookupOutcomes = {TRUE}
  MaxLinkEvents = 1
INVARIANTS
  DisabledStays
