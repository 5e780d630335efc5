SPECIFICATION FairLoopSpec
CONSTANTS
  r1 = r1
  Routers <- OneRouter
  IPv4 = TRUE
  VlanId = 0
  MacvlanOutcomes = {TRUE}
  Subnets = {}
  AddressOf <- AddressOfNone
  InitialSubnets <- NoAddresses
  InterfaceIp <- Ip1
  PrimaryIps = {}
  Priorities = {0, 100, 255}
  Intervals = {100}
  PreemptModes = {TRUE}
  AcceptModes = {FALSE}
  Commands = {}
  Packets <- Rivals
  TimeSteps = {10000}
  LookupOutcomes = {TRUE, FALSE}
  MaxLinkEvents = 1
  MaxReceived = 1
INVARIANTS
  TimerDiscipline
  StopsWithInterface
PROPERTIES
  EndsWhenSignalled
CHECK_DEADLOCK FALSE
