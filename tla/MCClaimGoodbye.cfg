SPECIFICATION Spec
CONSTANTS
  r1 = r1
  Routers <- OneRouter
  IPv4 = TRUE
  VlanId = 0
  MacvlanOutcomes = {TRUE}
  Subnets <- NoSubnets
  AddressOf <- AddressOfNone
  InitialSubnets <- StartsEmpty
  InterfaceIp <- Ip1
  PrimaryIps = {}
  Priorities <- TimerPriorities
  Intervals <- ShortIntervals
  PreemptModes = {TRUE}
  AcceptModes = {FALSE}
  Commands = {}
  Packets <- TimerPackets
  TimeSteps <- TenMsec
  LookupOutcomes = {TRUE}
  MaxLinkEvents = 0
INVARIANTS
  BackupTimerRuns
