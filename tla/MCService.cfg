SPECIFICATION FairSpec
CONSTANTS
  r1 = r1
  Routers <- OneRouter
  IPv4 = TRUE
  VlanId = 0
  MacvlanOutcomes = {TRUE}
  Subnets <- NoSubnets
  AddressOf <- AddressOfNone
  InitialSubnets <- StartsEmpty
  InterfaceIp <- Ip1
  PrimaryIps <- OtherIp
  Priorities <- TimerPriorities
  Intervals <- ShortIntervals
  PreemptModes <- Both
  AcceptModes <- Both
  Commands = {}
  Packets <- AnyIntervalPackets
  TimeSteps <- TenMsec
  LookupOutcomes = {TRUE, FALSE}
  MaxLinkEvents = 2
INVARIANTS
  TimerDiscipline
  BoundedTakeover
  KeepsAnnouncedInterval
  StopsWithInterface
  NotStuckInLinkDown
PROPERTIES
  TakesOverSilence
