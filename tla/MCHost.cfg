SPECIFICATION HostSpec
CONSTANTS
  r1 = r1
  r2 = r2
  a24 = a24
  b24 = b24
  Routers <- TwoRouters
  IPv4 = TRUE
  VlanId = 0
  MacvlanOutcomes = {TRUE, FALSE}
  Subnets <- TwoSubnets
  AddressOf <- AddressOfTwo
  InitialSubnets <- StartsEmpty
  InterfaceIp <- Ip
  PrimaryIps = {}
  Priorities = {0, 100, 255}
  Intervals = {100}
  PreemptModes = {TRUE}
  AcceptModes = {TRUE, FALSE}
  Commands = {}
  Packets = {}
  TimeSteps = {10000}
  LookupOutcomes = {TRUE}
  MaxLinkEvents = 0
  Tuned = {r1}
  SubnetsOf <- FirstHasBoth
  MaxRefusals = 1
INVARIANTS
  TypeOK
  HostedOnlyByMaster
  ServesAdvertised
  AnswersFollowMasters
