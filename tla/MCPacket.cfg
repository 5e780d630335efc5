SPECIFICATION Spec
CONSTANTS
  Interfaces = {1, 2}
  Vrids = {1, 2}
  Priorities = {0, 255}
  Intervals = {1, 4095}
  Sources <- TwoSources
  AddressLists <- TwoLists
  Foreign <- OthersPackets
  Bits = {0, 8, 12, 15}
  MaxQueue = 1
  MaxCount = 1
INVARIANTS
  PacketTypeOK
PROPERTIES
  DeliversWhatWasSent
  IntactIsDelivered
  NoiseIsNotBlamed
