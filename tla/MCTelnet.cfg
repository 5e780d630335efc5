SPECIFICATION Spec
CONSTANTS
  Interfaces = {"eth0"}
  Numbers <- Numerals
  FamilyOf <- Addresses
  Lines <- Typed
  BufferSize = 9
  MaxAhead = 1
  Restored <- Configurations
INVARIANTS
  TelnetTypeOK
  LineStaysWhole
  OnlyHasteKills
  ManualIsUnderstood
PROPERTIES
  Responds
