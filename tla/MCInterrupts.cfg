SPECIFICATION Spec
CONSTANTS
  Printing <- MCPrinting
  Mute <- MCMute
  SlaveLines = {14}
  MaxTyped = 4
  MaxRaised = 1
INVARIANTS
  TypeOK
  PendingByteRequested
  ServiceMatchesHandler
  ShiftTracksKeys
PROPERTIES
  MasterLinesServed
  TextSpec
