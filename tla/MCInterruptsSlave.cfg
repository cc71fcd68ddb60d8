SPECIFICATION Spec
CONSTANTS
  Printing <- MCPrinting
  Mute <- MCMute
  SlaveLines <- MCSlaveLines
  MaxTyped = 0
  MaxRaised = 2
PROPERTIES
  SlaveLinesServed
