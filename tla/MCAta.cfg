SPECIFICATION Spec
CONSTANTS
  SectorWords = 6
  SectorCount = 1
INVARIANTS
  TypeOK
  DriveIsReady
  OnlyBufferReachesMedium
  ReadsBackWritten
PROPERTIES
  AtaInitReturns
