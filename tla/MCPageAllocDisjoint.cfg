SPECIFICATION Spec
CONSTANTS
  PageSize = 16
  ByteBits = 4
  SizeofWord = 2
  SizeofPage = 2
  SizeofZone = 3
  BootInfos <- PcBootInfos
  AllocFlags <- MCAllocFlags
  GapWords <- MCGapWords
  Strays <- MCStrays
  MaxAllocs = 3
INVARIANTS
  RunsDisjoint
