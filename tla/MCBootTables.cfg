SPECIFICATION Spec
CONSTANTS
  B = 4
  Entries = 8
  LargePage = 16
  Vectors = 6
  FirstIrq = 2
  Irqs = 3
  Layouts <- MCLayouts
  IntrGate = 2
  TssType = 3
  KernelCs = 8
  TssLimit = 13
INVARIANTS
  MappedTwice
  VectorsLeadToHandlers
  TaskRegisterLeadsToStacks
