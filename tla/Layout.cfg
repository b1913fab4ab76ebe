SPECIFICATION Spec
CONSTANTS
  Types <- MCTypes
  Word = 8
  IntRegs = 4
  FloatRegs = 3
  FloatBytes = 8
  Window = 80
  StubMaxWords = 6
  MaxIn = 3
  MaxOut = 2
CHECK_DEADLOCK FALSE
INVARIANTS
  TypeOK
  RegistersExclusive
  ValuesWhole
  StackDisjoint
  GreedyFit
  PointersExact
  GatherDisjoint
