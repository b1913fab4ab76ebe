SPECIFICATION FairSpec
CONSTANTS
  t1 = t1
  t2 = t2
  init = init
  a = a
  b = b
  plain = plain
  wide = wide
  nobody = nobody
  Threads = {t1, t2}
  Main = init
  Interfaces <- MCInterfaces
  Areas = {a, b}
  Plain = plain
  Wide = wide
  SlotCount = 1
  MaxMethods = 2
  NoOne = nobody
  MaxPages = 4
INVARIANTS
  TypeOK
  SlotsMatch
  ListKeepsAll
  ScanIsSafe
PROPERTIES
  ConstructionEnds
  ImplementsMemoTable
