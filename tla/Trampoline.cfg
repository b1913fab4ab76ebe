SPECIFICATION Spec
CONSTANTS
  Arches = {"amd64", "arm64"}
  Shapes <- MCShapes
  Dispatch <- DispatchAddress
  Protected <- AtPrologue
INVARIANTS
  TypeOK
  DispatchGetsTheCall
  MapIsTrue
  CallerRestored
  Unwinds
