SPECIFICATION Spec
CONSTANTS
  Arches = {"arm64"}
  Shapes <- Generic
  Dispatch <- DispatchAddress
  Protected = {}
INVARIANT
  EveryPCUnwinds
