SPECIFICATION Spec
CONSTANTS
  Binaries <- MCBinaries
  Inputs <- MCInputs
  AllocatorNames = {8}
  PageSize = 8
  LowVa = 40
  HighVa = 200
  MinSlide = 40
  MaxSlide = 1000
  MinElem = 8
  MaxElems = 4
  Slide = 64
CHECK_DEADLOCK FALSE
INVARIANT BlocksAreHeap
