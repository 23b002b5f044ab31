CONSTANTS
  SfPerFrame = 3
  CasFrames = 2
  TtiMod = 6
  McchPeriod = 2
  McchOffset = 0
  SfAllocInfo = 32
  MchSchedPeriod = 2
  SfAllocEnd = 5
  Workers = {w1, w2}
  NOF_HARQ = 2
  UnitsPerSf = 1
  MaxUnits = 2
  MaxQueue = 2
SYMMETRY WorkerSymmetry
SPECIFICATION Spec
INVARIANT BlockIsOwn
