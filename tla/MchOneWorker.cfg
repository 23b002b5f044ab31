CONSTANTS
  SfPerFrame = 2
  CasFrames = 2
  TtiMod = 4
  McchPeriod = 2
  McchOffset = 0
  SfAllocInfo = 32
  MchSchedPeriod = 2
  SfAllocEnd = 2
  Workers = {w1}
  NOF_HARQ = 2
  UnitsPerSf = 2
  MaxUnits = 9
  MaxQueue = 8
SPECIFICATION FairSpec
INVARIANT TypeOK
INVARIANT AiredInOrder
INVARIANT PlanCarriedOut
PROPERTY WithinAnnounced
PROPERTY EventuallyAired
