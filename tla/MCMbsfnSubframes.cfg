\* The values rrc::configure_mbsfn_sibs and sib.conf.mbsfn.example give.
CONSTANTS
  SfPerFrame = 10
  CasFrames = 4
  TtiMod = 10240
  McchPeriod = 64
  McchOffset = 0
  SfAllocInfo = 32
  MchSchedPeriod = 64
  SfAllocEnd = 624
SPECIFICATION Walk
INVARIANT SfIdxCounts
INVARIANT McsAgrees
