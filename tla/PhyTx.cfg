\* EN-DC: LTE and NR workers combine their samples.
CONSTANTS
  NofLte = 2
  NofNr = 2
  TtiMod = 3
  Delay = 1
SPECIFICATION Spec
INVARIANTS TypeOK TxCoherent SchedInSlotOrder NothingLeftAtStop
PROPERTY TxInOrder
