\* Liveness, and the refinement of the single-threaded transmitter.
CONSTANTS
  NofLte = 2
  NofNr = 1
  TtiMod = 4
  Delay = 1
SPECIFICATION FairSpec
PROPERTIES ImplementsTransmitter EveryTtiSent StopReturns
