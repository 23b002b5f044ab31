\* Three tunnels for a UE with two bearers, five in all: both limits are reached
CONSTANTS
  Rntis = {1, 2}
  Bearers = {5, 6}
  MaxTunnelsPerUe = 3
  MaxTunnels = 5
  BufferSize = 1
  IndirectTimeout = TRUE
  MaxTeid = 4

SPECIFICATION Spec
CHECK_DEADLOCK FALSE

INVARIANTS
  TypeOK
  DbConsistent
  ForwardingPaired
  BufferThere
  FlushedFirst
  NothingStranded
  SomeoneActivates
  ServedHere

PROPERTY EndMarkerSent
