CONSTANTS
  Queues = {"sync", "mme", "gtpu", "metrics", "enb"}
  Capacity <- MCLongMmeQueue
  MaxInbox = 1
  Arrivals = {"response", "shutdown", "empty", "other", "packet"}
SPECIFICATION Spec
INVARIANTS
  TypeOK
  NeverForgotten
  ConnectedIsHeard
  ManagerConsistent
