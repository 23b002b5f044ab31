CONSTANTS
  Queues = {"sync", "mme", "gtpu", "metrics", "enb"}
  MaxInbox = 1
  Arrivals = {"response", "shutdown", "empty"}
  Capacity <- MCCapacity
SPECIFICATION Spec
PROPERTIES
  Retries
  MetricsAnswered
  StopReturns
