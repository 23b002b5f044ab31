\* A callback stops the timer that step_all visits next.
CONSTANTS
  MaxTimers = 2
  Capacity = 2
  WHEEL_SIZE = 2
  TicMod = 4
  Durations = {2}
  Users = {FALSE}
SPECIFICATION Spec
PROPERTY StoppedNotCalled
