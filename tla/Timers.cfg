\* Users of both kinds.  Timers share the slots of a wheel of two, and the
\* clock wraps after six tics.
CONSTANTS
  MaxTimers = 2
  Capacity = 1
  WHEEL_SIZE = 2
  TicMod = 6
  Durations = {0, 2, 3}
  Users = {TRUE, FALSE}
SPECIFICATION Spec
INVARIANTS TypeOK WheelConsistent FreeListConsistent ElapsedWithinDuration
PROPERTY OnlyExpiredCalled
