\* One request beside the backfill and the sweep.
CONSTANTS
  Callers = {r1}
  Sweeps = {s1, s2}
  Bridge1Delay = 0
  Bridge2Delay = 1
  SessionDelay = 1
  Jitter = 0
  MaxClock = 2
  None = None
SPECIFICATION ActivationSpec
SYMMETRY Symmetry
INVARIANT ActivationTypeOK
PROPERTIES MilestonesStay RemindersAreDue
CHECK_DEADLOCK FALSE
