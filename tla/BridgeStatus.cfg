\* One bridge with two connections, two reports under way at once; no symmetry, which liveness
\* does not allow.
CONSTANTS
  Bridges = {b1}
  Conns = {c1, c2}
  Devices = {d1}
  MaxReports = 4
  MaxInFlight = 2
  None = None
SPECIFICATION FairSpec
INVARIANTS TypeOK AnnouncedIsTrue DisposeIsFinal
PROPERTY EventuallyTold
CHECK_DEADLOCK FALSE
