\* Reports arrive and are handled one by one, in order: only the push overlaps them.
CONSTANTS
  Bridges = {b1}
  Conns = {c1}
  Devices = {}
  MaxReports = 4
  MaxInFlight = 1
  None = None
SPECIFICATION Spec
PROPERTY OnlineAnswersOffline
CHECK_DEADLOCK FALSE
