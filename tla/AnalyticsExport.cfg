\* Two runs while two users change twice: they opt in or out, are deleted or become
\* internal.
CONSTANTS
  Users <- TwoUsers
  Operations = {o1, o2}
  Requests = {d1}
  Lifetime = 2
  MaxClock = 2
  Runs = {r1, r2}
  BatchLimit = 1
  MaxChanges = 2
  None = None
SPECIFICATION ExportSpec
SYMMETRY Symmetry
INVARIANTS ExportTypeOK LeaseIsKept ExportIsSound
CHECK_DEADLOCK FALSE
