\* Two events and two deletions of a user, and an update of the preference.
CONSTANTS
  Users <- OneUser
  Operations = {o1}
  Recordings = {e1, e2}
  Requests = {d1, d2}
  MaxClock = 1
  None = None
SPECIFICATION Spec
SYMMETRY Symmetry
INVARIANT TypeOK
PROPERTY DeletionIsFinal
CHECK_DEADLOCK FALSE
