\* Two senders and two deliveries of a bounce, beyond the provider's window.
CONSTANTS
  Senders = {s1, s2}
  Deliveries = {w1, w2}
  Lease = 1
  Window = 2
  CallLimit = 1
  ProviderWindow = 3
  Day = 4
  Cap = 2
  MaxClock = 5
  None = None
SPECIFICATION Spec
SYMMETRY Symmetry
INVARIANTS TypeOK OneEmail AcknowledgedIsSuppressed
CHECK_DEADLOCK FALSE
