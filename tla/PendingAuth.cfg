\* Two attempts, of one token or of two that compete for the one place in the store.
\* Two requests, two provider exchanges in flight; no symmetry, which liveness does not
\* allow.
CONSTANTS
  Tokens = {h1, h2}
  Attempts = {s1, s2}
  Codes = {u1, u2}
  Pollers = {p1, p2}
  Callbacks = {c1, c2}
  MaxSessions = 1
  None = None
SPECIFICATION FairSpec
INVARIANTS TypeOK StoreIsCoherent DeliveryIsSound
PROPERTIES StableUntilAcked ImplementsSignIn EveryPollAnswered
