\* Two requests for the status, one registration, one producer; no symmetry, which
\* liveness does not allow.
CONSTANTS
  Polls = {p1, p2}
  Registers = {r1}
  Realtime = rt
  Producers = {w1}
SPECIFICATION FairSpec
INVARIANTS TypeOK PollsAreHonest ClosedIsUnused
PROPERTY EveryPollAnswered
CHECK_DEADLOCK FALSE
