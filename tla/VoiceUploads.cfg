\* Two uploads; a batch is flushed when it is full or when the list ends; no symmetry,
\* which liveness does not allow.
CONSTANTS
  Requests = {q1, q2}
  DailyLimit = 2
  MaxSeconds = 2
  Batch = 2
SPECIFICATION FairSpec
INVARIANTS TypeOK JobsHaveAudio ResidueIsAccounted
PROPERTY EveryUploadEnds
CHECK_DEADLOCK FALSE
