SPECIFICATION FairSpec
CONSTANTS
  w1 = w1  w2 = w2
  None = None
  Job = {1, 2, 3}
  Worker = {w1, w2}
  Unsupported = {2}
  MAX_ATTEMPTS = 2
  MAX_BATCH_SIZE = 2
  MaxFaults = 1
INVARIANTS TypeOK OneRunner RunsAccounted
PROPERTIES KeepsPromise SettledOrStranded
\* Everything may be finished, with nothing left to do.
CHECK_DEADLOCK FALSE
