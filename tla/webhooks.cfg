SPECIFICATION FairSpec
CONSTANTS
  j1 = j1  j2 = j2  w1 = w1  w2 = w2
  Job = {j1}
  Worker = {w1}
  MAX_ATTEMPTS = 3
  Durable = FALSE
  MaxCopies = 2
  MaxFaults = 2
INVARIANTS TypeOK DoneMeansApplied FailedAfterMax AttemptsCapped
PROPERTIES FinishedStays FinishedOrForgotten
\* Everything may be finished, with nothing left to do.
CHECK_DEADLOCK FALSE
