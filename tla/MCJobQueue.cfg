\* Two jobs, two workers, caps 1 and 2, up to two faults.
SPECIFICATION FairSpec
CONSTANTS
  NoWorker = NoWorker
  NoJob = NoJob
  Jobs = {j1, j2}
  Workers = {w1, w2}
  Caps = {1, 2}
  MaxFaults = 2
INVARIANTS ExclusiveClaim HardAttemptCap
PROPERTIES SettledRowsStay EveryJobSettles KeepsContract
CHECK_DEADLOCK FALSE
