\* One job, two workers: a single crash while a worker holds the job.
SPECIFICATION FairSpec
CONSTANTS
  NoWorker = NoWorker
  NoJob = NoJob
  Jobs = {j1}
  Workers = {w1, w2}
  Caps = {2}
  MaxFaults = 1
PROPERTY CrashSafe
CHECK_DEADLOCK FALSE
