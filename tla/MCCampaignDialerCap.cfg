\* One lead allowed a single attempt, two jobs for it, one worker, no faults.
SPECIFICATION Spec
CONSTANTS
  NoWorker = NoWorker
  NoJob = NoJob
  NoLead = NoLead
  NoDisposition = NoDisposition
  Jobs = {j1, j2}
  Workers = {w1}
  Leads = {l1}
  Caps = {2}
  MaxFaults = 0
  MaxAttempts = 1
  MaxPerHour = 2
  MaxChanges = 0
INVARIANT CampaignHardCap
CHECK_DEADLOCK FALSE
