\* One lead, two jobs for it, one worker, one outside change, no faults.
SPECIFICATION Spec
CONSTANTS
  NoWorker = NoWorker
  NoJob = NoJob
  NoLead = NoLead
  NoDisposition = NoDisposition
  Jobs = {j1, j2}
  Workers = {w1}
  Leads = {l1}
  Caps = {2}
  MaxFaults = 0
  MaxAttempts = 2
  MaxPerHour = 2
  MaxChanges = 1
PROPERTY BlockedIsTerminal
CHECK_DEADLOCK FALSE
