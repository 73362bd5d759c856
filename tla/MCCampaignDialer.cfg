\* One lead, two jobs for it, two workers, one fault, one outside change.
SPECIFICATION Spec
CONSTANTS
  NoWorker = NoWorker
  NoJob = NoJob
  NoLead = NoLead
  NoDisposition = NoDisposition
  Jobs = {j1, j2}
  Workers = {w1, w2}
  Leads = {l1}
  Caps = {2}
  MaxFaults = 1
  MaxAttempts = 2
  MaxPerHour = 1
  MaxChanges = 1
SYMMETRY MCSymmetry
INVARIANTS DialsPerJobCapped OptOutOvershoot HourlyOvershoot CompletedMeansDecided InProgressIsAwaited
CHECK_DEADLOCK FALSE
