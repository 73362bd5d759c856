SPECIFICATION OfficeSpec
CONSTANTS
  Callers = {r1, r2}
  Senders = {r1, r2}
  Buckets = {"n8n", "sitesnsign", "signupIp", "loginIp", "e1"}
  NoBucket = NoBucket
  Limit <- LimitOf
  Refs = {x1}
  PriorLead = PriorLead
  NoLead = NoLead
  MaxRotations = 1
  Moves = {m1, m2, m3}
  Stages = {s1, s2}
  NoStage = NoStage
  Appointments = {a1}
  MaxRuns = 2
  Emails = {"e1"}
  NoEmail = "noEmail"
  Providers = {p1, p2, p3}
  Walks = {w1}
  MaxAttempts = 2
  Requests = {q1, q2, q3}
  MaxConnections = 2
  NoRequest = NoRequest
  Streams = {v1, v2}
  MaxStarts = 2
  MaxTools = 1
  MaxChunks = 2
  MaxRestarts = 1
  MaxReports = 3
SYMMETRY CallerSymmetry
INVARIANTS OfficeTypeOK RateOvershoot RetriesAndOptOutsHonoured UncalledLeadHasCause
  HistoryTellsTheStage RemindersHaveCause SignupsAreWhole RolesAreRead
  WalkIsAccountedFor JamNeedsNesting PlaybackHeedsOthers AnsweredTurnsRemembered
  UnbilledHasCause
CHECK_DEADLOCK FALSE
