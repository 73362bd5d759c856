SPECIFICATION BuilderSpec
CONSTANTS
  ready = ready
  other = other
  unclear = unclear
  k1 = k1
  Agents = {a0, a1, a2}
  OldAgent = a0
  NoAgent = NoAgent
  Keys = {k1}
  Template <- Templates
  Tabs = {t1}
  Commits = {c1, c2}
  Configs = {ready, other, unclear}
  Verdict <- Verdicts
  Suggested <- Suggestions
  NoConfig = NoConfig
  MaxCopies = 1
SYMMETRY Symmetry
INVARIANTS VersionsBranchOnlyByOverlap SuccessMeansConfigured NothingLiveUnreviewed
CHECK_DEADLOCK FALSE
