\* One call (calls do not interact) with any provider, events of each kind:
\* answered, ended in two ways, no status.  The words are both mock's and FreJun's.
SPECIFICATION FairSpec
CONSTANTS
  NoEvent = NoEvent
  Calls = {c1}
  Words = {"in_progress", "completed", "failed", "none"}
  Copies = {1}
INVARIANTS NoEffectTwice LostEffectHasCause EndedIffTerminal RealProvidersUnheard
 
CHECK_DEADLOCK FALSE
