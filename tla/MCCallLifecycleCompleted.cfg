\* One call, two events that report it ended and two that report it answered.
SPECIFICATION Spec
CONSTANTS
  NoEvent = NoEvent
  Calls = {c1}
  Words = {"in_progress", "completed"}
  Copies = {1, 2}
INVARIANT CompletedFiresOnce
CHECK_DEADLOCK FALSE
