CONSTANTS
  Words = {3, 6}
  Calls = {3, 6}
  Wrap = 4
SPECIFICATION Spec
INVARIANTS TypeOK NothingInService NumberIsOwn
PROPERTIES ContextRestored NoneMissed TicksCounted
