CONSTANTS
  Writers = {loop, thread}
  Clients = {c1}
  Limit = 2
  MaxEvents = 3
  MaxTears = 0
SPECIFICATION Spec
INVARIANTS UniqueSeqs
