CONSTANTS
  Writers = {loop}
  Clients = {c1, c2}
  Limit = 2
  MaxEvents = 3
  MaxTears = 1
SPECIFICATION FairSpec
INVARIANTS SeqIsPosition ClientSeesPrefix
PROPERTIES ImplementsStream EverythingArrives
