CONSTANTS
  Bound = 2
  FeedLength = 2
  MaxEvents = 3
  MaxVersion = 2
  Polls = {p1, p2}
  Workers = {w1, w2}
  Types = {"cisa_kev", "sec_edgar"}
  Matching = {1, 3}
  Window = 1
  MaxRequests = 3
  None = None
SYMMETRY Symmetry
SPECIFICATION Spec
CHECK_DEADLOCK FALSE
INVARIANTS CursorIsCovered SignalsHaveSource
PROPERTIES  DisabledStaysSilent
