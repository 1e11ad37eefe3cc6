CONSTANTS
  status = status  kev = kev  weather = weather
  e1 = e1  e2 = e2  e3 = e3  e4 = e4  pack1 = pack1
  Connectors = {status}
  Events = {e1}
  Source <- LoneFeed
  Group <- OneGroup
  Strength <- OneStrong
  Matching <- LoneMatch
  Packs = {pack1}
  Global = Global
  Streams = {pack1}
  Polls = {p1, p2}
  Handlers = {}
  Users = {"analyst"}
  NoHypothesis = NoHypothesis
  Window = 1
  MaxVersion = 2
  MaxTime = 1
  MaxFaults = 2
SPECIFICATION FairSpec
INVARIANTS SeenIsKept
PROPERTIES EventuallyAttached
