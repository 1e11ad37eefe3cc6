CONSTANTS
  status = status  kev = kev  weather = weather
  e1 = e1  e2 = e2  e3 = e3  e4 = e4  pack1 = pack1
  Connectors = {status, kev}
  Events = {e1, e2}
  Source <- TwoFeeds
  Group <- TwoGroups
  Strength <- StrongAndWeak
  Matching <- BothMatch
  Packs = {pack1}
  Global = Global
  Streams = {pack1}
  Polls = {p1}
  Handlers = {h1}
  Users = {"analyst"}
  NoHypothesis = NoHypothesis
  Window = 1
  MaxVersion = 1
  MaxTime = 0
  MaxFaults = 0
SPECIFICATION Spec
PROPERTIES ConfirmedStays
