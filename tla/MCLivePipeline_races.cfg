CONSTANTS
  status = status  kev = kev  weather = weather
  e1 = e1  e2 = e2  e3 = e3  e4 = e4  pack1 = pack1
  Connectors = {status, kev, weather}
  Events = {e1, e2, e3}
  Source <- ThreeFeeds
  Group <- SharedGroup
  Strength <- AllWeak
  Matching <- BothMatch
  Packs = {pack1}
  Global = Global
  Streams = {pack1, Global}
  Polls = {p1, p2}
  Handlers = {h1}
  Users = {"analyst"}
  NoHypothesis = NoHypothesis
  Window = 1
  MaxVersion = 1
  MaxTime = 0
  MaxFaults = 1
SPECIFICATION Spec
INVARIANTS TypeOK AuditExplainsState RelevanceIsSupported AttachedAreStored
SYMMETRY AnyPoll
