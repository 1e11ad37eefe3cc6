CONSTANTS
  status = status  kev = kev  weather = weather
  e1 = e1  e2 = e2  e3 = e3  e4 = e4  pack1 = pack1
  Connectors = {status, kev, weather}
  Events = {e1, e2, e3}
  Source <- ThreeFeeds
  Group <- SharedGroup
  Strength <- AllWeak
  Matching <- AllMatch
  Packs = {pack1}
  Global = Global
  Streams = {pack1}
  Polls = {p1}
  Handlers = {h1, h2}
  Users = {"analyst"}
  NoHypothesis = NoHypothesis
  Window = 1
  MaxVersion = 1
  MaxTime = 2
  MaxFaults = 1
SPECIFICATION SerialSpec
INVARIANTS AnnouncedOnce
PROPERTIES OpenRecordOnlyGrows RefinesLifecycle
