CONSTANTS
  outage = outage  outageRenamed = outageRenamed  fire = fire
  i1 = i1  g1 = g1  a = a  b = b  wait = wait  failover = failover
  Workers = {w1, w2}
  Graphs = {g1}
  GraphContents = {a, b}
  Incidents = {i1}
  IncidentContents = {outage, outageRenamed, fire}
  Fixture <- SeededIncident
  Effect <- TwoEffects
  NoActions = wait
  ActionSets = {wait, failover}
  Feasible = {wait, failover}
  Reversible = {wait}
  Weights = {default, tuned}
  DefaultWeights = default
  Overrides = {FALSE, TRUE}
  ClientCases <- PostedCases
  None = None
  MaxRequests = 6
  MaxCrashes = 1
SPECIFICATION Spec
CHECK_DEADLOCK FALSE
INVARIANTS RecordsResolve ReplayIsFaithful ForkIsDeterministic
PROPERTIES Immutable
