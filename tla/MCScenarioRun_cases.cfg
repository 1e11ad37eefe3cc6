CONSTANTS
  pay = pay  view = view  card = card  bank = bank  backup = backup
  None = None
  Nodes = {pay, view, card, bank, backup}
  Capabilities = {pay, view}
  Capability = pay
  Unit = 4
  LatencyShare = 3
  Geographies = {}
  Standing <- EdgeStanding
  Doubtful = {5, 6}
  Observability <- NodeObservability
  Tolerated = 1
  Horizon = 120
  MaxRequests = 3
  Actions = {1, 2, 3, 4, 5}
  Profile <- Actions5
  Weights <- AllWeights
  MaxSetSize = 2
  ExhaustiveLimit = 3
  MaxRunnersUp = 2
  IncidentEnd = 40
  Recovery <- RecoveryTimes
  Spare <- SpareSet
  Cases <- ProperCases
SPECIFICATION Spec
CHECK_DEADLOCK FALSE
INVARIANTS ValidationIsExact RadiusIsExact FlowSolvesEquations MappingIsFair ContainmentIsBest HidingIsReported CaseIsHonest
