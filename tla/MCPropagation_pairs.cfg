CONSTANTS
  pay = pay  card = card  bank = bank  backup = backup
  Nodes = {pay, card, bank, backup}
  Unit = 4
  Edges <- EdgeSet
  Nets <- AllNets
  Components <- ComponentSet
  Recovery <- RecoveryTimes
  Actions <- BothActions
  EffectiveAt <- EffectTimes
  Remaining <- LeftOver
  Inputs <- AllPairs
  Capabilities = {pay}
  Target <- Levels
  Floor <- Floors
  MaxDepth = 3
  MaxPathways = 2
  Threshold = 1
  Step = 2
  Steps = 18
SPECIFICATION Spec
CHECK_DEADLOCK FALSE
INVARIANTS Monotone KeepsItsDistance CausesComeFirst PathwaysExplain RecoversInTime
