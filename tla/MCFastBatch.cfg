SPECIFICATION FairSpec
CONSTANTS
  e1 = e1
  k1 = k1
  Entities = {e1}
  Keys = {k1}
  NoKey = NoKey
  Nil = Nil
  Publishers = {p1}
  Commands <- FastCommands
  StrictValues = {3}
  Capacity = 1
  Size = 2
  PreStore = TRUE
  MayStop = TRUE
  FaultKinds = {"config", "load", "plugin", "insert", "upsert", "crash"}
  MaxWrites = 3
  MaxFaults = 1
INVARIANTS
  GapFreeHistory
  FastHistoryIsTold
  FastChainLinear
PROPERTIES
  EveryFastWriteSettles
  EveryPublishReturns
