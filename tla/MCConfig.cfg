SPECIFICATION FairSpec
CONSTANTS
  Nodes = {n1, n2}
  Handlers = {h1, h2}
  Bodies <- MCBodies
  Omitted = Omitted
  Nil = Nil
  AutoCreate = TRUE
  FaultKinds = {"mongo", "crash"}
  MaxPuts = 2
  MaxFaults = 1
INVARIANT
  ConfigsAreSound
PROPERTIES
  CachesConverge
  EveryRecordIsProvisioned
