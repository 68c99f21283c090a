SPECIFICATION Spec
CONSTANTS
  e1 = e1
  k1 = k1
  Fields = {"f", "g"}
  Values = {1, 2}
  Removed = Removed
  Nil = Nil
  NoKey = NoKey
  Writers = {w1}
  Entities = {e1}
  Keys = {k1}
  Commands <- SerialCommands
  FirstEventOp = "create"
  SnapshotInterval = 2
  PreStore = "open"
  MaxAppendRetries = 2
  MaxWrites = 5
  MaxAborts = 1
INVARIANTS
  ChainIsLinear
  CurrentIsLatest
  ReplayIsWhatWasWritten
  OptimisticLock
PROPERTY
  CurrentNeverRegresses
