SPECIFICATION Spec
CONSTANTS
  e1 = e1
  k1 = k1
  Fields = {"f", "g"}
  Values = {1, 2}
  Removed = Removed
  Nil = Nil
  NoKey = NoKey
  Writers = {w1, w2}
  Entities = {e1}
  Keys = {k1}
  Commands <- LockCommands
  FirstEventOp = "create"
  SnapshotInterval = 2
  PreStore = "off"
  MaxAppendRetries = 2
  MaxWrites = 3
  MaxAborts = 0
INVARIANT
  OptimisticLock
