SPECIFICATION FairSpec
CONSTANTS
  e1 = e1
  k1 = k1
  Fields = {"f", "g"}
  Values = {1, 2}
  Removed = Removed
  Nil = Nil
  NoKey = NoKey
  Writers = {w1, w2}
  Entities = {e1}
  Keys = {k1}
  Commands <- RaceCommands
  FirstEventOp = "create"
  SnapshotInterval = 2
  PreStore = "closed"
  MaxAppendRetries = 2
  MaxWrites = 3
  MaxAborts = 1
INVARIANTS
  TypeOK
  GapFreeHistory
  MaterializedIsHistory
  AnswersAreTrue
  CollisionsAreProgress
PROPERTIES
  EveryWriteAnswered
  RefinesHistory
