SPECIFICATION FairSpec
CONSTANTS
  Nodes = {n1}
  Admins = {a1, a2}
  Evaluations = {v1}
  Names = {x}
  Nil = Nil
  FaultKinds = {"mongo", "lost", "crash"}
  MaxChanges = 3
  MaxFaults = 1
INVARIANT
  VersionsAnnouncedOnce
PROPERTY
  EnginesConverge
