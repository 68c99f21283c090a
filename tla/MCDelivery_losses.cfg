SPECIFICATION Spec
CONSTANTS
  Dispatchers = {d1, d2}
  Admins = {r1}
  Triggers <- OneTrigger
  Answers = {"ok", "refused"}
  DefaultAttempts = 2
  PageSize = 2
  FaultKinds = {"publish", "ack", "save", "delete", "crash", "stop", "slow"}
  MaxHooks = 1
  MaxRedelivers = 1
  MaxFaults = 2
INVARIANT
  OnlyKnownLosses
SYMMETRY Symmetry
