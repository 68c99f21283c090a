SPECIFICATION FairSpec
CONSTANTS
  Dispatchers = {d1, d2}
  Admins = {r1}
  Triggers <- AllTriggers
  Answers = {"ok", "refused", "unheard"}
  DefaultAttempts = 2
  PageSize = 1
  FaultKinds = {"publish", "save", "delete", "ack", "stop", "crash", "slow"}
  MaxHooks = 1
  MaxRedelivers = 1
  MaxFaults = 1
PROPERTY
  EveryDeliveryConcludes
