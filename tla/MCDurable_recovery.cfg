SPECIFICATION FairSpec
CONSTANTS
  k1 = k1
  Keys = {k1}
  NoKey = NoKey
  Nil = Nil
  Clients = {c1, c2}
  Workers = {w1}
  Requests <- RecoveryRequests
  MaxDepth = 1
  MaxItems = 2
  ReserveTries = 2
  FaultKinds = {"queue", "mongo", "crash"}
  MaxRequests = 2
  MaxFaults = 1
INVARIANTS
  AppliedInOrder
  NoOrphanReservation
PROPERTIES
  TerminalTicketsStay
  EveryWriteSettles
  BackpressureLifts
