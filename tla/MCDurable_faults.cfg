SPECIFICATION Spec
CONSTANTS
  k1 = k1
  Keys = {k1}
  NoKey = NoKey
  Nil = Nil
  Clients = {c1}
  Workers = {w1, w2}
  Requests <- FaultRequests
  MaxDepth = 0
  MaxItems = 2
  ReserveTries = 2
  FaultKinds = {"queue", "redis", "mongo", "crash", "api crash", "expiry"}
  MaxRequests = 2
  MaxFaults = 2
SYMMETRY WorkerSymmetry
INVARIANTS
  TicketsTellTheTruth
  OneEventPerKey
PROPERTIES
  KeepsAcceptedWrites
  ExpiredTicketsStayGone
