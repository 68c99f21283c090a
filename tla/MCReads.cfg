SPECIFICATION Spec
CONSTANTS
  MaxItems = 3
  Times = {0, 1, 2}
  AskedLimits = {0, 1, 3}
  Filters <- MCFilters
  MaxLimit = 2
  Collections = {"deals", "leads"}
  Allowed = {"deals"}
  Writers = {"c1", "c2"}
  Entities = {"e1"}
  FanOut = 2
  MaxWrites = 2
  MaxReadFaults = 1
  w1 = w1
  w2 = w2
  Entries <- MCEntries
  Workers <- TwoWorkers
  Rules <- MCRules
  MaxFaults = 2
INVARIANTS
  PagesAreOneListing
  ListingIsSound
  FiresOnce
SYMMETRY Sym
