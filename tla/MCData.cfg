SPECIFICATION Spec
CONSTANTS
  Bodies <- MCBodies
  Events <- MCEvents
  Patterns <- MCPatterns
  Values <- MCValues
  KeyOrder <- MCKeyOrder
  ArrayKeys <- MCArrayKeys
  ClientDiffs <- MCClientDiffs
  deals = deals
  leads = leads
  Collections <- TwoCollections
  Commands <- ManyCommands
  Millisecond = 2
  MaxEvents = 2
  MaxToggles = 1
  Width = 8
  Configs <- Usual
  DefaultBase = 3
  DefaultMax = 20
  DefaultMaxAttempts = 5
INVARIANTS
  RulesMeanWhatTheySay
  DiffsAreRight
  ChainHolds
  WaitsAreTheSchedule
SYMMETRY Sym
