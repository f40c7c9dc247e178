SPECIFICATION FairSpec
CONSTANTS
  MaxPasses = 2
  MaxReboots = 2
  MaxUpdates = 1
  MaxFaults = 2
  Torn = Torn
INVARIANTS
  CompleteMeansUpdated
  RestartsAreBounded
  NoSilentStop
  ReadyMeansComplete
PROPERTIES
  BootstrapEnds
  VerdictIsReached
  CompleteIsFinal
