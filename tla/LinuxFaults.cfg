SPECIFICATION FairSpec
CONSTANTS
  MaxFaults = 2
INVARIANTS
  ReadyMeansBootstrapped
  InstallerNeverPinned
PROPERTIES
  BootstrapSettles
  VerdictIsReached
