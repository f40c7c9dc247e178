SPECIFICATION Spec
CONSTANTS
  m1 = m1
  m2 = m2
  m3 = m3
  m4 = m4
  Machine <- MCMachine
  FirstGuest = 2
  LastGuest = 4
  Prior <- AnyPrior
  NoLease = NoLease
  NoFile = NoFile
  Torn = Torn
INVARIANTS
  GrantIsOnDisk
  GrantsAreDistinct
  CandidateIsScan
PROPERTIES
  FreshBeforeReuse
  ImplementsLeaseTable
