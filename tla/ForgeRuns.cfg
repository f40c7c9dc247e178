CONSTANTS
  Name = {n1, n2}
  Serial = {s1, s2, s3}
  Address = {a1, a2}
  Foreign = Foreign
  Password = Password
  NoMachine = NoMachine
  NoManifest = NoManifest
  Torn = Torn
  NoAddress = NoAddress
SPECIFICATION Spec
SYMMETRY Symmetry
INVARIANT RecordsDescribeMachines
INVARIANT AddressesAreDistinct
INVARIANT ConfiguresItsOwnMachine
PROPERTY ForeignMachinesSurvive
