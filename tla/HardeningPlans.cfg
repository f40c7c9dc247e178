CONSTANTS
  Machine <- MCMachine
  Profile <- MCProfile
  Control <- MCControl
  ControlProfiles <- MCControlProfiles
  Implementation <- MCImplementation
  Preserves <- MCPreserves
  Configuration <- MCConfiguration
  Provides <- MCProvides
  Transport <- MCTransport
  Protocol <- MCProtocol
  MaxExceptions = 2
SPECIFICATION Spec
INVARIANT ProfileFitsMachine
INVARIANT ServicesSurvive
