SPECIFICATION ManifestSpec
CONSTANTS
  MaxSlots = 4
  Profile <- MCProfile
  Shape <- MCShape
  Limit <- MCLimit
  Label <- MCLabel
  Network <- MCNetwork
  Adapter <- MCAdapter
  Ipv4Answer <- MCIpv4Answer
  Written <- MCWritten
  Width = 2
INVARIANTS
  AnswersSurviveHardwareValidation
  AdaptersNeverCollide
