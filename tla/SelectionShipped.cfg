SPECIFICATION SelectionSpec
CONSTANTS
  Config <- MCConfig
  Profile <- MCProfile
  Supported <- MCSupported
  Selectable <- MCSelectable
  Requires <- MCRequires
  Conflicts <- MCConflicts
  Order <- MCOrder
  Rank <- MCRank
  Needs <- MCNeeds
  Implemented <- MCImplemented
  Declared <- MCDeclared
  RiskParameter <- MCRiskParameter
  NoParameter = ""
  Benchmark <- MCBenchmark
  ActiveDirectory = "windows-server-2022-ad-ds"
  MaxSelection = 4
  MaxTopology = 3
INVARIANTS
  RequirementsComeFirst
  EveryNeedIsMet
  AnswersSurviveValidation
