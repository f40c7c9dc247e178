SPECIFICATION Spec
CONSTANTS
  Config <- MCConfig
  Plans <- MCPlans
  Hardening = {"baseline", "ubuntu-cis"}
  Inline = {"ubuntu-cis"}
  Broken = {"missing"}
  MaxForges = 2
  NoFile = NoFile
  Torn = Torn
INVARIANTS
  AppliedIsTrue
  NoChangeUnrecorded
  ReportNeverAhead
  StopsAtFirstFailure
