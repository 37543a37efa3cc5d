CONSTANTS
  Calls = {c1, c2}
  resend = resend
  retry = retry
  Keys <- BothKeys
  ResendKeys = {resend}
  NoKey = NoKey
  MaxRuns = 3
  MaxFaults = 2
SPECIFICATION Spec
INVARIANTS
  TypeOK
  OneRunPerLicence
PROPERTY ClaimEnds
CHECK_DEADLOCK FALSE
