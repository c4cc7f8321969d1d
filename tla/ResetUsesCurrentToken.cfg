SPECIFICATION Spec
CONSTANTS
  MaxToken = 2
  Job = {j1, j2}
  Req = {r1}
  RetryLimit = 0
PROPERTIES ResetUsesCurrentToken
CHECK_DEADLOCK FALSE
