SPECIFICATION Spec
CONSTANTS
  MaxToken = 4
  Job = {j1, j2}
  Req = {r1, r2}
  RetryLimit = 1
SYMMETRY Interchangeable
INVARIANTS TypeOK OneResetPerIssue
PROPERTIES NoMailIsSwallowed MailJobsKeepTheContract
CHECK_DEADLOCK FALSE
