SPECIFICATION FairSpec
CONSTANTS
  old = old
  new = new
  a = a
  b = b
  n1 = n1
  None = None
  Instance = {i1, i2}
  Version = {old, new}
  Queue = {a, b}
  Job = {n1}
  Defines <- MCDefines
  Scheduled <- MCScheduled
  NameOf <- MCNameOf
  RetryLimit <- MCRetryLimit
  MaxBoots = 3
INVARIANTS TypeOK SchedulesAreKept GivenUpJobsAreLogged
PROPERTIES KeepsTheContract EveryJobEnds
CHECK_DEADLOCK FALSE
