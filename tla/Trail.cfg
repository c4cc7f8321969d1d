SPECIFICATION FairSpec
CONSTANTS
  u1 = u1
  None = None
  User = {u1}
  Record <- MCRecord
  Subject <- MCSubject
  Me = u1
  Matching <- MCRecord
  Limit = 1
  Retention = 1
  MaxTime = 3
INVARIANTS TypeOK ShownOnce SecurityLogIsComplete ListIsComplete
PROPERTIES ExpiredRecordsGo
CHECK_DEADLOCK FALSE
