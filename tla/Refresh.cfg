SPECIFICATION FairSpec
CONSTANTS
  Session = {s1}
  Token = {t1, t2, t3, t4, t5, t6}
  Req = {r1, r2}
  None = None
INVARIANTS TypeOK OpenSessionCanRefresh StandstillIsDeadlock
PROPERTIES ClaimedOnce UseKillsSiblings RotationsActAtomically RefreshEnds
CHECK_DEADLOCK FALSE
