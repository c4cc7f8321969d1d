SPECIFICATION FairSpec
CONSTANTS
  User = {u1}
  Sid = {s1, s2}
  Req = {r1, r2}
  Password = {p1}
  MaxActive = 1
  None = None
  u1 = u1
  s1 = s1
  s2 = s2
  r1 = r1
  r2 = r2
  p1 = p1
PROPERTIES ActsAtomically EveryRequestEnds DueAccountIsSettled
