SPECIFICATION Spec
CONSTANTS
  User = {u1}
  Sid = {s1, s2, s3}
  Req = {r1, r2}
  Password = {p1, p2}
  MaxActive = 2
  None = None
  u1 = u1
  s1 = s1
  s2 = s2
  s3 = s3
  r1 = r1
  r2 = r2
  p1 = p1
  p2 = p2
SYMMETRY Interchangeable
INVARIANTS SessionsCarryCurrentPassword
