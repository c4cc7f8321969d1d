SPECIFICATION Spec
CONSTANTS
  Session = {s1}
  Token = {t1, t2, t3, t4, t5}
  Req = {r1, r2}
  None = None
SYMMETRY Interchangeable
PROPERTIES DeletedTokenYieldsNothing
CHECK_DEADLOCK FALSE
