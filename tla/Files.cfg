SPECIFICATION FairSpec
CONSTANTS
  User = {u1, u2}
  File = {f1}
  Part = {master, large}
  Main = master
  Body = {image, image2, junk}
  Valid = {image, image2}
  Req = {r1, r2}
  Concurrency = 1
  None = None
INVARIANTS TypeOK ReadyFileHasItsObjects AvatarIsUsable ErasureIsOwed
PROPERTIES DeletedFileIsErased
CHECK_DEADLOCK FALSE
