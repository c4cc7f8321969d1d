SPECIFICATION Spec
CONSTANTS
  Req = {r1, r2}
  None = None
  Threshold = 1
  Base = 1
  Cap = 3
  Decay = 3
  Horizon = 7
  MaxStreak = 4
SYMMETRY Interchangeable
INVARIANTS TypeOK FailuresAreCounted
PROPERTIES LockedLoginIsRejected GuessesAreSpaced
