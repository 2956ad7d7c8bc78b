SPECIFICATION Spec
CONSTANTS
  Free = 1
  Base = 1
  Cap = 4
  Forget = 5
  ShiftLimit = 3
  Width = 4
  MaxKeys = 1
  MaxLag = 1
  Request = {r1, r2}
  Name = {n, m}
  None = None
  Slots = 1
  HashWait = 2
INVARIANTS
  TypeOK
  SlotsAccounted
  GuessesBounded
PROPERTIES
  BlocksLast
  EveryoneAnswered
