SPECIFICATION Spec
CONSTANTS
  a = a
  b = b
  c = c
  e = e
  p = p
  q = q
  x = x
  y = y
  Device = {a, b}
  Blob = {}
  Payload = {p, q}
  Request = {r1, r2}
  None = None
  Uploads <- HonestUploads
  Size <- OneByte
  UserQuotaBytes = 0
  MaxStreamsPerUser = 0
  MinFreeDiskBytes = 0
SYMMETRY RequestSymmetry
INVARIANTS
  NothingLost
