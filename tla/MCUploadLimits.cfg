SPECIFICATION SpecInOrder
CONSTANTS
  a = a
  b = b
  c = c
  e = e
  p = p
  q = q
  x = x
  y = y
  Device = {a, b, c, e}
  Blob = {x}
  Payload = {p, q}
  Request = {r1, r2}
  None = None
  Uploads <- LimitUploads
  Size <- OneByte
  UserQuotaBytes = 2
  MaxStreamsPerUser = 1
  MinFreeDiskBytes = 1
SYMMETRY RequestSymmetry
INVARIANTS
  QuotaOvershoot
  StreamOvershoot
  ResendNeverRefused
