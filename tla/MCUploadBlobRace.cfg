SPECIFICATION SpecFail
CONSTANTS
  a = a
  b = b
  c = c
  e = e
  p = p
  q = q
  x = x
  y = y
  Device = {a, b}
  Blob = {x}
  Payload = {p, q}
  Request = {r1, r2}
  None = None
  Uploads <- RetryUploads
  Size <- QBigger
  UserQuotaBytes = 4
  MaxStreamsPerUser = 0
  MinFreeDiskBytes = 0
  MaxFailures = 0
SYMMETRY RequestSymmetry
INVARIANTS
  StoredPacketHasItsBlobs
