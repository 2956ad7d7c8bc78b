SPECIFICATION SyncSpec
CONSTANTS
  a = a
  b = b
  c = c
  e = e
  p = p
  q = q
  x = x
  y = y
  Device = {a, b}
  Blob = {}
  Payload = {p, q}
  Request = {r1}
  None = None
  Uploads <- SyncUploads
  Size <- QBigger
  UserQuotaBytes = 0
  MaxStreamsPerUser = 0
  MinFreeDiskBytes = 0
  Rank <- ARank
  PageLimit = 2
  PageBytes = 2
  MaxFailures = 1
INVARIANTS
  NothingOutOfReach
  PageAscends
  SyncComplete
PROPERTIES
  Converges
