SPECIFICATION Spec
CONSTANTS
  v4 = v4
  u4 = u4
  v6 = v6
  w6 = w6
  proxy = proxy
  inner = inner
  Client = {v4, u4, v6, w6}
  Trusted = {proxy, inner}
  Garbage = Garbage
  Group <- Grouped
  Paths <- ProxyPaths
  Headers <- ForgedHeaders
  Request = {r1, r2}
  PerMinute = 2
  Minute = 3
  MaxKeys = 2
  Watched = v4
  MaxTime = 4
  MaxLag = 1
SYMMETRY Symmetry
INVARIANTS
  TypeOK
  RateBound
  RefusedOnlyWhenSpent
  RetryAfterHolds
  MeteredByOwnAddress
