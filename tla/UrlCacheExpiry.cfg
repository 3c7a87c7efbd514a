\* A link that has expired and a Redis entry without a TTL.
SPECIFICATION Spec
CONSTANTS
  Never = Never
  NotFound = NotFound
  Absent = Absent
  NoCode = NoCode
  NoRow = NoRow
  Nobody = Nobody
  c1 = c1
  c2 = c2
  p1 = p1
  p2 = p2
  p3 = p3
  v1 = v1
  v2 = v2
  u1 = u1
  u2 = u2
  ann = ann
  bob = bob
  ip = ip
  Codes = {c1}
  Creators = {p1, p2}
  Visitors = {v1, v2}
  Claimants = {}
  Users = {}
  Key <- CacheKey
  Alias <- CacheAlias
  Limit <- CacheLimit
  Lifetimes = {1, Never}
  CacheTTL = 2
  NotFoundTTL = 1
  MaxRetries = 0
PROPERTIES ExpiredLinkIsDropped
