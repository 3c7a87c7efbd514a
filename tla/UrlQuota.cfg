\* Shorten and ClaimURL on the quota of two accounts and an IP address.
SPECIFICATION Spec
CONSTANTS
  Never = Never
  NotFound = NotFound
  Absent = Absent
  NoCode = NoCode
  NoRow = NoRow
  Nobody = Nobody
  c1 = c1
  c2 = c2
  p1 = p1
  p2 = p2
  p3 = p3
  v1 = v1
  v2 = v2
  u1 = u1
  u2 = u2
  ann = ann
  bob = bob
  ip = ip
  Codes = {c1, c2}
  Creators = {p1, p2, p3}
  Visitors = {}
  Claimants = {u1, u2}
  Users = {ann, bob}
  Key <- QuotaKey
  Alias <- QuotaAlias
  Limit <- QuotaLimit
  Lifetimes = {Never}
  CacheTTL = 1
  NotFoundTTL = 1
  MaxRetries = 1
INVARIANTS TypeOK CreatedLinkIsStored LinksWithinQuota RefusalIsDeserved CounterCoversGrants
PROPERTIES OwnerIsKept
