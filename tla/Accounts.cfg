\* Two requests, one account, one address, plan and email changes, one fault.
SPECIFICATION Spec
CONSTANTS
  u1 = u1
  a1 = a1
  e1 = e1
  e2 = e2
  r1 = r1
  r2 = r2
  Nobody = Nobody
  NoUser = NoUser
  NoIp = NoIp
  Requests = {r1, r2}
  Uids = {u1}
  Ips = {a1}
  Emails = {e1, e2}
  Allowance <- MCAllowance
  UserTTL = 1
  MaxHits = 2
  MaxChanges = 1
  MaxFaults = 1
INVARIANTS TypeOK PlanIsFresh WithinAllowance
PROPERTIES PlanIsKept StaleUserEnds
