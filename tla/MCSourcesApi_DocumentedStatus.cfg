CONSTANTS
  t1 = t1
  t2 = t2
  none = none
  c1 = c1
  c2 = c2
  up2 = up2
  del1 = del1
  rd1 = rd1
  all2 = all2
  bad = bad
  Tenants = {t1, t2}
  NoTenant = none
  Requests <- MCRequestsBad
  Req <- MCReq
  MaxId = 2
SPECIFICATION Spec
INVARIANT DocumentedStatus
