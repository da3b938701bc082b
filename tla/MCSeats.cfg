\* One company, three installations, two requests, limits 1 and 2:
\* registrations race for the last seat while the plan changes.
CONSTANTS
  c1 = c1
  i1 = i1
  i2 = i2
  i3 = i3
  r1 = r1
  r2 = r2
  k  = k
  None = None
  Companies = {c1}
  Installations = {i1, i2, i3}
  Requests = {r1, r2}
  Limits = {1, 2}
  LockKeys = {k}
  LockKeyOf <- SharedLockKey
SPECIFICATION FairSpec

  
  
PROPERTIES
  RevocationIsFinal
  
  RequestsEnd
