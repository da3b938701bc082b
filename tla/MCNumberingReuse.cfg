\* Two sites, one request at a time is enough: a site takes over the code of another.
CONSTANTS
  s1 = s1
  s2 = s2
  k1 = k1
  r1 = r1
  r2 = r2
  None = None
  Sites = {s1, s2}
  Kinds = {k1}
  Codes = {"MAIN", "SUR"}
  Requests = {r1, r2}
  FirstYear = 2025
  LastYear = 2025
  MaxNext = 3
CHECK_DEADLOCK FALSE
SPECIFICATION SpecWithRenames
INVARIANT NumberReserved
