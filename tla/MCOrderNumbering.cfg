\* Two sites, two requests, a change of year, at least two orders per site.
CONSTANTS
  s1 = s1
  s2 = s2
  k1 = k1
  r1 = r1
  r2 = r2
  None = None
  Sites = {s1, s2}
  Kinds = {k1}
  Codes = {"MAIN", "SUR"}
  Requests = {r1, r2}
  FirstYear = 2025
  LastYear = 2026
  MaxNext = 3
\* The bounded system stops when every sequence has reached MaxNext.
CHECK_DEADLOCK FALSE
SPECIFICATION FairSpec
INVARIANTS
  
  NoGaps
PROPERTIES
  RegisterSpec
  CreationsEnd
