SPECIFICATION MCSpec
CONSTANTS
  r1 = r1  r2 = r2  r3 = r3  r4 = r4  r5 = r5  r6 = r6  n1 = n1  n2 = n2  a = a  b = b  c = c
  k1 = k1  k2 = k2  ana = ana  luis = luis  o1 = o1  o2 = o2  v1 = v1  v2 = v2  v3 = v3
  Ids = {r1, r2, r3, r4, r5, r6}
  Names = {n1, n2}
  NoName = NoName  Nothing = Nothing  Keep = Keep
  Clerks = {a, b, c}
  RecordWork <- MCThree
  RecordPushes <- MCRecordPushes
  Kept <- MCKept
  OrderKinds = {"workshop_intake_contract", "field_service"}
  Priorities = {"high", "low"}
  MaxPolicies = 3
  Contracts <- MCContracts
  Takers = {a, b, c}
  IntakeWork <- MCIntakeWork
  PlanLimit = 2
  Plan = Plan
  DaysPerMonth = 2
  LastDay = 2
  MaxPushed = 1
  Unset = Unset  NoTerms = NoTerms  Unlimited = Unlimited  Never = Never
  Printed = {o1, o2}
  Fresh <- MCFresh
  Codes = {v1, v2, v3}
  NoCode = NoCode
  Printers = {a, b}
  PrintWork <- MCPrintWork
  LastSecond = 1
  q1 = q1  q2 = q2
  Requests = {q1, q2}
  Deltas <- MCDeltas
  Quantities = {0, 2}
  MaxMoves = 3
  NoItem = NoItem
INVARIANTS   MatchIsMostSpecific DocumentsExplained StockExplained
PROPERTIES UndisturbedAddsUp
SYMMETRY StockSymmetry
CHECK_DEADLOCK FALSE
