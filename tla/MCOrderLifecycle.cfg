\* The API alone: one order, two concurrent requests, histories of up to six
\* entries (the shortest that reaches a delivery has five).
CONSTANTS
  o1 = o1
  r1 = r1
  r2 = r2
  NoOrder = NoOrder
  Orders = {o1}
  Requests = {r1, r2}
  MaxEntries = 6
  SyncEnabled = FALSE
  PushStatuses = {}
SPECIFICATION Spec
CHECK_DEADLOCK FALSE
SYMMETRY Symmetry
INVARIANTS
  HistoryInv
PROPERTIES
  TerminalSettles
  HistorySpec
