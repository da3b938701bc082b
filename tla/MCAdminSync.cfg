\* Two pushes and one pulling desktop.
CONSTANTS
  p1 = p1
  p2 = p2
  d1 = d1
  Absent = Absent
  Requests = {p1, p2}
  Clients = {d1}
  Kinds = {"user", "equipment", "service_order"}
  Batches <- MCBatches
  Vals = {1, 2}
  MaxTime = 3
SPECIFICATION Spec
SYMMETRY Symmetry
CONSTRAINT PushesOrPulls
INVARIANTS
  StoredIsAnnounced

  
  
CHECK_DEADLOCK FALSE
