\* Pushed mutations overlap with the API's requests.
CONSTANTS
  o1 = o1
  r1 = r1
  r2 = r2
  NoOrder = NoOrder
  Orders = {o1}
  Requests = {r1, r2}
  MaxEntries = 3
  SyncEnabled = TRUE
  PushStatuses = {"in_repair", "cancelled"}
SPECIFICATION Spec
SYMMETRY Symmetry
INVARIANTS
  EntriesLegal
