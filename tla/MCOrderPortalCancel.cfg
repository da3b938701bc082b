\* A cancellation accepted in the portal.
CONSTANTS
  o1 = o1
  r1 = r1
  r2 = r2
  NoOrder = NoOrder
  Orders = {o1}
  Requests = {r1}
  MaxEntries = 3
  SyncEnabled = FALSE
  PushStatuses = {}
SPECIFICATION Spec
CHECK_DEADLOCK FALSE
PROPERTIES
  PortalCancelCancels
