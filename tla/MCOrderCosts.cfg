\* Two overlapping requests, pushed mutations among them.
CONSTANTS
  l1 = l1
  l2 = l2
  r1 = r1
  r2 = r2
  NoLine = NoLine
  Lines = {l1, l2}
  Amounts = {1}
  Categories = {"parts", "other"}
  PushedCosts <- MCPushedCosts
  Requests = {r1, r2}
SPECIFICATION SpecWithPush
SYMMETRY Symmetry
PROPERTIES
  UndisturbedRestores
