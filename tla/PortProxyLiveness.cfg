\* Progress: two isolates that call each other, one of which may exit.
SPECIFICATION FairSpec
CONSTANTS
  i1 = i1
  i2 = i2
  p1 = p1
  p2 = p2
  Isolate = {i1, i2}
  JavaThread = {}
  Proxy = {p1, p2}
  Owner <- MCOwner
  Call = {c1, c2}
  Mortal = {i2}
  Answer = {"null"}
  None = None
PROPERTIES
  EveryCallReturns
  PortCloses
CHECK_DEADLOCK FALSE
