\* Safety and refinement: two isolates, one Java thread, two calls.
SPECIFICATION Spec
CONSTANTS
  i1 = i1
  i2 = i2
  p1 = p1
  p2 = p2
  Isolate = {i1, i2}
  JavaThread = {t1}
  Proxy = {p1, p2}
  Owner <- MCOwner
  Call = {c1, c2}
  Mortal = {i2}
  Answer = {"value", "null", "exception"}
  None = None
INVARIANTS
  CellOutlivesResolver
  CallsFindImplementation
  ResultRefLive
  NothingLeftBehind
  WaitInv
  NothingForgotten
PROPERTY RefinesSyncCall
SYMMETRY Symmetry
CHECK_DEADLOCK FALSE
