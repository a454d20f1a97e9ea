\* Two isolates race to spawn, and the slower one uses JNI as soon as it is told.
SPECIFICATION Spec
CONSTANTS
  Isolate = {i1, i2}
  Thread = {t1, t2}
  Spawner = {i1, i2}
  EagerUse = TRUE
  None = None
INVARIANT InitialisedBeforeUse
SYMMETRY Symmetry
CHECK_DEADLOCK FALSE
