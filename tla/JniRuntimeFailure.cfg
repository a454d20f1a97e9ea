\* The creation of the Java VM may fail.
SPECIFICATION FairSpec
CONSTANTS
  Isolate = {i1, i2}
  Thread = {t1, t2}
  Spawner = {i1, i2}
  EagerUse = FALSE
  None = None
PROPERTY SpawnReturns
CHECK_DEADLOCK FALSE
