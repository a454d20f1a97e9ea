\* Two isolates race to spawn and share one generated function, on three threads.
SPECIFICATION FairSpec
CONSTANTS
  Isolate = {i1, i2}
  Thread = {t1, t2, t3}
  Spawner = {i1, i2}
  EagerUse = FALSE
  None = None
INVARIANTS
  IInv
  AtMostOneJvm
  LookedUpOnce
  CallsAttached
  InitialisedBeforeUse
  OnlyFailureBlocks
PROPERTIES
  RefinesSharedRuntime
  UseReturns
CHECK_DEADLOCK FALSE
