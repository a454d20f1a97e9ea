\* An isolate calls a suspend function and, in between, every C function; another
\* isolate competes with it for two threads.
SPECIFICATION SFairSpec
CONSTANTS
  i1 = i1
  i2 = i2
  Isolate = {i1, i2}
  Thread = {t1, t2}
  None = None
  Entry <- MCEntry
  Adverse = {}
  MaxOwned = 1
  Call = {c1}
  Caller <- MCCaller
  Mortal = {i1}
INVARIANTS
  SInv
  NoPendingInDart
  JniUsedLegally
  ResultValid
  NothingLost
  LocalsDeleted
  AnswerKept
  NoAnswerForgotten
PROPERTIES
  RefinesAsyncCall
  AsyncCompletes
CHECK_DEADLOCK FALSE
