\* Ownership: two objects, a class and a final string; a call has at most one
\* argument, so that a string is the only one of its call.
SPECIFICATION Spec
CONSTANTS
  o1 = o1
  o2 = o2
  k1 = k1
  l1 = l1
  Handle = {o1, o2, k1, l1}
  Kind <- MCKindAll
  Ref = {r1, r2, r3}
  MaxArgs = 1
  None = None
INVARIANTS
  IInv
  OwnedOnce
  UnreleasedIsLive
  ClassCacheUsable
SYMMETRY SymmetryAll
