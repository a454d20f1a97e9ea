\* A call with two arguments, one of them a string.
SPECIFICATION Spec
CONSTANTS
  o1 = o1
  o2 = o2
  k1 = k1
  l1 = l1
  Handle = {o1, o2, k1}
  Kind <- MCKind
  Ref = {r1, r2, r3}
  MaxArgs = 2
  None = None
INVARIANT UnreleasedIsLive
SYMMETRY Symmetry
