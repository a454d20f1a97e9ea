\* A final string is used after it was released.
SPECIFICATION Spec
CONSTANTS
  o1 = o1
  o2 = o2
  k1 = k1
  l1 = l1
  Handle = {l1, o1, k1}
  Kind <- MCKindLazy
  Ref = {r1, r2, r3}
  MaxArgs = 1
  None = None
PROPERTY FurtherUsesThrow
SYMMETRY Symmetry
