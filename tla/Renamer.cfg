\* Three classes of every shape, renamed in every order.
SPECIFICATION Spec
CONSTANTS
  A = A
  B = B
  C = C
  p = p
  q = q
  Class = {A, B, C}
  Root = Root
  Text <- MCText
  Name <- MCName
  Keyword <- MCKeyword
  Defined <- MCDefined
  Method <- MCMethod
  Simple <- MCSimple
  Programs <- MCPrograms
  None = None
INVARIANTS
  IInv
  MembersDistinct
  OverrideKeepsName
  NumbersByDeclaration
PROPERTY
  AllNamed
CHECK_DEADLOCK FALSE
