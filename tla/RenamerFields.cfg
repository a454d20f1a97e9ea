\* A field that is renamed in Dart is looked up in Java under its new name.
SPECIFICATION Spec
CONSTANTS
  A = A
  B = B
  C = C
  p = p
  q = q
  Class = {A, B, C}
  Root = Root
  Text <- MCText
  Name <- MCName
  Keyword <- MCKeyword
  Defined <- MCDefined
  Method <- MCMethod
  Simple <- MCSimple
  Programs <- MCPrograms
  None = None
INVARIANT FieldsFound
CHECK_DEADLOCK FALSE
