\* The libraries of the repository, generated again.
SPECIFICATION GSpec
CONSTANTS
  Class <- MCClass
  Root = Root
  Text <- MCText
  Name <- MCName
  Keyword <- MCKeyword
  Defined <- MCDefined
  Method <- MCMethod
  Simple <- MCSimple
  Programs <- MCPrograms
  PackageHeader <- DartjniH
  CommittedHeader <- CopiedHeader
  None = None
INVARIANTS
  Compiles
  AsCommitted
  FileComplete
PROPERTIES
  Reproduced
CHECK_DEADLOCK FALSE
