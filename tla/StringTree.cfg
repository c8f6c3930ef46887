CONSTANTS
  Keys <- MCKeys
  MaxCopies = 2
  Root = Root
  Nil = Nil
  Names <- MCNames
  Hash <- MCHash
  Data <- MCData
  MaxChain <- MCMaxChain
  Calls <- MCCalls
CHECK_DEADLOCK FALSE
SPECIFICATION Spec
INVARIANTS TypeOK RedBlack QueriesRight
PROPERTIES TableSpec
