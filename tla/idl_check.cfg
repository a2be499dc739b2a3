SPECIFICATION Spec
CONSTANTS
  Nil = Nil
  Text <- MCText
  NamesOf <- MCNames
  ExtendsOf <- MCExtends
  Values <- MCValues
  IntRange <- MCInts
  Parts <- MCParts
  Data <- MCData
  MaxOf <- MCMax
  MaxNodes <- MCFewNodes
  MaxExtras = 1
  NoNumber = NoNumber
  MaxErrors = 1
  MaxModules = 2
CHECK_DEADLOCK FALSE
INVARIANT CheckReportsErrors
