SPECIFICATION Spec
CONSTANTS
  Stmts <- MCStmts
  Names <- MCNames
  Params <- MCParams
  Sigs <- MCSigs
  RetType = "int"
  MaxStmts = 4
\* The front end stops when the function is lowered or rejected.
CHECK_DEADLOCK FALSE
PROPERTY ReturnsAreFinal
