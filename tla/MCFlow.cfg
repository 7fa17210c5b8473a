SPECIFICATION Spec
CONSTANTS
  Stmts <- MCStmts
  Names <- MCNames
  Params <- MCParams
  Sigs <- MCSigs
  RetType = "int"
  MaxStmts = 5
\* The front end stops when the function is lowered or rejected.
CHECK_DEADLOCK FALSE
INVARIANTS
  TypeOK
  SingleAssignment
  IRWellFormed
  HoistedProgramsDominate
  FlatProgramsPhis
PROPERTY BuildsControlFlow
