SPECIFICATION CompilerSpec
CONSTANTS
  Stmts <- MCStmts
  Names <- MCNames
  Params <- MCParams
  Sigs <- MCSigs
  PassLists <- MCPassLists
  Inputs <- MCInputs
  RetType = "int"
  MaxStmts = 4
  Width = 4
  Digits = 2
  Steps = 24
\* The compiler stops when the function is emitted or rejected.
CHECK_DEADLOCK FALSE
INVARIANTS
  PassesKeepIRValid
  PassesKeepMeaning
  CompiledMeansSource
PROPERTY SweepsImplementDeadCode
