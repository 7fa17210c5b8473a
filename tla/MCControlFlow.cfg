SPECIFICATION Spec
CONSTANTS
  IsVoid = TRUE
  MaxBlocks = 9
\* The front end stops when the function is lowered or rejected.
CHECK_DEADLOCK FALSE
INVARIANTS
  Inv
  AllBlocksEnd
PROPERTY BranchesStay
