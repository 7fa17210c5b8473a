SPECIFICATION Spec
CONSTANTS
  a = a
  b = b
  n1 = n1
  n2 = n2
  n3 = n3
  Nodes <- MCNodes
  Names <- MCNames
  Functions <- MCFunctions
\* The pass ends.
CHECK_DEADLOCK FALSE
INVARIANTS
  TypeOK
  NeededNodesStay
  LargestFixpoint
PROPERTY Terminates
