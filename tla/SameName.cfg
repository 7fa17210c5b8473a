SPECIFICATION Spec
CONSTANTS
  Threads = {1, 2}
  Defs <- MCDefsAgain
  FnNames <- MCFnNames
  NameOf <- MCNameOf
  Uses <- MCUses
  Args <- MCArgs
  Kind <- MCKind
  MaxResizes = 0
INVARIANT RunsItsOwn
