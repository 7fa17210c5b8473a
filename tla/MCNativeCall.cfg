SPECIFICATION Spec
CONSTANTS
  Threads = {1, 2}
  Defs <- MCDefs
  FnNames <- MCFnNames
  NameOf <- MCNameOf
  Uses <- MCUses
  Args <- MCArgs
  Kind <- MCKind
  MaxResizes = 1
INVARIANTS
  TypeOK
  BuffersStayPut
  HandlesReleased
  WholeUnitsRun
  CompiledOnce

PROPERTY CallsEnd
