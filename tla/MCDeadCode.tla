----------------------------- MODULE MCDeadCode -----------------------------
(***************************************************************************)
(* Every function of three nodes over two names, in any order, with any     *)
(* cycle of uses, in which a node is a constant, an operation, a call or a  *)
(* store; and a terminator that reads at most one name.                     *)
(***************************************************************************)
EXTENDS DeadCode

CONSTANTS a, b, n1, n2, n3

MCNodes == {n1, n2, n3}
MCNames == {a, b}
Result == {{x} : x \in MCNames}

Pure == [droppable : {TRUE}, res : Result, uses : SUBSET MCNames]
Calls == [droppable : {FALSE}, res : Result \cup {{}}, uses : SUBSET MCNames]

MCFunctions == [node : [MCNodes -> Pure \cup Calls], ends : Result \cup {{}}]
=============================================================================
