------------------------------- MODULE MCFlow -------------------------------
(***************************************************************************)
(* Lowering of programs with branches, loops and returns over integers:     *)
(*   def f(n: int) -> int                                                   *)
(***************************************************************************)
EXTENDS Lowering

Name(id) == [t |-> "name", id |-> id]
Lit(n) == [t |-> "const", typ |-> "int", imm |-> n]
Less == [t |-> "compare", op |-> "lt"]

MCStmts == {
  [s |-> "assign", id |-> "x", expr |-> <<Name("n")>>],
  [s |-> "aug", id |-> "x", op |-> "+", expr |-> <<Name("n")>>],
  [s |-> "return", expr |-> <<Name("x")>>],
  [s |-> "if", expr |-> <<Lit(0), Name("n"), Less>>],
  [s |-> "while", expr |-> <<Name("x"), Name("n"), Less>>],
  [s |-> "for", id |-> "i", start |-> <<Lit(0)>>, stop |-> <<Name("n")>>, step |-> <<Lit(1)>>],
  [s |-> "else"],
  [s |-> "end"]}

MCNames == <<"i", "n", "x">>
MCParams == <<[id |-> "n", typ |-> "int"]>>
MCSigs == <<>>
=============================================================================
