------------------------------ MODULE MCCompiler ------------------------------
(***************************************************************************)
(* Compilation and execution of programs over integers, booleans, floats     *)
(* and one array:  def f(n: int) -> int                                      *)
(***************************************************************************)
EXTENDS Compiler

Name(id) == [t |-> "name", id |-> id]
Lit(n) == [t |-> "const", typ |-> "int", imm |-> n]
Float(n) == [t |-> "const", typ |-> "float", imm |-> n]
Bin(op) == [t |-> "binop", op |-> op]
Less == [t |-> "compare", op |-> "lt"]
AtLeast == [t |-> "compare", op |-> "ge"]
Equal == [t |-> "compare", op |-> "eq"]
Element(id) == [t |-> "element", id |-> id]
Assign(id, expr) == [s |-> "assign", id |-> id, expr |-> expr]
Aug(id, op, expr) == [s |-> "aug", id |-> id, op |-> op, expr |-> expr]
For(start, stop, step) == [s |-> "for", id |-> "i", start |-> start, stop |-> stop, step |-> step]

MCStmts == {
  Assign("x", <<Lit(5), Lit(2), Bin("-")>>),
  Assign("x", <<Name("n"), Lit(3), Bin("/"), Float(1), Float(3), Bin("/"), Equal>>),
  Assign("x", <<Lit(1), Element("a")>>),
  Aug("n", "+", <<Lit(1)>>),
  Aug("x", "/", <<Lit(2)>>),
  Aug("n", "+", <<Name("i")>>),
  [s |-> "alloc", id |-> "a", elem |-> "int", init |-> 0, expr |-> <<Lit(2)>>],
  [s |-> "store", id |-> "a", index |-> <<Name("n")>>, expr |-> <<Name("x")>>],
  [s |-> "if", expr |-> <<Name("n"), Lit(2), AtLeast>>],
  [s |-> "if", expr |-> <<Lit(2), Lit(1), Less, Lit(1), Lit(2), Less, Less>>],
  [s |-> "while", expr |-> <<Name("n"), Lit(2), Less>>],
  For(<<Lit(0)>>, <<Name("n")>>, <<Lit(1)>>),
  [s |-> "return", expr |-> <<Name("x")>>],
  [s |-> "return", expr |-> <<Name("n")>>],
  [s |-> "else"],
  [s |-> "end"]}

MCNames == <<"a", "i", "n", "x">>
MCParams == <<[id |-> "n", typ |-> "int"]>>
MCSigs == <<>>
MCPassLists == {<<"cf", "dce">>, <<"dce", "inline", "cf">>}
MCInputs == {[n |-> Whole(k)] : k \in {-1, 0, 1, 2, 5}}
=============================================================================
