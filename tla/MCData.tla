------------------------------- MODULE MCData -------------------------------
(***************************************************************************)
(* Lowering of programs with arrays, buffers, conversions and calls:        *)
(*   def f(a: NDArray[float], n: int) -> None                               *)
(***************************************************************************)
EXTENDS Lowering

Name(id) == [t |-> "name", id |-> id]
Const(typ, n) == [t |-> "const", typ |-> typ, imm |-> n]
Lit(n) == Const("int", n)
Element(id) == [t |-> "element", id |-> id]
Op(op) == [t |-> "binop", op |-> op]
Compare(op) == [t |-> "compare", op |-> op]
Call(f, n) == [t |-> "call", id |-> f, n |-> n]
Neg == [t |-> "neg"]
Assign(id, expr) == [s |-> "assign", id |-> id, expr |-> expr]

MCStmts == {
  [s |-> "alloc", id |-> "b", elem |-> "int", init |-> 0, expr |-> <<Name("n")>>],
  [s |-> "alloc", id |-> "x", elem |-> "bool", init |-> 0, expr |-> <<Lit(2)>>],
  [s |-> "alloc", id |-> "b", elem |-> "int", init |-> 1, expr |-> <<Lit(2)>>],
  [s |-> "alloc", id |-> "b", elem |-> "int", init |-> 0, expr |-> <<Const("bool", 1)>>],
  [s |-> "store", id |-> "b", index |-> <<Name("n")>>, expr |-> <<Name("x")>>],
  [s |-> "store", id |-> "a", index |-> <<Lit(0)>>, expr |-> <<Name("x")>>],
  [s |-> "store", id |-> "x", index |-> <<Lit(2)>>, expr |-> <<Const("bool", 0)>>],
  Assign("x", <<Name("n"), Name("n"), Op("/")>>),
  Assign("x", <<Lit(1), Element("a"), Name("n"), Op("*")>>),
  Assign("x", <<Name("n"), Neg>>),
  Assign("x", <<Name("x"), Call("g", 1)>>),
  Assign("x", <<Name("a"), Name("n"), Op("+")>>),
  [s |-> "aug", id |-> "x", op |-> "/", expr |-> <<Name("n")>>],
  [s |-> "expr", expr |-> <<Name("n"), Call("h", 1)>>],
  [s |-> "while", expr |-> <<Name("x"), Name("n"), Compare("lt")>>],
  [s |-> "if", expr |-> <<Name("x"), Const("float", 0), Compare("eq")>>],
  [s |-> "return", expr |-> <<>>],
  [s |-> "else"],
  [s |-> "end"]}

MCNames == <<"a", "b", "n", "x">>
MCParams == <<[id |-> "a", typ |-> "ptr_float"], [id |-> "n", typ |-> "int"]>>
MCSigs == [g |-> [args |-> <<"float">>, ret |-> "bool"], h |-> [args |-> <<"int">>, ret |-> "void"]]
=============================================================================
