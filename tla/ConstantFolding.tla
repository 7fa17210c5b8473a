---------------------------- MODULE ConstantFolding ----------------------------
(***************************************************************************)
(* ConstantFoldingPass.run: one walk over the nodes of a function, block by  *)
(* block in the order of their creation.  "known" maps the names of          *)
(* constants to Python numbers, which have no width and keep their fractions *)
(* whatever the type of the name; an operation on two known numbers becomes  *)
(* a constant.                                                               *)
(***************************************************************************)
EXTENDS Execution

\* Mutant: the operands are taken in the other order.
FoldSwapped(op, p, q) == IF op = "/" /\ p = Whole(0) THEN {} ELSE {Compute(op, q, p)}

\* _fold: a division by zero is not folded.
Fold(op, p, q) == IF op = "/" /\ q = Whole(0) THEN {} ELSE {Compute(op, p, q)}

FoldedTo(known, n) ==
  IF /\ n.op \in Arith \cup Compares \cup {"id"}
     /\ {n.args[1].name, n.args[2].name} \subseteq DOMAIN known
  THEN Fold(n.op, known[n.args[1].name], known[n.args[2].name])
  ELSE {}

Learn(known, v, p) == Put(known, v.name, p)
Forget(known, vs) == [x \in DOMAIN known \ {v.name : v \in vs} |-> known[x]]

\* One node: a holds what is known and the nodes written so far.
FoldNode(a, n) ==
  LET r == FoldedTo(a.known, n)
      v == The(n.res)
  IN  IF n.op = "const"
      THEN [known |-> Learn(a.known, v, The(n.imm)), nodes |-> Append(a.nodes, n)]
      ELSE IF r # {}
      THEN [known |-> Learn(a.known, v, The(r)), nodes |-> Append(a.nodes, ConstNode(v, The(r)))]
      ELSE [known |-> Forget(a.known, n.res), nodes |-> Append(a.nodes, n)]

FoldNodes(known, nodes) ==
  LET a[i \in 0 .. Len(nodes)] ==
        IF i = 0 THEN [known |-> known, nodes |-> <<>>] ELSE FoldNode(a[i - 1], nodes[i])
  IN  a[Len(nodes)]

\* What is known of one block holds in all that come after it.
FoldBlock(a, l) ==
  LET r == FoldNodes(a.known, a.bs[l].nodes)
  IN  [known |-> r.known, bs |-> [a.bs EXCEPT ![l].nodes = r.nodes]]

FoldConstants(bs, order) ==
  LET a[i \in 0 .. Len(order)] ==
        IF i = 0 THEN [known |-> <<>>, bs |-> bs] ELSE FoldBlock(a[i - 1], order[i])
  IN  a[Len(order)].bs

\* A literal stands for its number, a fraction, when its type can hold it.
Exact(n) == n.op = "const" => /\ The(n.imm) \in Int \X Nat
                              /\ Literal(The(n.res).typ, The(n.imm)) = The(n.imm)
ExactLiterals(bs) == \A l \in DOMAIN bs : \A n \in Range(bs[l].nodes) : Exact(n)
=============================================================================
