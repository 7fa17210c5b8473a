---------------------------------- MODULE IR ----------------------------------
(***************************************************************************)
(* The intermediate representation of the compiler: SSA values, instruction *)
(* nodes, terminators and basic blocks (aotc/ir/node.py, aotc/ir/cfg.py),   *)
(* and the rules that LLVM imposes on the text the code generator prints    *)
(* from it (aotc/back_end/codegen.py): one definition per name, definitions *)
(* that dominate uses, phis that name exactly the predecessors, operands of *)
(* the type the instruction is printed with.                                *)
(***************************************************************************)
EXTENDS Collections, FiniteSets

-----------------------------------------------------------------------------
(* Types and values. *)

Scalars == {"int", "float", "bool"}

\* ptr_type and pointee_type: a pointer type is a name with a prefix, which
\* void has no use for.
PtrTo == [int |-> "ptr_int", float |-> "ptr_float", bool |-> "ptr_bool"]
Pointers == {PtrTo[e] : e \in Scalars}
IsPtr(t) == t \in Pointers
ValueTypes == Scalars \cup Pointers

\* A name is a base and a number: "x.3" is the fourth version of x, "t3" the
\* third temporary.  The dot keeps the two apart whatever x is called, so
\* temporaries have a base no variable has.
Value(base, n, t) == [name |-> <<base, n>>, typ |-> t]
Temp(n, t) == Value("%t", n, t)

-----------------------------------------------------------------------------
(* Nodes, terminators, blocks.  "res" holds the result, if there is one;    *)
(* "inc" the incoming values of a phi by label; "elem" the element type a   *)
(* memory node is printed with, or the callee of a call; "imm" the number a *)
(* constant holds, a fraction.                                              *)

Node(op, args, res, elem) ==
  [op |-> op, args |-> args, res |-> res, elem |-> elem, inc |-> <<>>, imm |-> {}]
Phi(v, inc) ==
  [op |-> "phi", args |-> <<>>, res |-> {v}, elem |-> v.typ, inc |-> inc, imm |-> {}]
ConstNode(v, p) ==
  [op |-> "const", args |-> <<>>, res |-> {v}, elem |-> "none", inc |-> <<>>, imm |-> {p}]

Whole(n) == <<n, 1>>

Term(k, uses, to) == [k |-> k, uses |-> uses, to |-> to]
NoTerm == Term("none", <<>>, <<>>)
Jump(l) == Term("jump", <<>>, <<l>>)
Branch(c, l1, l2) == Term("br", <<c>>, <<l1, l2>>)
Return(uses) == Term("ret", uses, <<>>)

NewBlock == [nodes |-> <<>>, term |-> NoTerm]
Entry == <<"entry", 0>>

Arith == {"+", "-", "*", "/"}
Compares == {"lt", "le", "gt", "ge", "eq", "ne"}

Defs(block) == UNION {n.res : n \in Range(block.nodes)}

-----------------------------------------------------------------------------
(* The graph of a function's blocks. *)

Succ(bs, l) == Range(bs[l].term.to)
Preds(bs, l) == {p \in DOMAIN bs : l \in Succ(bs, p)}

\* What a graph can reach from the entry without passing through "avoid": the
\* frontier grows at most once per block.
ReachIn(succ, avoid) ==
  LET grow[n \in 0 .. Cardinality(DOMAIN succ)] ==
        IF n = 0 THEN {Entry} \ avoid
        ELSE LET prev == grow[n - 1]
             IN  prev \cup ((UNION {succ[l] : l \in prev}) \ avoid)
  IN  grow[Cardinality(DOMAIN succ)]

\* The blocks that control can reach so.
Reach(bs, avoid) == ReachIn([l \in DOMAIN bs |-> Succ(bs, l)], avoid)

Dominates(bs, d, l) == d = l \/ l \notin Reach(bs, {d})

-----------------------------------------------------------------------------
(* The rules of LLVM's verifier. *)

\* Every definition of a name, arguments included, is the only one.
SingleDefinitions(bs, args) ==
  LET sites == UNION {{<<l, i>> : i \in DOMAIN bs[l].nodes} : l \in DOMAIN bs}
      At(s) == {v.name : v \in bs[s[1]].nodes[s[2]].res}
  IN  /\ \A s, t \in sites : s # t => At(s) \cap At(t) = {}
      /\ \A s \in sites : At(s) \cap {v.name : v \in Range(args)} = {}

\* A name that is read has a definition somewhere in the function.
UsesDefined(bs, args) ==
  LET defined == Range(args) \cup UNION {Defs(bs[l]) : l \in DOMAIN bs}
  IN  \A l \in DOMAIN bs :
        /\ Range(bs[l].term.uses) \subseteq defined
        /\ \A n \in Range(bs[l].nodes) :
             Range(n.args) \cup Range(n.inc) \subseteq defined

\* v is available just before position i of block l.
Available(bs, args, v, l, i) ==
  \/ v \in Range(args)
  \/ \E j \in 1 .. i - 1 : v \in bs[l].nodes[j].res
  \/ \E d \in DOMAIN bs \ {l} : v \in Defs(bs[d]) /\ Dominates(bs, d, l)

\* Each value is defined on every path to the place that reads it.  Blocks that
\* no path reaches are exempt, and phis have a rule of their own.
DefsDominateUses(bs, args) ==
  \A l \in DOMAIN bs \cap Reach(bs, {}) :
    LET nodes == bs[l].nodes
    IN  /\ \A i \in DOMAIN nodes : \A v \in Range(nodes[i].args) :
             Available(bs, args, v, l, i)
        /\ \A v \in Range(bs[l].term.uses) :
             Available(bs, args, v, l, Len(nodes) + 1)

\* Phis open their block, and each has exactly one value per predecessor,
\* available at the end of that predecessor.
PhisLead(bs) ==
  \A l \in DOMAIN bs : \A i \in 2 .. Len(bs[l].nodes) :
    bs[l].nodes[i].op = "phi" => bs[l].nodes[i - 1].op = "phi"

PhisMatchPreds(bs, args) ==
  \A l \in DOMAIN bs : \A n \in Range(bs[l].nodes) :
    n.op = "phi" =>
      /\ DOMAIN n.inc = Preds(bs, l)
      /\ \A p \in DOMAIN n.inc \cap Reach(bs, {}) :
           Available(bs, args, n.inc[p], p, Len(bs[p].nodes) + 1)

\* Every block ends, in a block that exists, and never in the entry.
BlocksEnd(bs) ==
  \A l \in DOMAIN bs :
    bs[l].term.k # "none" /\ Succ(bs, l) \subseteq DOMAIN bs \ {Entry}

-----------------------------------------------------------------------------
(* Operand types.  The printer takes one type per instruction and prints it  *)
(* before the first operand only, so every operand must have it.             *)

Types(seq) == {v.typ : v \in Range(seq)}
ResTypes(n) == {v.typ : v \in n.res}

\* Pointers where memory is touched, elements of the printed type, integer
\* counts and indices, booleans or integers widened by casts.
MemoryTyped(n) ==
  /\ n.op = "alloca" => Types(n.args) = {"int"} /\ ResTypes(n) = {PtrTo[n.elem]}
  /\ n.op = "gep" => /\ n.args[1].typ = PtrTo[n.elem]
                     /\ n.args[2].typ = "int"
                     /\ ResTypes(n) = {PtrTo[n.elem]}
  /\ n.op = "load" => n.args[1].typ = PtrTo[n.elem] /\ ResTypes(n) = {n.elem}
  /\ n.op = "store" => n.args[1].typ = PtrTo[n.elem] /\ n.args[2].typ = n.elem
  /\ n.op = "cast" => ResTypes(n) = {"float"} /\ n.args[1].typ \in {"int", "bool"}
  /\ n.op \in Compares => /\ n.args[1].typ = n.args[2].typ
                          /\ ~IsPtr(n.args[1].typ)
                          /\ ResTypes(n) = {"bool"}

PhiTyped(n) == n.op = "phi" => {n.inc[l].typ : l \in DOMAIN n.inc} = ResTypes(n)

\* Arithmetic, copies and constants are printed as "add", "or" or "fadd", with the
\* result's type before both operands; there is no such instruction on pointers.
ArithTyped(n) ==
  /\ n.op \in Arith \cup {"id"} => Types(n.args) = ResTypes(n)
  /\ n.op \in Arith \cup {"id", "const"} => ResTypes(n) \subseteq Scalars

CallTyped(n, sigs) ==
  n.op = "call" => /\ [i \in DOMAIN n.args |-> n.args[i].typ] = sigs[n.elem].args
                   /\ ResTypes(n) = {sigs[n.elem].ret} \ {"void"}

\* Instructions and terminators are printed with all of their operands, those on
\* memory with the type of an element.
NodeComplete(n) ==
  /\ n.op \in Arith \cup Compares \cup {"id", "gep", "store"} => DOMAIN n.args = 1 .. 2
  /\ n.op \in {"alloca", "load", "cast"} => DOMAIN n.args = 1 .. 1
  /\ n.op \in {"alloca", "gep", "load", "store"} => n.elem \in Scalars

TermComplete(term) ==
  /\ term.k \in {"none", "jump", "br", "ret"}
  /\ term.k = "jump" => DOMAIN term.to = 1 .. 1
  /\ term.k = "br" => DOMAIN term.uses = 1 .. 1 /\ DOMAIN term.to = 1 .. 2

-----------------------------------------------------------------------------
\* What LLVM accepts: all of the above, and returns of the declared type.
ReturnTyped(term, ret) == term.k = "ret" => Types(term.uses) = {ret} \ {"void"}

Verifies(bs, args, sigs, ret) ==
  /\ SingleDefinitions(bs, args) /\ UsesDefined(bs, args)
  /\ BlocksEnd(bs) /\ PhisLead(bs)
  /\ DefsDominateUses(bs, args) /\ PhisMatchPreds(bs, args)
  /\ \A l \in DOMAIN bs :
       /\ ReturnTyped(bs[l].term, ret)
       /\ bs[l].term.k = "br" => Types(bs[l].term.uses) = {"bool"}
       /\ TermComplete(bs[l].term)
       /\ \A n \in Range(bs[l].nodes) :
            /\ MemoryTyped(n) /\ PhiTyped(n) /\ ArithTyped(n) /\ CallTyped(n, sigs)
            /\ NodeComplete(n)
=============================================================================
