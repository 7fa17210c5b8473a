------------------------------ MODULE Execution ------------------------------
(***************************************************************************)
(* What a function in SSA form does when it is called: the instructions     *)
(* that LLVMCodeGenerator prints for each node, run on machine numbers.     *)
(*                                                                         *)
(* Numbers are fractions <<n, d>>.  An int is a whole number of Width bits  *)
(* in two's complement (64 in LLVM's i64), a bool one bit, a float an exact *)
(* fraction: the rounding of double precision is left out, the rounding of  *)
(* literals to a few printed digits is not.                                 *)
(***************************************************************************)
EXTENDS IR, TLC

CONSTANTS
  Width,    \* bits of an int
  Digits,   \* significant digits of a printed float
  Steps     \* bound on the blocks a run may visit

ASSUME ExecutionAssumption ==
  Width \in Nat \ {0} /\ Digits \in Nat \ {0} /\ Steps \in Nat

-----------------------------------------------------------------------------
(* Fractions.  The result of a division by zero is one value, NaN. *)

Abs(n) == IF n < 0 THEN -n ELSE n
Gcd[m \in Nat, n \in Nat] == IF n = 0 THEN m ELSE Gcd[n, m % n]
NaN == <<0, 0>>

Fraction(n, d) ==
  IF d = 0 THEN NaN
  ELSE LET g == Gcd[Abs(n), Abs(d)]
           sign == IF d < 0 THEN -1 ELSE 1
       IN  <<(sign * n) \div g, Abs(d) \div g>>

Trunc(p) == IF p[1] < 0 THEN -(-p[1] \div p[2]) ELSE p[1] \div p[2]
Truth(b) == IF b THEN Whole(1) ELSE Whole(0)

\* What an operator means on numbers of any size; comparisons with NaN fail.
Compute(op, p, q) ==
  CASE op = "+" -> Fraction(p[1] * q[2] + q[1] * p[2], p[2] * q[2])
    [] op = "-" -> Fraction(p[1] * q[2] - q[1] * p[2], p[2] * q[2])
    [] op = "*" -> Fraction(p[1] * q[1], p[2] * q[2])
    [] op = "/" -> Fraction(p[1] * q[2], p[2] * q[1])
    [] op = "lt" -> Truth(NaN \notin {p, q} /\ p[1] * q[2] < q[1] * p[2])
    [] op = "le" -> Truth(NaN \notin {p, q} /\ p[1] * q[2] <= q[1] * p[2])
    [] op = "gt" -> Truth(NaN \notin {p, q} /\ p[1] * q[2] > q[1] * p[2])
    [] op = "ge" -> Truth(NaN \notin {p, q} /\ p[1] * q[2] >= q[1] * p[2])
    [] op = "eq" -> Truth(NaN \notin {p, q} /\ p = q)
    [] op = "ne" -> Truth(NaN \notin {p, q} /\ p # q)
    [] op = "id" -> p

-----------------------------------------------------------------------------
(* Machine numbers. *)

Wrap(n) == ((n + 2 ^ (Width - 1)) % (2 ^ Width)) - 2 ^ (Width - 1)
InRange(p) == p[2] = 1 => Wrap(p[1]) = p[1]

\* The digits of "%.6e": the nearest number with so many significant digits,
\* to even in a tie.
Shift(p, e) == IF e < 0 THEN Fraction(p[1], p[2] * 10 ^ (-e)) ELSE Fraction(p[1] * 10 ^ e, p[2])

ToEven(p) ==
  LET m == (2 * p[1] + p[2]) \div (2 * p[2])
  IN  IF (2 * p[1] + p[2]) % (2 * p[2]) = 0 /\ m % 2 = 1 THEN m - 1 ELSE m

Rounded(p) ==
  LET size == <<Abs(p[1]), p[2]>>
      e == CHOOSE e \in -5 .. 5 :
             Trunc(Shift(size, e)) \in 10 ^ (Digits - 1) .. 10 ^ Digits - 1
      near == Shift(Whole(ToEven(Shift(size, e))), -e)
  IN  IF p[1] = 0 THEN p ELSE <<IF p[1] < 0 THEN -near[1] ELSE near[1], near[2]>>

\* _literal: the text of a constant, as LLVM reads it.
Literal(typ, p) ==
  CASE typ = "bool" -> Truth(p[1] # 0)
    [] typ = "float" -> Rounded(p)
    [] typ = "int" -> Whole(Wrap(Trunc(p)))

\* _emit_arith: {} where the result is undefined.
Arithmetic(op, typ, p, q) ==
  IF typ = "float" THEN {Compute(op, p, q)}
  ELSE IF op = "/"
  THEN {r \in {Whole(Trunc(Compute("/", p, q)))} : typ = "int" /\ q[1] # 0 /\ InRange(r)}
  ELSE {IF typ = "int" THEN Whole(Wrap(Compute(op, p, q)[1]))
        ELSE Whole(Compute(op, p, q)[1] % 2)}

\* _emit_compare: a bool is compared as a signed number of one bit.
Comparison(op, typ, p, q) ==
  {IF typ = "bool" THEN Compute(op, Whole(-p[1]), Whole(-q[1])) ELSE Compute(op, p, q)}

-----------------------------------------------------------------------------
(* A run.  k is "run", "ret" or "undefined"; mem holds the arrays by the name *)
(* of their alloca, a pointer is such a name and an index.                    *)

The(S) == CHOOSE x \in S : TRUE
Undefined(s) == [s EXCEPT !.k = "undefined"]

Define(s, n, results) ==
  IF results = {} THEN Undefined(s)
  ELSE [s EXCEPT !.env = Put(@, The(n.res).name, The(results))]

InBounds(s, ptr) == ptr.base \in DOMAIN s.mem /\ ptr.at \in DOMAIN s.mem[ptr.base]
At(s, ptr) == s.mem[ptr.base][ptr.at]

\* _emit_instruction, with the values of the operands
Execute(s, n, x) ==
  CASE n.op = "const" -> Define(s, n, {Literal(The(n.res).typ, The(n.imm))})
    [] n.op \in Arith -> Define(s, n, Arithmetic(n.op, The(n.res).typ, x[1], x[2]))
    [] n.op \in Compares -> Define(s, n, Comparison(n.op, n.args[1].typ, x[1], x[2]))
    [] n.op \in {"id", "cast"} -> Define(s, n, {x[1]})
    [] n.op = "alloca" ->
         IF x[1][1] < 0 THEN Undefined(s)
         ELSE Define([s EXCEPT !.mem = Put(@, The(n.res).name,
                                           [i \in 0 .. x[1][1] - 1 |-> Whole(0)])],
                     n, {[base |-> The(n.res).name, at |-> 0]})
    [] n.op = "gep" -> Define(s, n, {[x[1] EXCEPT !.at = @ + x[2][1]]})
    [] n.op = "load" -> IF InBounds(s, x[1]) THEN Define(s, n, {At(s, x[1])}) ELSE Undefined(s)
    [] n.op = "store" ->
         IF InBounds(s, x[1]) THEN [s EXCEPT !.mem[x[1].base][x[1].at] = x[2]] ELSE Undefined(s)
    [] OTHER -> Undefined(s)

IsPhi(n) == n.op = "phi"

\* One node; phis have been run when the block was entered.
Step(s, n) ==
  IF IsPhi(n) THEN s
  ELSE IF s.k # "run" \/ \E v \in Range(n.args) : v.name \notin DOMAIN s.env THEN Undefined(s)
  ELSE Execute(s, n, [i \in DOMAIN n.args |-> s.env[n.args[i].name]])

\* The phis of a block take their values at once, from the edge that was taken.
EnterBlock(s, phis) ==
  IF \E n \in phis : s.from \notin DOMAIN n.inc \/ n.inc[s.from].name \notin DOMAIN s.env
  THEN Undefined(s)
  ELSE [s EXCEPT !.env =
          Over([x \in {The(n.res).name : n \in phis} |->
                  s.env[(CHOOSE n \in phis : The(n.res).name = x).inc[s.from].name]], @)]

\* _emit_terminator
LeaveBlock(s, term) ==
  IF s.k # "run" \/ ~({v.name : v \in Range(term.uses)} \subseteq DOMAIN s.env) THEN Undefined(s)
  ELSE CASE term.k = "jump" -> [s EXCEPT !.from = s.at, !.at = term.to[1]]
         [] term.k = "br" ->
              [s EXCEPT !.from = s.at,
                        !.at = term.to[IF s.env[term.uses[1].name] = Whole(1) THEN 1 ELSE 2]]
         [] term.k = "ret" ->
              [s EXCEPT !.k = "ret", !.val = [i \in DOMAIN term.uses |-> s.env[term.uses[i].name]]]

RunNodes(s, nodes) ==
  LET after[i \in 0 .. Len(nodes)] == IF i = 0 THEN s ELSE Step(after[i - 1], nodes[i])
  IN  after[Len(nodes)]

RunBlock(s, block) ==
  LeaveBlock(RunNodes(EnterBlock(s, {n \in Range(block.nodes) : IsPhi(n)}), block.nodes),
             block.term)

\* The call of a function, from the values of its arguments by name.
Start(env) ==
  [k |-> "run", at |-> Entry, from |-> Entry, env |-> env, mem |-> <<>>, val |-> <<>>]

Visit(bs, s) == IF s.k = "run" THEN RunBlock(s, bs[s.at]) ELSE s

Run(bs, env) ==
  LET after[i \in 0 .. Steps] == IF i = 0 THEN Start(env) ELSE Visit(bs, after[i - 1])
  IN  after[Steps]

Returns(run, val) == run.k = "ret" /\ run.val = val
=============================================================================
