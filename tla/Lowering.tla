------------------------------- MODULE Lowering -------------------------------
(***************************************************************************)
(* FrontEndParser._lower_function: the statements of one Python function,   *)
(* taken in source order, become basic blocks of SSA nodes.                 *)
(*                                                                         *)
(* A program is a sequence of statement records drawn from Stmts; "else"    *)
(* and "end" close the two halves of an if and the body of a loop, as the   *)
(* nesting of the AST does.  The recursion of _lower_stmt over the AST is   *)
(* the stack "frames"; the recursion of _lower_expr is a fold over the      *)
(* expression written in postfix order, the order in which it emits nodes.  *)
(* A FrontEndError discards the function: status becomes "rejected".        *)
(***************************************************************************)
EXTENDS IR, TLC

CONSTANTS
  Stmts,      \* the statement records a program may use
  MaxStmts,   \* bound on the statements of a program ("else" and "end" are free)
  Names,      \* the variable names, as a sequence in sorted order
  Params,     \* the parameters: a sequence of [id, typ]
  RetType,    \* the declared return type
  Sigs        \* the module's signatures: function name -> [args, ret]

VarNames == Range(Names)

-----------------------------------------------------------------------------
(* Programs.  An expression is the sequence of its AST's nodes in postfix     *)
(* order, which never lacks an operand and leaves one value.                  *)

Arity(k) ==
  CASE k.t \in {"const", "name"} -> 0
    [] k.t \in {"element", "neg"} -> 1
    [] k.t \in {"binop", "compare"} -> 2
    [] k.t = "call" -> k.n

IsToken(k) ==
  \/ k.t = "const" /\ k.typ \in Scalars /\ k.imm \in Int
  \/ k.t \in {"name", "element", "neg"}
  \/ k.t = "binop" /\ k.op \in Arith
  \/ k.t = "compare" /\ k.op \in Compares
  \/ k.t = "call" /\ k.n \in Nat

IsExpr(expr) ==
  LET depth[i \in 0 .. Len(expr)] == IF i = 0 THEN 0 ELSE depth[i - 1] - Arity(expr[i]) + 1
  IN  /\ expr \in Seq(Range(expr))
      /\ \A i \in 1 .. Len(expr) : IsToken(expr[i]) /\ Arity(expr[i]) <= depth[i - 1]
      /\ depth[Len(expr)] = 1

IsStmt(s) ==
  \/ s.s \in {"else", "end"}
  \/ s.s \in {"if", "while", "expr"} /\ IsExpr(s.expr)
  \/ s.s = "return" /\ (s.expr = <<>> \/ IsExpr(s.expr))
  \/ s.s = "assign" /\ s.id \in VarNames /\ IsExpr(s.expr)
  \/ s.s = "aug" /\ s.id \in VarNames /\ s.op \in Arith /\ IsExpr(s.expr)
  \/ s.s = "alloc" /\ s.id \in VarNames /\ s.elem \in Scalars /\ IsExpr(s.expr)
  \/ s.s = "store" /\ IsExpr(s.index) /\ IsExpr(s.expr)
  \/ s.s = "for" /\ s.id \in VarNames /\ IsExpr(s.start) /\ IsExpr(s.stop) /\ IsExpr(s.step)

\* Temporaries have a base that no variable has; types are those of the IR.
ASSUME LoweringAssumption ==
  /\ MaxStmts \in Nat
  /\ Names \in Seq(VarNames) /\ IsInjective(Names)
  /\ "%t" \notin VarNames
  /\ Params \in Seq([id : VarNames, typ : ValueTypes])
  /\ \A s \in Stmts : IsStmt(s)
  /\ \A f \in DOMAIN Sigs : /\ Sigs[f].args \in Seq(ValueTypes)
                            /\ Sigs[f].ret \in ValueTypes \cup {"void"}

VARIABLES
  status,     \* "lowering", "done" or "rejected"
  src,        \* the statements lowered so far
  blocks,     \* FunctionIR.blocks: label -> block
  order,      \* FunctionIR.block_order
  cur,        \* label of the block that receives the next node
  frames,     \* the pending _lower_if and _lower_while calls, innermost last
  blk,        \* _block_counter
  ctx         \* names in scope and counters: [env, arrays, tmp, ver]

vars == <<status, src, blocks, order, cur, frames, blk, ctx>>

-----------------------------------------------------------------------------
(* Expressions.  The accumulator holds the code emitted so far, the context  *)
(* (for the temporary counter) and the operands not yet consumed; lit is the *)
(* literal that _int_literal reads off an operand, if any.                   *)

Operand(v, lit, const) == [val |-> v, lit |-> lit, const |-> const]

\* _new_temp_value: the result of the next node.
Fresh(a, typ) == Temp(a.ctx.tmp + 1, typ)

Emit(a, op, args, typ, elem) ==
  [a EXCEPT !.ctx.tmp = @ + 1,
            !.code = Append(@, Node(op, args, {Fresh(a, typ)}, elem))]

\* Replace the last n operands by v.
Push(a, n, v, lit, const) ==
  [a EXCEPT !.stack = Append(SubSeq(@, 1, Len(@) - n), Operand(v, lit, const))]

EmitConst(a, typ, i) ==
  [a EXCEPT !.ctx.tmp = @ + 1, !.code = Append(@, ConstNode(Fresh(a, typ), Whole(i)))]

EmitPush(a, n, op, args, typ, elem, lit, const) ==
  Push(Emit(a, op, args, typ, elem), n, Fresh(a, typ), lit, const)

Arg(a, i) == a.stack[Len(a.stack) - i]      \* Arg(a, 0) is the last operand
FailIf(p, a) == IF p THEN [a EXCEPT !.ok = FALSE] ELSE a

\* Mutant: the operand is cast, and the value before the cast is used.
CastUnused(a, i) ==
  LET v == Arg(a, i).val
  IN  IF v.typ = "float" THEN a ELSE Emit(a, "cast", <<v>>, "float", "float")

\* _coerce_type of operand i to float
ToFloat(a, i) ==
  LET v == Arg(a, i).val
  IN  IF v.typ = "float" THEN a
      ELSE [Emit(a, "cast", <<v>>, "float", "float") EXCEPT
              !.stack[Len(a.stack) - i].val = Fresh(a, "float")]

BothToFloat(a) == ToFloat(ToFloat(a, 1), 0)

\* Mutant: the operands change places.
EmitReversed(a, op, typ) ==
  EmitPush(a, 2, op, <<Arg(a, 0).val, Arg(a, 1).val>>, typ, "none", {}, FALSE)

EmitBinary(a, op, typ) ==
  EmitPush(a, 2, op, <<Arg(a, 1).val, Arg(a, 0).val>>, typ, "none", {}, FALSE)

\* merge_types, for the scalars that reach it
MergeTypes(s, t) ==
  IF s = t THEN s
  ELSE IF "float" \in {s, t} THEN "float"
  ELSE IF "bool" \in {s, t} THEN "bool" ELSE "int"

LowerConst(a, k) ==
  Push(EmitConst(a, k.typ, k.imm), 0, Fresh(a, k.typ),
       IF k.typ = "float" THEN {} ELSE {k.imm}, TRUE)

\* A scalar of the environment hides an array of the same name.
LowerName(a, k) ==
  IF k.id \notin DOMAIN a.ctx.env THEN FailIf(TRUE, a)
  ELSE Push(a, 0, a.ctx.env[k.id], {}, FALSE)

\* _validate_static_index_bounds
InStaticBounds(array, index) ==
  \A n \in array.len, i \in index.lit : 0 <= i /\ i < n

LowerElement(a, k) ==
  IF k.id \notin DOMAIN a.ctx.arrays THEN FailIf(TRUE, a)
  ELSE LET array == a.ctx.arrays[k.id]
           ptr == Emit(a, "gep", <<array.ptr, Arg(a, 0).val>>, PtrTo[array.elem], array.elem)
       IN  FailIf(Arg(a, 0).val.typ # "int" \/ ~InStaticBounds(array, Arg(a, 0)),
                  EmitPush(ptr, 1, "load", <<Fresh(a, PtrTo[array.elem])>>,
                           array.elem, array.elem, {}, FALSE))

\* A division, or an operand that is a float, makes both operands floats.
LowerBinOp(a, k) ==
  LET l == Arg(a, 1).val.typ
      r == Arg(a, 0).val.typ
      typ == IF k.op = "/" THEN "float" ELSE MergeTypes(l, r)
  IN  IF IsPtr(l) \/ IsPtr(r) THEN FailIf(TRUE, a)
      ELSE EmitBinary(IF typ = "float" THEN BothToFloat(a) ELSE a, k.op, typ)

LowerCompare(a, k) ==
  LET l == Arg(a, 1).val.typ
      r == Arg(a, 0).val.typ
  IN  IF IsPtr(l) \/ IsPtr(r) \/ (l # r /\ "float" \notin {l, r}) THEN FailIf(TRUE, a)
      ELSE EmitBinary(IF l # r THEN BothToFloat(a) ELSE a, k.op, "bool")

\* Negation subtracts from a zero of the operand's class.
LowerNeg(a, k) ==
  LET x == Arg(a, 0)
      zero == IF x.val.typ = "float" THEN "float" ELSE "int"
  IN  EmitPush(EmitConst(a, zero, 0), 1,
               "-", <<Fresh(a, zero), x.val>>, x.val.typ, "none",
               IF x.const THEN {-i : i \in x.lit} ELSE {}, FALSE)

\* A void call may only be a statement, where its value is a dummy constant.
LowerCall(a, k, asValue) ==
  LET sig == Sigs[k.id]
      args == [i \in 1 .. k.n |-> Arg(a, k.n - i).val]
      void == [a EXCEPT !.code = Append(@, Node("call", args, {}, k.id))]
  IN  IF k.id \notin DOMAIN Sigs THEN FailIf(TRUE, a)
      ELSE FailIf([i \in 1 .. k.n |-> args[i].typ] # sig.args \/ (sig.ret = "void" /\ asValue),
                  IF sig.ret = "void"
                  THEN Push(EmitConst(void, "int", 0), k.n, Fresh(a, "int"), {}, FALSE)
                  ELSE EmitPush(a, k.n, "call", args, sig.ret, k.id, {}, FALSE))

LowerToken(a, k, asValue) ==
  IF ~a.ok THEN a
  ELSE CASE k.t = "const" -> LowerConst(a, k)
         [] k.t = "name" -> LowerName(a, k)
         [] k.t = "element" -> LowerElement(a, k)
         [] k.t = "binop" -> LowerBinOp(a, k)
         [] k.t = "compare" -> LowerCompare(a, k)
         [] k.t = "neg" -> LowerNeg(a, k)
         [] k.t = "call" -> LowerCall(a, k, asValue)

NoCode(c) == [ok |-> TRUE, code |-> <<>>, ctx |-> c, stack |-> <<>>]

\* Only the outermost call of an expression statement needs no value.
LowerTokens(c, expr, asValue) ==
  LET after[i \in 0 .. Len(expr)] ==
        IF i = 0 THEN NoCode(c)
        ELSE LowerToken(after[i - 1], expr[i], asValue \/ i < Len(expr))
  IN  after[Len(expr)]

LowerExpr(c, expr) == LowerTokens(c, expr, TRUE)

Result(a) == Arg(a, 0).val
ResultIs(a, typ) == a.ok /\ Result(a).typ = typ

-----------------------------------------------------------------------------
(* Statements that add nodes to the current block.  Each operator returns    *)
(* [ok, code, ctx]: what _lower_stmt checks, emits and leaves in scope.      *)

NewNamed(c, id, typ) == Value(id, c.ver[id], typ)

\* Mutant: the next version of the name is this one again.
BindSameVersion(c, id, v) == [c EXCEPT !.env = Put(@, id, v)]
Bind(c, id, v) == [c EXCEPT !.ver[id] = @ + 1, !.env = Put(@, id, v)]

\* The value of e is copied into a new version of id.
BindResult(c, id, e) ==
  LET v == Result(e)
      renamed == NewNamed(e.ctx, id, v.typ)
  IN  IF ~e.ok \/ id \in DOMAIN c.arrays THEN FailIf(TRUE, e)
      ELSE [e EXCEPT !.code = Append(@, Node("id", <<v, v>>, {renamed}, "none")),
                     !.ctx = Bind(@, id, renamed)]

LowerAssign(c, id, expr) == BindResult(c, id, LowerExpr(c, expr))

\* _is_allowed_array_length: a literal that is not negative, or a parameter
\* that is an int at this point.
AllowedLength(c, expr) ==
  LET k == expr[1]
  IN  /\ Len(expr) = 1
      /\ \/ k.t = "const" /\ k.typ # "float" /\ k.imm >= 0
         \/ k.t = "name" /\ k.id \in {p.id : p \in Range(Params)}
                         /\ k.id \in DOMAIN c.env /\ c.env[k.id].typ = "int"

\* x = [init] * count: x becomes an array and is no longer a scalar.
AllocArray(c, s, e) ==
  LET ptr == NewNamed(e.ctx, s.id, PtrTo[s.elem])
      array == [ptr |-> ptr, elem |-> s.elem, len |-> Arg(e, 0).lit]
  IN  IF ~e.ok \/ ~AllowedLength(c, s.expr) \/ s.init # 0 THEN FailIf(TRUE, e)
      ELSE FailIf(Result(e).typ # "int",
             [e EXCEPT !.code = Append(@, Node("alloca", <<Result(e)>>, {ptr}, s.elem)),
                       !.ctx.ver[s.id] = @ + 1,
                       !.ctx.arrays = Put(@, s.id, array),
                       !.ctx.env = [id \in DOMAIN @ \ {s.id} |-> @[id]]])

LowerAlloc(c, s) == AllocArray(c, s, LowerExpr(c, s.expr))

\* x[i] = e
StoreElement(c, s, i, e) ==
  LET array == c.arrays[s.id]
      ptr == Emit([e EXCEPT !.code = i.code \o @],
                  "gep", <<array.ptr, Result(i)>>, PtrTo[array.elem], array.elem)
      store == Node("store", <<Fresh(e, PtrTo[array.elem]), Result(e)>>, {}, array.elem)
  IN  IF s.id \notin DOMAIN c.arrays \/ ~i.ok \/ ~e.ok THEN FailIf(TRUE, i)
      ELSE FailIf(\/ Result(i).typ # "int"
                  \/ ~InStaticBounds(array, Arg(i, 0))
                  \/ Result(e).typ # array.elem,
                  [ptr EXCEPT !.code = Append(@, store)])

LowerStore(c, s) ==
  LET i == LowerExpr(c, s.index)
  IN  StoreElement(c, s, i, LowerExpr(i.ctx, s.expr))

\* x op= e: no operand is coerced, and a division may stay an int.
Augment(c, s, e) ==
  LET l == c.env[s.id]
      r == Result(e)
      result == NewNamed(e.ctx, s.id, MergeTypes(l.typ, r.typ))
  IN  IF s.id \notin DOMAIN c.env \/ ~e.ok THEN FailIf(TRUE, e)
      ELSE IF l.typ # r.typ /\ (IsPtr(l.typ) \/ IsPtr(r.typ)) THEN FailIf(TRUE, e)
      ELSE [e EXCEPT !.code = Append(@, Node(s.op, <<l, r>>, {result}, "none")),
                     !.ctx = Bind(@, s.id, result)]

LowerAugAssign(c, s) == Augment(c, s, LowerExpr(c, s.expr))

LowerSimple(c, s) ==
  CASE s.s = "assign" -> LowerAssign(c, s.id, s.expr)
    [] s.s = "alloc" -> LowerAlloc(c, s)
    [] s.s = "store" -> LowerStore(c, s)
    [] s.s = "aug" -> LowerAugAssign(c, s)
    [] s.s = "expr" -> LowerTokens(c, s.expr, FALSE)

-----------------------------------------------------------------------------
(* Helpers of the actions. *)

Append1(l, code) == [blocks EXCEPT ![l].nodes = @ \o code]
InFrame(kind) == frames # <<>> /\ Last(frames).k = kind
Lower(s) == status = "lowering" /\ src' = Append(src, s)
IsElseOrEnd(s) == s.s \in {"else", "end"}
More == Cardinality({i \in DOMAIN src : ~IsElseOrEnd(src[i])}) < MaxStmts
Live(env) == Filter(Names, DOMAIN env)

\* Mutant: the jump takes the place of a return.
FallToAlways(bs, from, l) == [bs EXCEPT ![from].term = Jump(l)]

\* A block falls through to l unless it already ends.
FallTo(bs, from, l) ==
  IF bs[from].term.k = "none" THEN [bs EXCEPT ![from].term = Jump(l)] ELSE bs

\* Mutant: one label has no block.
AllButOne(bs, labels) ==
  LET some == labels \ {CHOOSE x \in labels : TRUE}
  IN  [l \in DOMAIN bs \cup some |-> IF l \in some THEN NewBlock ELSE bs[l]]
NewBlocks(bs, labels) ==
  [l \in DOMAIN bs \cup labels |-> IF l \in labels THEN NewBlock ELSE bs[l]]

-----------------------------------------------------------------------------
(* Assignments, stores, allocations and expression statements. *)

Simple(s) ==
  LET r == LowerSimple(ctx, s)
  IN  /\ Lower(s)
      /\ r.ok
      /\ blocks' = Append1(cur, r.code)
      /\ ctx' = r.ctx
      /\ UNCHANGED <<status, order, cur, frames, blk>>

\* A return ends the current block, which stays current.
LowerReturn(c, s) ==
  IF s.expr = <<>> THEN [ok |-> TRUE, code |-> <<>>, ctx |-> c, uses |-> <<>>]
  ELSE LET e == LowerExpr(c, s.expr)
       IN  [ok |-> e.ok, code |-> e.code, ctx |-> e.ctx,
            uses |-> IF e.ok THEN <<Result(e)>> ELSE <<>>]

ReturnStmt(s) ==
  LET r == LowerReturn(ctx, s)
  IN  /\ Lower(s)
      /\ r.ok
      /\ blocks' = [blocks EXCEPT ![cur].nodes = @ \o r.code, ![cur].term = Return(r.uses)]
      /\ ctx' = r.ctx
      /\ UNCHANGED <<status, order, cur, frames, blk>>

-----------------------------------------------------------------------------
(* _lower_if *)

OpenIf(s) ==
  LET e == LowerExpr(ctx, s.expr)
      then == <<"if_then", blk + 1>>
      else == <<"if_else", blk + 2>>
      join == <<"if_join", blk + 3>>
      bs == [blocks EXCEPT ![cur].nodes = @ \o e.code,
                           ![cur].term = Branch(Result(e), then, else)]
  IN  /\ Lower(s)
      /\ ResultIs(e, "bool")
      /\ blocks' = NewBlocks(bs, {then, else, join})
      /\ order' = order \o <<then, else, join>>
      /\ cur' = then
      /\ frames' = Append(frames, [k |-> "then", then |-> then, else |-> else, join |-> join,
                                   base |-> ctx.env, left |-> ctx.env])
      /\ blk' = blk + 3
      /\ ctx' = e.ctx
      /\ UNCHANGED status

\* Mutant: the else branch sees what the then branch assigned.
ElseContinues(s) ==
  LET f == Last(frames)
  IN  /\ Lower(s)
      /\ InFrame("then")
      /\ blocks' = FallTo(blocks, cur, f.join)
      /\ cur' = f.else
      /\ frames' = Append(Front(frames), [f EXCEPT !.k = "else", !.left = ctx.env])
      /\ UNCHANGED <<status, order, blk, ctx>>

\* The else branch starts from the environment the if began with; arrays are
\* not part of it and stay as the then branch left them.
BeginElse(s) ==
  LET f == Last(frames)
  IN  /\ Lower(s)
      /\ InFrame("then")
      /\ blocks' = FallTo(blocks, cur, f.join)
      /\ cur' = f.else
      /\ frames' = Append(Front(frames), [f EXCEPT !.k = "else", !.left = ctx.env])
      /\ ctx' = [ctx EXCEPT !.env = f.base]
      /\ UNCHANGED <<status, order, blk>>

\* _merge_env_with_phi: a name bound on one side only keeps that side's value;
\* a name with two values gets a phi, labelled with the branches' first blocks.
SideOf(env, base, id) ==
  IF id \in DOMAIN env THEN {env[id]}
  ELSE IF id \in DOMAIN base THEN {base[id]} ELSE {}

\* Mutant: each branch's value is taken when the other branch was.
SwappedPhi(f, v, l, r) == Phi(v, [b \in {f.then, f.else} |-> IF b = f.then THEN r ELSE l])
BranchPhi(f, v, l, r) == Phi(v, [b \in {f.then, f.else} |-> IF b = f.then THEN l ELSE r])

Merge(f, right, c) ==
  LET L(id) == SideOf(f.left, f.base, id)
      R(id) == SideOf(right, f.base, id)
      value(S) == CHOOSE v \in S : TRUE
      all == {id \in VarNames : L(id) \cup R(id) # {}}
      split == {id \in all : /\ L(id) # {} /\ R(id) # {}
                             /\ value(L(id)).name # value(R(id)).name}
      phi(id) == NewNamed(c, id, value(L(id)).typ)
      phis == Filter(Names, split)
  IN  [ok |-> \A id \in split : value(L(id)).typ = value(R(id)).typ,
       code |-> [i \in DOMAIN phis |->
                  BranchPhi(f, phi(phis[i]), value(L(phis[i])), value(R(phis[i])))],
       ctx |-> [c EXCEPT !.env = [id \in all |-> IF id \in split THEN phi(id)
                                                 ELSE value(L(id) \cup R(id))],
                         !.ver = [id \in VarNames |-> IF id \in split THEN @[id] + 1
                                                      ELSE @[id]]]]

CloseIf(s) ==
  LET f == Last(frames)
      m == Merge(f, ctx.env, ctx)
      bs == FallTo(blocks, cur, f.join)
  IN  /\ Lower(s)
      /\ InFrame("else")
      /\ m.ok
      /\ blocks' = [bs EXCEPT ![f.join].nodes = @ \o m.code]
      /\ cur' = f.join
      /\ frames' = Front(frames)
      /\ ctx' = m.ctx
      /\ UNCHANGED <<status, order, blk>>

-----------------------------------------------------------------------------
(* _lower_while: every name in scope gets a phi in the condition block, whose  *)
(* second value is patched when the body is done.                              *)

Header(c, pre, body) ==
  LET live == Live(c.env)
      phi(id) == NewNamed(c, id, c.env[id].typ)
  IN  [code |-> [i \in DOMAIN live |->
                  Phi(phi(live[i]), [b \in {pre, body} |-> c.env[live[i]]])],
       ctx |-> [c EXCEPT !.env = [id \in DOMAIN @ |-> phi(id)],
                         !.ver = [id \in VarNames |-> IF id \in DOMAIN c.env THEN @[id] + 1
                                                      ELSE @[id]]]]

\* Open a loop in context c after "code" in the current block; "step" is what
\* the loop does after its body.
Body(n) == <<"while_body", n + 2>>

Open(c, code, test, step) ==
  LET cond == <<"while_cond", blk + 1>>
      body == Body(blk)
      exit == <<"while_exit", blk + 3>>
      h == Header(c, cur, body)
      e == LowerExpr(h.ctx, test)
      bs == [blocks EXCEPT ![cur].nodes = @ \o code, ![cur].term = Jump(cond)]
  IN  /\ ResultIs(e, "bool")
      /\ blocks' = [NewBlocks(bs, {cond, body, exit}) EXCEPT
                      ![cond] = [nodes |-> h.code \o e.code,
                                 term |-> Branch(Result(e), body, exit)]]
      /\ order' = order \o <<cond, body, exit>>
      /\ cur' = body
      /\ frames' = Append(frames, [k |-> "while", cond |-> cond, body |-> body, exit |-> exit,
                                   base |-> h.ctx.env, step |-> step])
      /\ blk' = blk + 3
      /\ ctx' = e.ctx
      /\ UNCHANGED status

OpenWhile(s) == Lower(s) /\ Open(ctx, <<>>, s.expr, <<>>)

\* for id in range(start, stop, step) is an assignment and a while whose body
\* ends with id = id + step.  A step that is not a negative literal counts up;
\* "-1" is a negated literal, and counts up too.
Var(id) == [t |-> "name", id |-> id]
RangeTest(s) ==
  LET down == Len(s.step) = 1 /\ s.step[1].t = "const" /\ s.step[1].imm < 0
  IN  <<Var(s.id)>> \o s.stop \o <<[t |-> "compare", op |-> IF down THEN "gt" ELSE "lt"]>>

OpenFor(s) ==
  LET a == LowerAssign(ctx, s.id, s.start)
  IN  /\ Lower(s)
      /\ a.ok
      /\ Open(a.ctx, a.code, RangeTest(s),
              <<[s |-> "assign", id |-> s.id,
                 expr |-> <<Var(s.id)>> \o s.step \o <<[t |-> "binop", op |-> "+"]>>]>>)

LowerStep(f) ==
  IF f.step = <<>> THEN [ok |-> TRUE, code |-> <<>>, ctx |-> ctx]
  ELSE LowerSimple(ctx, f.step[1])

Patch(f, nodes, env) ==
  LET final(n) == LET id == CHOOSE id \in DOMAIN f.base : f.base[id] \in n.res
                  IN  IF id \in DOMAIN env THEN env[id] ELSE f.base[id]
  IN  [i \in DOMAIN nodes |-> IF nodes[i].op = "phi"
                              THEN [nodes[i] EXCEPT !.inc[f.body] = final(nodes[i])]
                              ELSE nodes[i]]

\* Mutant: the body's values stay in scope after the loop.
BodyEscapes(s) ==
  LET f == Last(frames)
      r == LowerStep(f)
      bs == FallTo(Append1(cur, r.code), cur, f.cond)
  IN  /\ Lower(s)
      /\ InFrame("while")
      /\ r.ok
      /\ blocks' = [bs EXCEPT ![f.cond].nodes = Patch(f, @, r.ctx.env)]
      /\ cur' = f.exit
      /\ frames' = Front(frames)
      /\ ctx' = r.ctx
      /\ UNCHANGED <<status, order, blk>>

\* The names in scope after the loop are those of the condition block; a name
\* the body turned into an array keeps its own phi as the patched value.
CloseLoop(s) ==
  LET f == Last(frames)
      r == LowerStep(f)
      bs == FallTo(Append1(cur, r.code), cur, f.cond)
  IN  /\ Lower(s)
      /\ InFrame("while")
      /\ r.ok
      /\ blocks' = [bs EXCEPT ![f.cond].nodes = Patch(f, @, r.ctx.env)]
      /\ cur' = f.exit
      /\ frames' = Front(frames)
      /\ ctx' = [r.ctx EXCEPT !.env = f.base]
      /\ UNCHANGED <<status, order, blk>>

-----------------------------------------------------------------------------
(* The whole function. *)

\* The same statements, when the front end raises instead.
SimpleStmts == {"assign", "alloc", "store", "aug", "expr"}

FailsTest(c, test) == ~ResultIs(LowerExpr(Header(c, cur, Body(blk)).ctx, test), "bool")

Raises(s) ==
  \/ s.s \in SimpleStmts /\ More /\ ~LowerSimple(ctx, s).ok
  \/ s.s = "return" /\ More /\ ~LowerReturn(ctx, s).ok
  \/ s.s = "if" /\ More /\ ~ResultIs(LowerExpr(ctx, s.expr), "bool")
  \/ s.s = "while" /\ More /\ FailsTest(ctx, s.expr)
  \/ s.s = "for" /\ More /\ LET a == LowerAssign(ctx, s.id, s.start)
                            IN  ~a.ok \/ FailsTest(a.ctx, RangeTest(s))
  \/ s.s = "end" /\ InFrame("else") /\ ~Merge(Last(frames), ctx.env, ctx).ok
  \/ s.s = "end" /\ InFrame("while") /\ ~LowerStep(Last(frames)).ok

Raise(s) ==
  /\ Lower(s)
  /\ Raises(s)
  /\ status' = "rejected"
  /\ UNCHANGED <<blocks, order, cur, frames, blk, ctx>>

Lowers(s) ==
  \/ s.s \in SimpleStmts /\ More /\ Simple(s)
  \/ s.s = "return" /\ More /\ ReturnStmt(s)
  \/ s.s = "if" /\ More /\ OpenIf(s)
  \/ s.s = "while" /\ More /\ OpenWhile(s)
  \/ s.s = "for" /\ More /\ OpenFor(s)
  \/ s.s = "else" /\ BeginElse(s)
  \/ s.s = "end" /\ CloseIf(s)
  \/ s.s = "end" /\ CloseLoop(s)
  \/ Raise(s)

\* Mutant: no return is added or asked for.
FinishUnchecked ==
  /\ status = "lowering"
  /\ src # <<>>
  /\ frames = <<>>
  /\ status' = "done"
  /\ UNCHANGED <<src, blocks, order, cur, frames, blk, ctx>>

\* After the last statement: a void function gets its return, any other
\* function must have ended in one.
Finish ==
  /\ status = "lowering"
  /\ src # <<>>
  /\ frames = <<>>
  /\ LET open == blocks[cur].term.k = "none"
     IN  IF open /\ RetType # "void"
         THEN status' = "rejected" /\ UNCHANGED blocks
         ELSE /\ status' = "done"
              /\ blocks' = IF open THEN [blocks EXCEPT ![cur].term = Return(<<>>)]
                           ELSE blocks
  /\ UNCHANGED <<src, order, cur, frames, blk, ctx>>

Args == [i \in DOMAIN Params |-> Value(Params[i].id, 0, Params[i].typ)]

Init ==
  LET ids == {Params[i].id : i \in DOMAIN Params}
      arg(id) == CHOOSE v \in Range(Args) : v.name[1] = id
      arrays == {id \in ids : IsPtr(arg(id).typ)}
      elem(id) == CHOOSE e \in Scalars : PtrTo[e] = arg(id).typ
  IN  /\ status = "lowering"
      /\ src = <<>>
      /\ blocks = [l \in {Entry} |-> NewBlock]
      /\ order = <<Entry>>
      /\ cur = Entry
      /\ frames = <<>>
      /\ blk = 0
      /\ ctx = [env |-> [id \in ids |-> arg(id)],
                arrays |-> [id \in arrays |-> [ptr |-> arg(id), elem |-> elem(id), len |-> {}]],
                tmp |-> 0,
                ver |-> [id \in VarNames |-> IF id \in ids THEN 1 ELSE 0]]

Next == (\E s \in Stmts : Lowers(s)) \/ Finish

Spec == Init /\ [][Next]_vars

-----------------------------------------------------------------------------
(* Properties. *)

\* Type invariant of the front end's state: blocks and their order agree, the
\* current block and the blocks pending on the stack exist, the names in scope
\* are names of the program.
TypeOK ==
  /\ status \in {"lowering", "done", "rejected"}
  /\ src \in Seq(Stmts)
  /\ Range(order) = DOMAIN blocks /\ IsInjective(order)
  /\ cur \in DOMAIN blocks
  /\ \A f \in Range(frames) :
       \/ f.k \in {"then", "else"} /\ {f.then, f.else, f.join} \subseteq DOMAIN blocks
       \/ f.k = "while" /\ {f.cond, f.body, f.exit} \subseteq DOMAIN blocks
  /\ blk \in Nat /\ ctx.tmp \in Nat
  /\ ctx.ver \in [VarNames -> Nat]
  /\ DOMAIN ctx.env \cup DOMAIN ctx.arrays \subseteq VarNames

Done == status = "done"

\* The IR is in static single assignment form at every moment: whatever is
\* reassigned, merged by a branch or carried around a loop, no name is given two
\* definitions (the counters of _new_named_value and _new_temp_value).
SingleAssignment == SingleDefinitions(blocks, Args)

\* A finished function is one the code generator can print: every block ends
\* (emit_function raises "missing terminator" otherwise), in blocks that exist
\* and never in the entry; phis open their block; a name that is read is
\* defined somewhere.
IRWellFormed ==
  Done => BlocksEnd(blocks) /\ PhisLead(blocks) /\ UsesDefined(blocks, Args)

\* How many ifs and loops statement i stands in: those opened before it, less
\* those that ended.
Opening == {"if", "while", "for"}
Before(stmts, i, kinds) == Cardinality({j \in 1 .. i - 1 : stmts[j].s \in kinds})
Depth(stmts, i) == Before(stmts, i, Opening) - Before(stmts, i, {"end"})

\* A name bound inside an if or a loop was bound before, outside of all of
\* them, and arrays are allocated outside.
Hoisted ==
  \A i \in DOMAIN src : Depth(src, i) > 0 =>
    /\ src[i].s # "alloc"
    /\ src[i].s \in {"assign", "for"} =>
         \/ src[i].id \in {p.id : p \in Range(Params)}
         \/ \E j \in 1 .. i - 1 : /\ Depth(src, j) = 0
                                  /\ src[j].s \in {"assign", "for"}
                                  /\ src[j].id = src[i].id

\* No if or loop inside another; no statement after a return.
Flat == \A i \in DOMAIN src : src[i].s \in Opening => Depth(src, i) = 0
ReturnsLast == \A i \in DOMAIN src : src[i].s = "return" => i = Len(src)

\* Whatever the nesting and wherever it returns, a program that binds its names
\* before its ifs and loops reads no value on a path that has not defined it:
\* the environments _lower_if and _lower_while restore and merge hold values of
\* blocks that dominate what follows.
HoistedProgramsDominate == Done /\ Hoisted => DefsDominateUses(blocks, Args)

\* Without nesting and early returns, every phi has one value for each
\* predecessor of its block, and that value exists where the edge leaves.
FlatProgramsPhis ==
  Done /\ Hoisted /\ Flat /\ ReturnsLast => PhisMatchPreds(blocks, Args)

AllNodes == UNION {Range(blocks[l].nodes) : l \in DOMAIN blocks}

\* Whatever is assigned to what, memory, casts, comparisons and calls get
\* operands of the types they are printed with, and branches get booleans.
MemoryIsTyped ==
  /\ \A n \in AllNodes : MemoryTyped(n) /\ CallTyped(n, Sigs)
  /\ \A l \in DOMAIN blocks :
       blocks[l].term.k = "br" => blocks[l].term.uses[1].typ = "bool"

-----------------------------------------------------------------------------
(* The lowering implements the block graph of ControlFlow.tla. *)

Abstract(f) ==
  CASE f.k = "then" -> [k |-> "then", to |-> f.join, next |-> f.else]
    [] f.k = "else" -> [k |-> "else", to |-> f.join, next |-> f.join]
    [] f.k = "while" -> [k |-> "while", to |-> f.cond, next |-> f.exit]

CF == INSTANCE ControlFlow WITH
        succ <- [l \in DOMAIN blocks |-> Succ(blocks, l)],
        open <- {l \in DOMAIN blocks : blocks[l].term.k = "none"},
        frames <- [i \in DOMAIN frames |-> Abstract(frames[i])],
        IsVoid <- RetType = "void",
        MaxBlocks <- 3 * MaxStmts

\* Every step of the lowering is a step of the block graph or leaves it as it
\* is: nodes, environments and rejected programs never disturb it.
BuildsControlFlow == CF!Spec

-----------------------------------------------------------------------------
(* What the documents say, and the code does not do. *)

\* "CFG + SSA": phis name their predecessors, also when loops are nested.
NestedProgramsPhis == Done /\ Hoisted /\ ReturnsLast => PhisMatchPreds(blocks, Args)

\* A return is where a Python function ends: no statement after it, in the
\* same block, takes its place.
ReturnsAreFinal ==
  [][\A l \in DOMAIN blocks :
       blocks[l].term.k = "ret" => blocks'[l].term = blocks[l].term]_vars

\* A variable is not merged with values of two types, as _merge_env_with_phi
\* insists for the branches of an if.
PhisAreTyped == Done => \A n \in AllNodes : PhiTyped(n)
=============================================================================
