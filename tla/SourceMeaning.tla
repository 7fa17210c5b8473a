----------------------------- MODULE SourceMeaning -----------------------------
(***************************************************************************)
(* What a Python function means, run by Python: the reference against which  *)
(* the compiled function is compared.  Programs are the statement sequences  *)
(* of Lowering.tla, expressions in postfix order.                            *)
(*                                                                         *)
(* A run ends in "ret" with a value, in "raises" where Python raises or a    *)
(* number leaves the range of an int, or in "differs" where the compiler is  *)
(* known to do something else (see the README); nothing is asked of the last *)
(* two.                                                                      *)
(***************************************************************************)
EXTENDS Execution

\* Evaluation of an expression in state s: {} if it raises.
Eval(s, expr) ==
  LET top(st, i) == st[Len(st) - i]
      put(st, n, p) == IF InRange(p) THEN {Append(SubSeq(st, 1, Len(st) - n), p)} ELSE {}
      token(st, k) ==
        CASE k.t = "const" -> put(st, 0, Whole(k.imm))
          [] k.t = "name" -> IF k.id \in DOMAIN s.env THEN put(st, 0, s.env[k.id]) ELSE {}
          [] k.t = "element" ->
               IF k.id \in DOMAIN s.arr /\ top(st, 0)[1] \in DOMAIN s.arr[k.id]
               THEN put(st, 1, s.arr[k.id][top(st, 0)[1]]) ELSE {}
          [] k.t \in {"binop", "compare"} ->
               IF k.op = "/" /\ top(st, 0) = Whole(0) THEN {}
               ELSE put(st, 2, Compute(k.op, top(st, 1), top(st, 0)))
          [] k.t = "neg" -> put(st, 1, Compute("-", Whole(0), top(st, 0)))
      all(sts, k) == UNION {token(st, k) : st \in sts}
  IN  {st[1] : st \in FoldLeft(all, {<<>>}, expr)}

Raised(s) == [s EXCEPT !.k = "raises"]
Differs(s) == [s EXCEPT !.k = "differs"]
Set(s, id, p) == [s EXCEPT !.env = (id :> p) @@ @]
Go(s, pc) == [s EXCEPT !.pc = pc]

\* The statement that closes the construct opened at i: its "else" or its "end".
Nesting(prog, i, j) ==
  LET before(S) == Cardinality({h \in i .. j - 1 : prog[h].s \in S})
  IN  before({"if", "while", "for"}) - before({"end"})
Closer(prog, i, kind) ==
  CHOOSE j \in i + 1 .. Len(prog) : prog[j].s = kind /\ Nesting(prog, i, j) = 1
Opener(prog, j) ==
  CHOOSE i \in 1 .. j - 1 : prog[i].s \in {"if", "while", "for"} /\ Nesting(prog, i, j) = 1
                            /\ \A h \in i + 1 .. j - 1 : Nesting(prog, i, h) >= 1

\* A for loop takes the next number of its range, or ends.  The compiled loop
\* evaluates its bounds again, reads the variable as the body left it, counts up,
\* and leaves the variable past the range.
Continues(r) == r.next[1] < r.stop[1]

NextTurn(prog, s, i) ==
  LET r == s.iter[i]
      next == Compute("+", r.next, r.step)
  IN  IF Continues(r)
      THEN Go([Set(s, prog[i].id, r.next) EXCEPT !.iter[i].next = next], i + 1)
      ELSE Go([s EXCEPT !.env = [x \in DOMAIN @ \ {prog[i].id} |-> @[x]]],
              Closer(prog, i, "end") + 1)

StartLoop(prog, s, start, stop, step) ==
  IF {} \in {start, stop, step} \/ step = {Whole(0)} THEN Raised(s)
  ELSE IF The(step)[1] < 0 THEN Differs(s)
  ELSE NextTurn(prog, [s EXCEPT !.iter = (s.pc :> [next |-> The(start), stop |-> The(stop),
                                                   step |-> The(step)]) @@ @], s.pc)

EndTurn(prog, s, i) ==
  LET r == s.iter[i]
      stale == \/ s.env[prog[i].id] # Compute("-", r.next, r.step)
               \/ Eval(s, prog[i].stop) # {r.stop}
               \/ Eval(s, prog[i].step) # {r.step}
  IN  IF ~InRange(r.next) \/ prog[i].id \notin DOMAIN s.env \/ stale THEN Differs(s)
      ELSE NextTurn(prog, s, i)

\* One statement.
ReturnValue(prog, s, values) ==
  IF s.pc < Len(prog) /\ prog[s.pc + 1].s \notin {"else", "end"} THEN Differs(s)
  ELSE [s EXCEPT !.k = "ret", !.val = values]

Test(prog, s, p, other) == Go(s, IF p = Whole(1) THEN s.pc + 1 ELSE other + 1)

Do(prog, s, t, e) ==
  CASE t.s = "assign" -> Go(Set(s, t.id, e), s.pc + 1)
    [] t.s = "aug" ->
         IF t.id \notin DOMAIN s.env \/ (t.op = "/" /\ e = Whole(0)) THEN Raised(s)
         ELSE IF ~InRange(Compute(t.op, s.env[t.id], e)) THEN Raised(s)
         ELSE Go(Set(s, t.id, Compute(t.op, s.env[t.id], e)), s.pc + 1)
    [] t.s = "alloc" -> Go([s EXCEPT !.arr = (t.id :> [i \in 0 .. e[1] - 1 |-> Whole(0)]) @@ @],
                           s.pc + 1)
    [] t.s = "store" ->
         IF t.id \notin DOMAIN s.arr \/ Eval(s, t.index) = {} THEN Raised(s)
         ELSE IF The(Eval(s, t.index))[1] \notin DOMAIN s.arr[t.id] THEN Raised(s)
         ELSE Go([s EXCEPT !.arr[t.id][The(Eval(s, t.index))[1]] = e], s.pc + 1)
    [] t.s = "return" -> ReturnValue(prog, s, <<e>>)
    [] t.s = "if" -> Test(prog, s, e, Closer(prog, s.pc, "else"))
    [] t.s = "while" -> Test(prog, s, e, Closer(prog, s.pc, "end"))

Close(prog, s, i) ==
  CASE prog[i].s = "if" -> Go(s, s.pc + 1)
    [] prog[i].s = "while" -> Go(s, i)
    [] prog[i].s = "for" -> EndTurn(prog, s, i)

DoNext(prog, s, t) ==
  CASE t.s = "else" -> Go(s, Closer(prog, Opener(prog, s.pc), "end") + 1)
    [] t.s = "end" -> Close(prog, s, Opener(prog, s.pc))
    [] t.s = "for" -> StartLoop(prog, s, Eval(s, t.start), Eval(s, t.stop), Eval(s, t.step))
    [] t.s = "return" /\ t.expr = <<>> -> ReturnValue(prog, s, <<>>)
    [] OTHER -> IF Eval(s, t.expr) = {} THEN Raised(s) ELSE Do(prog, s, t, The(Eval(s, t.expr)))

\* The call of a function: half as many statements as the compiled function
\* visits blocks, since a statement leads through two blocks at most.
Meaning(prog, env) ==
  LET step(s, i) == IF s.k # "run" THEN s
                    ELSE IF s.pc > Len(prog) THEN [s EXCEPT !.k = "ret"]
                    ELSE DoNext(prog, s, prog[s.pc])
  IN  FoldLeft(step, [k |-> "run", pc |-> 1, env |-> env, arr |-> <<>>, iter |-> <<>>,
                      val |-> <<>>],
               [i \in 1 .. (Steps \div 2) - 1 |-> i])
=============================================================================
