--------------------------- MODULE Lowering_proofs ---------------------------
(***************************************************************************)
(* The lowering of every program keeps the graph of blocks that              *)
(* ControlFlow.tla promises, gives no name two definitions, reads no name     *)
(* that has none, prints memory, casts, comparisons and calls with the types  *)
(* of their operands and, where names are bound before ifs and loops, reads   *)
(* a value only where every path has defined it: for every statement,         *)
(* signature and length.                                                      *)
(***************************************************************************)
EXTENDS Lowering, FiniteSetTheorems, TLAPS

-----------------------------------------------------------------------------
(* The vocabulary of the proofs.  K is a set of values that are known: the    *)
(* arguments and the results of the nodes emitted so far.                     *)

Values == [name : (VarNames \cup {"%t"}) \X Nat, typ : ValueTypes]

IsArray(x, K) ==
  /\ x.elem \in Scalars /\ x.ptr \in K /\ x.ptr.typ = PtrTo[x.elem]

IsContext(c, K) ==
  /\ K \subseteq Values
  /\ DOMAIN c = {"env", "arrays", "tmp", "ver"}
  /\ DOMAIN c.env \subseteq VarNames /\ \A id \in DOMAIN c.env : c.env[id] \in K
  /\ DOMAIN c.arrays \subseteq VarNames /\ \A id \in DOMAIN c.arrays : IsArray(c.arrays[id], K)
  /\ c.tmp \in Nat
  /\ c.ver \in [VarNames -> Nat]

\* The names that the counters of c have given out.
Given(c) == ({"%t"} \X (1 .. c.tmp)) \cup {n \in VarNames \X Nat : n[2] < c.ver[n[1]]}

Typed(n) == MemoryTyped(n) /\ CallTyped(n, Sigs)

IsNode(n, K) ==
  /\ DOMAIN n = {"op", "args", "res", "elem", "inc", "imm"}
  /\ n.args \in Seq(K) /\ n.res \subseteq K /\ Range(n.inc) \subseteq K
  /\ \A v, w \in n.res : v = w
  /\ n.res = {} => n.op \in {"store", "call"}
  /\ Typed(n)

ResNames(n) == {v.name : v \in n.res}
Results(code) == UNION {n.res : n \in Range(code)}
IsCode(code, K) == code \in Seq(Range(code)) /\ \A i \in 1 .. Len(code) : IsNode(code[i], K)
NamesOnce(code) ==
  \A i, j \in 1 .. Len(code) : i # j => ResNames(code[i]) \cap ResNames(code[j]) = {}
NamesIn(code, N) == \A i \in 1 .. Len(code) : ResNames(code[i]) \subseteq N
Plain(code) == \A i \in 1 .. Len(code) : code[i].op # "phi"

\* A node reads values of K and results of nodes before it.
ReadsEarlier(code, K) ==
  \A i \in 1 .. Len(code) : \A v \in Range(code[i].args) :
    v \in K \/ \E j \in 1 .. i - 1 : v \in code[j].res

\* code takes the context from c to c2, where the values K were known before:
\* it reads known values, and names its results with numbers not given out.
EmitsCode(c, K, code, c2) ==
  /\ IsCode(code, K \cup Results(code))
  /\ ReadsEarlier(code, K)
  /\ NamesOnce(code)
  /\ NamesIn(code, Given(c2) \ Given(c))
  /\ Given(c) \subseteq Given(c2)
  /\ IsContext(c2, K \cup Results(code))

-----------------------------------------------------------------------------
(* What is known stays known. *)

LEMMA NodeMonotone ==
  ASSUME NEW K, NEW L, K \subseteq L, NEW n, IsNode(n, K)
  PROVE  IsNode(n, L)
BY DEF IsNode

LEMMA CodeMonotone ==
  ASSUME NEW K, NEW L, K \subseteq L, NEW code, IsCode(code, K)
  PROVE  IsCode(code, L)
BY NodeMonotone DEF IsCode

LEMMA ContextMonotone ==
  ASSUME NEW K, NEW L, K \subseteq L, L \subseteq Values, NEW c, IsContext(c, K)
  PROVE  IsContext(c, L)
BY DEF IsContext, IsArray

-----------------------------------------------------------------------------
(* One piece of code after another. *)

LEMMA Concatenation ==
  ASSUME NEW a, NEW b, a \in Seq(Range(a)), b \in Seq(Range(b))
  PROVE  /\ a \o b \in Seq(Range(a \o b))
         /\ Len(a \o b) = Len(a) + Len(b) /\ Len(a) \in Nat /\ Len(b) \in Nat
         /\ \A i \in 1 .. Len(a) : (a \o b)[i] = a[i]
         /\ \A i \in Len(a) + 1 .. Len(a) + Len(b) : (a \o b)[i] = b[i - Len(a)]
         /\ Range(a \o b) = Range(a) \cup Range(b)
  <1> DEFINE S == Range(a) \cup Range(b)
             ab == a \o b
  <1>1. a \in Seq(S) /\ b \in Seq(S)
    BY DEF Range
  <1>. HIDE DEF S
  <1>2. /\ ab \in Seq(S) /\ Len(ab) = Len(a) + Len(b) /\ Len(a) \in Nat /\ Len(b) \in Nat
        /\ \A i \in 1 .. Len(a) : ab[i] = a[i]
        /\ \A i \in Len(a) + 1 .. Len(a) + Len(b) : ab[i] = b[i - Len(a)]
    BY <1>1
  <1>. HIDE DEF ab
  <1>3. DOMAIN ab = 1 .. Len(ab) /\ DOMAIN a = 1 .. Len(a) /\ DOMAIN b = 1 .. Len(b)
    BY <1>1, <1>2
  <1>4. Range(ab) \subseteq S
    BY <1>2 DEF Range
  <1>5. Range(a) \subseteq Range(ab)
    BY <1>2, <1>3 DEF Range
  <1>6. Range(b) \subseteq Range(ab)
    <2> SUFFICES ASSUME NEW i \in 1 .. Len(b) PROVE b[i] \in Range(ab)
      BY <1>3 DEF Range
    <2>1. Len(a) + i \in Len(a) + 1 .. Len(a) + Len(b) /\ (Len(a) + i) - Len(a) = i
      BY <1>2
    <2>2. ab[Len(a) + i] = b[i] /\ Len(a) + i \in DOMAIN ab
      BY <1>2, <1>3, <2>1
    <2>. QED
      BY <2>2 DEF Range
  <1>7. ab \in Seq(Range(ab))
    <2>1. \A i \in 1 .. Len(ab) : ab[i] \in Range(ab)
      BY <1>3 DEF Range
    <2>. QED
      BY <1>2, <2>1
  <1>. QED
    BY <1>2, <1>4, <1>5, <1>6, <1>7 DEF S, ab

LEMMA ResultsOfBoth ==
  ASSUME NEW a, NEW b, a \in Seq(Range(a)), b \in Seq(Range(b))
  PROVE  Results(a \o b) = Results(a) \cup Results(b)
BY Concatenation DEF Results

\* Two sequences of nodes in one: what each satisfies, both do.
LEMMA CodeOfBoth ==
  ASSUME NEW K, NEW a, NEW b, IsCode(a, K), IsCode(b, K)
  PROVE  /\ IsCode(a \o b, K)
         /\ Plain(a) /\ Plain(b) => Plain(a \o b)
         /\ \A N : NamesIn(a, N) /\ NamesIn(b, N) => NamesIn(a \o b, N)
  <1> DEFINE ab == a \o b
  <1>1. /\ ab \in Seq(Range(ab)) /\ Len(ab) = Len(a) + Len(b)
        /\ Len(a) \in Nat /\ Len(b) \in Nat
        /\ \A i \in 1 .. Len(a) : ab[i] = a[i]
        /\ \A i \in Len(a) + 1 .. Len(a) + Len(b) : ab[i] = b[i - Len(a)]
    BY Concatenation DEF IsCode
  <1>. HIDE DEF ab
  <1>2. ASSUME NEW i \in 1 .. Len(ab)
        PROVE  \/ \E j \in 1 .. Len(a) : ab[i] = a[j]
               \/ \E j \in 1 .. Len(b) : ab[i] = b[j]
    <2>1. CASE i \in 1 .. Len(a)
      BY <1>1, <2>1
    <2>2. CASE i \in Len(a) + 1 .. Len(a) + Len(b)
      <3>1. i - Len(a) \in 1 .. Len(b)
        BY <1>1, <2>2
      <3>. QED
        BY <1>1, <2>2, <3>1
    <2>. QED
      BY <1>1, <2>1, <2>2
  <1>3. IsCode(ab, K)
    BY <1>1, <1>2 DEF IsCode
  <1>4. Plain(a) /\ Plain(b) => Plain(ab)
    BY <1>2 DEF Plain
  <1>5. ASSUME NEW N, NamesIn(a, N), NamesIn(b, N) PROVE NamesIn(ab, N)
    BY <1>2, <1>5 DEF NamesIn
  <1>. QED
    BY <1>3, <1>4, <1>5 DEF ab

LEMMA NamesOnceInBoth ==
  ASSUME NEW K, NEW a, NEW b, IsCode(a, K), IsCode(b, K), NamesOnce(a), NamesOnce(b),
         NEW M, NEW N, NamesIn(a, M), NamesIn(b, N), M \cap N = {}
  PROVE  NamesOnce(a \o b)
  <1> DEFINE ab == a \o b
  <1>1. /\ Len(ab) = Len(a) + Len(b)
        /\ Len(a) \in Nat /\ Len(b) \in Nat
        /\ \A i \in 1 .. Len(a) : ab[i] = a[i]
        /\ \A i \in Len(a) + 1 .. Len(a) + Len(b) : ab[i] = b[i - Len(a)]
    BY Concatenation DEF IsCode
  <1>. HIDE DEF ab
  <1> SUFFICES ASSUME NEW i \in 1 .. Len(ab), NEW j \in 1 .. Len(ab), i # j
               PROVE  ResNames(ab[i]) \cap ResNames(ab[j]) = {}
    BY DEF NamesOnce, ab
  <1>2. CASE i \in 1 .. Len(a) /\ j \in 1 .. Len(a)
    BY <1>1, <1>2 DEF NamesOnce
  <1>3. CASE i \in Len(a) + 1 .. Len(a) + Len(b) /\ j \in Len(a) + 1 .. Len(a) + Len(b)
    <2>1. i - Len(a) \in 1 .. Len(b) /\ j - Len(a) \in 1 .. Len(b) /\ i - Len(a) # j - Len(a)
      BY <1>1, <1>3
    <2>. QED
      BY <1>1, <1>3, <2>1 DEF NamesOnce
  <1>4. CASE i \in 1 .. Len(a) /\ j \in Len(a) + 1 .. Len(a) + Len(b)
    <2>1. j - Len(a) \in 1 .. Len(b)
      BY <1>1, <1>4
    <2>2. ResNames(ab[i]) \subseteq M /\ ResNames(ab[j]) \subseteq N
      BY <1>1, <1>4, <2>1 DEF NamesIn
    <2>. QED
      BY <2>2
  <1>5. CASE i \in Len(a) + 1 .. Len(a) + Len(b) /\ j \in 1 .. Len(a)
    <2>1. i - Len(a) \in 1 .. Len(b)
      BY <1>1, <1>5
    <2>2. ResNames(ab[j]) \subseteq M /\ ResNames(ab[i]) \subseteq N
      BY <1>1, <1>5, <2>1 DEF NamesIn
    <2>. QED
      BY <2>2
  <1>. QED
    BY <1>1, <1>2, <1>3, <1>4, <1>5

LEMMA EarlierInBoth ==
  ASSUME NEW K, NEW L, NEW a, NEW b, IsCode(a, L), IsCode(b, L),
         ReadsEarlier(a, K), ReadsEarlier(b, K \cup Results(a))
  PROVE  ReadsEarlier(a \o b, K)
  <1> DEFINE ab == a \o b
  <1>1. /\ Len(ab) = Len(a) + Len(b)
        /\ Len(a) \in Nat /\ Len(b) \in Nat
        /\ \A i \in 1 .. Len(a) : ab[i] = a[i]
        /\ \A i \in Len(a) + 1 .. Len(a) + Len(b) : ab[i] = b[i - Len(a)]
    BY Concatenation DEF IsCode
  <1>2. \A v \in Results(a) : \E j \in 1 .. Len(a) : v \in ab[j].res
    <2>1. DOMAIN a = 1 .. Len(a)
      BY DEF IsCode
    <2>. QED
      BY <1>1, <2>1 DEF Results, Range
  <1>. HIDE DEF ab
  <1> SUFFICES ASSUME NEW i \in 1 .. Len(ab), NEW v \in Range(ab[i].args), v \notin K
               PROVE  \E j \in 1 .. i - 1 : v \in ab[j].res
    BY DEF ReadsEarlier, ab
  <1>3. CASE i \in 1 .. Len(a)
    <2>1. PICK j \in 1 .. i - 1 : v \in a[j].res
      BY <1>1, <1>3 DEF ReadsEarlier
    <2>2. j \in 1 .. Len(a)
      BY <1>1, <1>3
    <2>. QED
      BY <1>1, <2>1, <2>2
  <1>4. CASE i \in Len(a) + 1 .. Len(a) + Len(b)
    <2>1. i - Len(a) \in 1 .. Len(b) /\ ab[i] = b[i - Len(a)]
      BY <1>1, <1>4
    <2>2. v \in Results(a) \/ \E j \in 1 .. i - Len(a) - 1 : v \in b[j].res
      BY <2>1 DEF ReadsEarlier
    <2>3. CASE v \in Results(a)
      <3>1. PICK j \in 1 .. Len(a) : v \in ab[j].res
        BY <1>2, <2>3
      <3>2. j \in 1 .. i - 1
        BY <1>1, <1>4
      <3>. QED
        BY <3>1, <3>2
    <2>4. ASSUME NEW j \in 1 .. i - Len(a) - 1, v \in b[j].res
          PROVE  \E k \in 1 .. i - 1 : v \in ab[k].res
      <3>1. /\ Len(a) + j \in 1 .. i - 1 /\ (Len(a) + j) - Len(a) = j
            /\ Len(a) + j \in Len(a) + 1 .. Len(a) + Len(b)
        BY <1>1, <1>4
      <3>2. ab[Len(a) + j] = b[j]
        BY <1>1, <3>1
      <3>. QED
        BY <2>4, <3>1, <3>2
    <2>. QED
      BY <2>2, <2>3, <2>4
  <1>. QED
    BY <1>1, <1>3, <1>4

LEMMA EmitsBoth ==
  ASSUME NEW c, NEW K, NEW a, NEW c1, NEW b, NEW c2,
         EmitsCode(c, K, a, c1), EmitsCode(c1, K \cup Results(a), b, c2)
  PROVE  EmitsCode(c, K, a \o b, c2)
  <1> DEFINE L == K \cup Results(a) \cup Results(b)
  <1>1. a \in Seq(Range(a)) /\ b \in Seq(Range(b))
    BY DEF EmitsCode, IsCode
  <1>2. K \cup Results(a \o b) = L
    BY <1>1, ResultsOfBoth
  <1>3. IsCode(a, L) /\ IsCode(b, L)
    BY CodeMonotone DEF EmitsCode
  <1>4. /\ NamesOnce(a) /\ NamesOnce(b)
        /\ NamesIn(a, Given(c1) \ Given(c)) /\ NamesIn(b, Given(c2) \ Given(c1))
        /\ Given(c) \subseteq Given(c1) /\ Given(c1) \subseteq Given(c2)
        /\ IsContext(c2, L)
    BY DEF EmitsCode
  <1>. HIDE DEF L
  <1>5. NamesOnce(a \o b)
    BY <1>3, <1>4, NamesOnceInBoth
  <1>6. NamesIn(a, Given(c2) \ Given(c)) /\ NamesIn(b, Given(c2) \ Given(c))
    BY <1>4 DEF NamesIn
  <1>7. IsCode(a \o b, L) /\ NamesIn(a \o b, Given(c2) \ Given(c))
    BY <1>3, <1>6, CodeOfBoth
  <1>8. ReadsEarlier(a \o b, K)
    BY <1>3, EarlierInBoth DEF EmitsCode
  <1>. QED
    BY <1>2, <1>4, <1>5, <1>7, <1>8 DEF EmitsCode

-----------------------------------------------------------------------------
(* Single nodes, temporaries and types. *)

LEMMA NoNode ==
  ASSUME NEW c, NEW K, IsContext(c, K)
  PROVE  EmitsCode(c, K, <<>>, c) /\ Results(<<>>) = {} /\ Plain(<<>>)
  <1>1. Range(<<>>) = {} /\ Len(<<>>) = 0 /\ <<>> \in Seq({})
    BY DEF Range
  <1>2. Results(<<>>) = {}
    BY <1>1 DEF Results
  <1>3. K \cup Results(<<>>) = K
    BY <1>2
  <1>4. IsCode(<<>>, K)
    BY <1>1 DEF IsCode
  <1>5. NamesOnce(<<>>) /\ NamesIn(<<>>, Given(c) \ Given(c)) /\ Plain(<<>>)
    BY <1>1 DEF NamesOnce, NamesIn, Plain
  <1>6. ReadsEarlier(<<>>, K)
    BY <1>1 DEF ReadsEarlier
  <1>. QED
    BY <1>2, <1>3, <1>4, <1>5, <1>6 DEF EmitsCode

LEMMA OneNode ==
  ASSUME NEW c, NEW K, NEW n, NEW c2,
         IsNode(n, K \cup n.res), Range(n.args) \subseteq K, ResNames(n) \subseteq Given(c2) \ Given(c),
         Given(c) \subseteq Given(c2), IsContext(c2, K \cup n.res)
  PROVE  EmitsCode(c, K, <<n>>, c2) /\ Results(<<n>>) = n.res
  <1>1. Range(<<n>>) = {n} /\ Len(<<n>>) = 1 /\ <<n>> \in Seq({n}) /\ <<n>>[1] = n
    BY DEF Range
  <1>2. Results(<<n>>) = n.res
    BY <1>1 DEF Results
  <1>3. IsCode(<<n>>, K \cup n.res)
    BY <1>1 DEF IsCode
  <1>4. NamesOnce(<<n>>) /\ NamesIn(<<n>>, Given(c2) \ Given(c))
    BY <1>1 DEF NamesOnce, NamesIn
  <1>5. ReadsEarlier(<<n>>, K)
    BY <1>1 DEF ReadsEarlier
  <1>. QED
    BY <1>2, <1>3, <1>4, <1>5 DEF EmitsCode

LEMMA TypeFacts ==
  /\ \A e \in Scalars : PtrTo[e] \in Pointers /\ PtrTo[e] \in ValueTypes
  /\ Scalars \cap Pointers = {}
  /\ \A t \in ValueTypes : ~IsPtr(t) => t \in Scalars
BY DEF Scalars, Pointers, PtrTo, ValueTypes, IsPtr

NextTemp(c) == [c EXCEPT !.tmp = @ + 1]

LEMMA TemporaryIsNew ==
  ASSUME NEW c, NEW K, IsContext(c, K), NEW typ \in ValueTypes
  PROVE  LET v == Temp(c.tmp + 1, typ)
         IN  /\ v \in Values /\ v.typ = typ
             /\ IsContext(NextTemp(c), K \cup {v})
             /\ v.name \in Given(NextTemp(c)) \ Given(c)
             /\ Given(c) \subseteq Given(NextTemp(c))
  <1> DEFINE v == Temp(c.tmp + 1, typ)
             c2 == NextTemp(c)
  <1>1. v \in Values /\ v.typ = typ /\ v.name = <<"%t", c.tmp + 1>>
    BY DEF Values, Temp, Value, IsContext
  <1>2. /\ DOMAIN c2 = {"env", "arrays", "tmp", "ver"}
        /\ c2.env = c.env /\ c2.arrays = c.arrays /\ c2.tmp = c.tmp + 1 /\ c2.ver = c.ver
        /\ c.tmp \in Nat
    BY DEF IsContext, NextTemp
  <1>. HIDE DEF v, c2
  <1>3. IsContext(c2, K)
    BY <1>2 DEF IsContext
  <1>4. IsContext(c2, K \cup {v})
    <2>1. K \subseteq K \cup {v} /\ K \cup {v} \subseteq Values
      BY <1>1 DEF IsContext
    <2>. QED
      BY <1>3, <2>1, ContextMonotone
  <1>5. v.name \in Given(c2) \ Given(c)
    BY <1>1, <1>2, LoweringAssumption DEF Given
  <1>6. Given(c) \subseteq Given(c2)
    BY <1>2 DEF Given
  <1>. QED
    BY <1>1, <1>4, <1>5, <1>6 DEF v, c2

-----------------------------------------------------------------------------
(* Expressions: the accumulator a of a fold that began in context c, with d   *)
(* operands on its stack, unless the front end has raised.                    *)

Operands(K) == [val : K, lit : SUBSET Int, const : BOOLEAN]
Known(K, a) == K \cup Results(a.code)

Accumulates(c, K, a, d) ==
  /\ DOMAIN a = {"ok", "code", "ctx", "stack"} /\ a.ok = TRUE
  /\ EmitsCode(c, K, a.code, a.ctx) /\ Plain(a.code)
  /\ a.stack \in Seq(Operands(Known(K, a)))
  /\ Len(a.stack) = d

\* b is a with one more node, in context c2.
Appends(a, b, n, c2) ==
  /\ DOMAIN b = DOMAIN a /\ b.ok = TRUE
  /\ b.code = Append(a.code, n) /\ b.ctx = c2 /\ b.stack = a.stack

LEMMA AppendNode ==
  ASSUME NEW c, NEW K, NEW a, NEW d, Accumulates(c, K, a, d),
         NEW n, NEW c2, n.op # "phi", EmitsCode(a.ctx, Known(K, a), <<n>>, c2),
         NEW b, Appends(a, b, n, c2)
  PROVE  /\ Accumulates(c, K, b, d)
         /\ Known(K, b) = Known(K, a) \cup n.res
  <1>. USE DEF Appends
  <1>1. a.code \in Seq(Range(a.code)) /\ EmitsCode(c, K, a.code, a.ctx)
    BY DEF Accumulates, EmitsCode, IsCode
  <1>2. b.code = a.code \o <<n>>
    <2>1. Append(a.code, n) = a.code \o <<n>>
      <3>1. a.code \in Seq(Range(a.code) \cup {n})
        BY <1>1
      <3>. QED
        BY <3>1
    <2>. QED
      BY <2>1
  <1>3. EmitsCode(c, K, b.code, c2)
    BY <1>1, <1>2, EmitsBoth DEF Known
  <1>4. <<n>> \in Seq(Range(<<n>>)) /\ Results(<<n>>) = n.res
    BY DEF Results, Range
  <1>5. Results(b.code) = Results(a.code) \cup n.res
    <2>1. Results(a.code \o <<n>>) = Results(a.code) \cup Results(<<n>>)
      BY <1>1, <1>4, ResultsOfBoth
    <2>. QED
      BY <1>2, <1>4, <2>1
  <1>6. Plain(b.code)
    <2>1. Plain(<<n>>)
      BY DEF Plain
    <2>2. IsCode(a.code, Known(K, a) \cup Results(<<n>>)) /\ IsCode(<<n>>, Known(K, a) \cup Results(<<n>>))
      BY CodeMonotone, <1>1 DEF EmitsCode, Known
    <2>. QED
      BY <1>2, <2>1, <2>2, CodeOfBoth DEF Accumulates
  <1>7. b.stack \in Seq(Operands(Known(K, b)))
    <2>1. Operands(Known(K, a)) \subseteq Operands(Known(K, b))
      BY <1>5 DEF Operands, Known
    <2>2. a.stack \in Seq(Operands(Known(K, a)))
      BY DEF Accumulates
    <2>. QED
      BY <2>1, <2>2
  <1>. QED
    BY <1>3, <1>5, <1>6, <1>7 DEF Accumulates, Known

Emitted(c, K, a, d, b, v) ==
  /\ Accumulates(c, K, b, d) /\ b.stack = a.stack
  /\ Known(K, b) = Known(K, a) \cup {v}

\* A node whose result is the next temporary.
LEMMA AppendTemp ==
  ASSUME NEW c, NEW K, NEW a, NEW d, Accumulates(c, K, a, d),
         NEW typ \in ValueTypes, NEW n, n.op # "phi", n.res = {Fresh(a, typ)},
         IsNode(n, Known(K, a) \cup {Fresh(a, typ)}), Range(n.args) \subseteq Known(K, a),
         NEW b, Appends(a, b, n, NextTemp(a.ctx))
  PROVE  Emitted(c, K, a, d, b, Fresh(a, typ)) /\ Fresh(a, typ).typ = typ
  <1>1. IsContext(a.ctx, Known(K, a))
    BY DEF Accumulates, EmitsCode, Known
  <1>3. EmitsCode(a.ctx, Known(K, a), <<n>>, NextTemp(a.ctx))
    <2> DEFINE v == Fresh(a, typ)
               d2 == NextTemp(a.ctx)
    <2>1. /\ v \in Values /\ v.name \in Given(d2) \ Given(a.ctx) /\ Given(a.ctx) \subseteq Given(d2)
          /\ IsContext(d2, Known(K, a) \cup {v})
      BY <1>1, TemporaryIsNew DEF Fresh
    <2>2. ResNames(n) = {v.name}
      BY DEF ResNames
    <2> DEFINE L == Known(K, a)
    <2>3. IsNode(n, L \cup n.res) /\ n.res = {v} /\ Range(n.args) \subseteq L
      OBVIOUS
    <2>. HIDE DEF v, d2, L
    <2>4. EmitsCode(a.ctx, L, <<n>>, d2)
      BY <2>1, <2>2, <2>3, OneNode DEF L
    <2>. QED
      BY <2>4 DEF L, d2
  <1>4. Fresh(a, typ).typ = typ
    BY <1>1, TemporaryIsNew DEF Fresh
  <1>5. Accumulates(c, K, b, d) /\ Known(K, b) = Known(K, a) \cup n.res
    BY <1>3, AppendNode
  <1>. QED
    BY <1>4, <1>5 DEF Appends, Emitted

LEMMA PushOperand ==
  ASSUME NEW c, NEW K, NEW a, NEW d, Accumulates(c, K, a, d),
         NEW n \in Nat, n <= d, NEW v \in Known(K, a), NEW lit \in SUBSET Int, NEW const \in BOOLEAN,
         NEW d2, d2 = d - n + 1
  PROVE  Accumulates(c, K, Push(a, n, v, lit, const), d2)
  <1> DEFINE b == Push(a, n, v, lit, const)
             o == Operand(v, lit, const)
             rest == SubSeq(a.stack, 1, Len(a.stack) - n)
  <1>1. /\ DOMAIN b = DOMAIN a /\ b.ok = TRUE /\ b.code = a.code
        /\ b.ctx = a.ctx /\ b.stack = Append(rest, o)
    BY DEF Accumulates, Push
  <1>2. a.stack \in Seq(Operands(Known(K, a))) /\ Len(a.stack) = d /\ d \in Nat
    BY DEF Accumulates
  <1>3. o \in Operands(Known(K, a))
    BY DEF Operands, Operand
  <1>. HIDE DEF b, o
  <1>4. rest \in Seq(Operands(Known(K, a))) /\ Len(rest) = d - n
    BY <1>2
  <1>. HIDE DEF rest
  <1>5. Append(rest, o) \in Seq(Operands(Known(K, a))) /\ Len(Append(rest, o)) = d - n + 1
    BY <1>3, <1>4
  <1>. QED
    BY <1>1, <1>5 DEF b, Accumulates, Known

\* The operands at hand are known values.
LEMMA OperandFacts ==
  ASSUME NEW c, NEW K, NEW a, NEW d, Accumulates(c, K, a, d), NEW i \in Nat, i < d
  PROVE  /\ Arg(a, i).val \in Known(K, a) /\ Arg(a, i).val \in Values
         /\ Arg(a, i) \in Operands(Known(K, a))
         /\ Arg(a, i).val.typ \in ValueTypes
  <1>1. a.stack \in Seq(Operands(Known(K, a))) /\ Len(a.stack) = d /\ d \in Nat
    BY DEF Accumulates
  <1>2. d - i \in 1 .. d
    BY <1>1
  <1>3. Arg(a, i) \in Operands(Known(K, a))
    BY <1>1, <1>2 DEF Arg
  <1>4. Known(K, a) \subseteq Values
    BY DEF Accumulates, EmitsCode, IsContext, Known
  <1>. QED
    BY <1>3, <1>4 DEF Operands, Values

-----------------------------------------------------------------------------
(* One token after another. *)

LEMMA ElementsOf ==
  ASSUME NEW S, NEW s \in Seq(S)
  PROVE  Range(s) \subseteq S
BY DEF Range

LEMMA ResultNode ==
  ASSUME NEW K, NEW op, NEW args \in Seq(K), NEW v \in K, NEW elem,
         Typed(Node(op, args, {v}, elem))
  PROVE  IsNode(Node(op, args, {v}, elem), K)
  <1>1. Range(<<>>) = {}
    BY DEF Range
  <1>. QED
    BY <1>1 DEF IsNode, Node

LEMMA EffectNode ==
  ASSUME NEW K, NEW args \in Seq(K), NEW elem, Typed(Node("store", args, {}, elem))
  PROVE  IsNode(Node("store", args, {}, elem), K)
  <1>1. Range(<<>>) = {}
    BY DEF Range
  <1>. QED
    BY <1>1 DEF IsNode, Node

\* The operators a plain node may have put no condition on its operands.
LEMMA UntypedNode ==
  ASSUME NEW n, \/ n.op \in Arith \cup {"id", "const", "phi"}
  PROVE  Typed(n)
BY DEF Typed, MemoryTyped, CallTyped, Arith, Compares

LEMMA ConstFacts ==
  ASSUME NEW c, NEW K, NEW a, NEW d, Accumulates(c, K, a, d),
         NEW typ \in ValueTypes, NEW i \in Int
  PROVE  Emitted(c, K, a, d, EmitConst(a, typ, i), Fresh(a, typ)) /\ Fresh(a, typ).typ = typ
  <1> DEFINE n == ConstNode(Fresh(a, typ), Whole(i))
  <1>1. n.op = "const" /\ n.res = {Fresh(a, typ)} /\ n.args = <<>> /\ n.inc = <<>>
        /\ DOMAIN n = {"op", "args", "res", "elem", "inc", "imm"}
    BY DEF ConstNode
  <1>. HIDE DEF n
  <1>2. IsNode(n, Known(K, a) \cup {Fresh(a, typ)})
    <2>1. Range(n.inc) = {}
      BY <1>1 DEF Range
    <2>. QED
      BY <1>1, <2>1, UntypedNode DEF IsNode
  <1>3. Appends(a, EmitConst(a, typ, i), n, NextTemp(a.ctx))
    BY DEF Accumulates, NextTemp, Appends, EmitConst, n
  <1>4. Range(n.args) \subseteq Known(K, a)
    BY <1>1 DEF Range
  <1>5. n.op # "phi" /\ n.res = {Fresh(a, typ)}
    BY <1>1
  <1> DEFINE b == EmitConst(a, typ, i)
  <1>6. Appends(a, b, n, NextTemp(a.ctx))
    BY <1>3
  <1>. HIDE DEF b
  <1>7. Emitted(c, K, a, d, b, Fresh(a, typ)) /\ Fresh(a, typ).typ = typ
    BY <1>2, <1>4, <1>5, <1>6, AppendTemp
  <1>. QED
    BY <1>7 DEF b

LEMMA EmitFacts ==
  ASSUME NEW c, NEW K, NEW a, NEW d, Accumulates(c, K, a, d),
         NEW typ \in ValueTypes, NEW op, op # "phi", NEW args \in Seq(Known(K, a)), NEW elem,
         Typed(Node(op, args, {Fresh(a, typ)}, elem))
  PROVE  /\ Emitted(c, K, a, d, Emit(a, op, args, typ, elem), Fresh(a, typ))
         /\ Fresh(a, typ).typ = typ
  <1> DEFINE n == Node(op, args, {Fresh(a, typ)}, elem)
             L == Known(K, a) \cup {Fresh(a, typ)}
  <1>1. args \in Seq(L) /\ Fresh(a, typ) \in L
    OBVIOUS
  <1>2. Appends(a, Emit(a, op, args, typ, elem), n, NextTemp(a.ctx))
    BY DEF Accumulates, NextTemp, Appends, Emit
  <1>3. IsNode(n, L) /\ n.op = op /\ n.res = {Fresh(a, typ)}
    <2>1. IsNode(n, L)
      BY <1>1, ResultNode, Zenon
    <2>. QED
      BY <2>1 DEF Node
  <1>4. Range(n.args) \subseteq Known(K, a)
    BY ElementsOf DEF Node
  <1>. HIDE DEF n
  <1>. QED
    BY <1>2, <1>3, <1>4, AppendTemp

LEMMA EmitPushFacts ==
  ASSUME NEW c, NEW K, NEW a, NEW d, Accumulates(c, K, a, d),
         NEW m \in Nat, m <= d,
         NEW typ \in ValueTypes, NEW op, op # "phi", NEW args \in Seq(Known(K, a)), NEW elem,
         Typed(Node(op, args, {Fresh(a, typ)}, elem)),
         NEW lit \in SUBSET Int, NEW const \in BOOLEAN, NEW d2, d2 = d - m + 1
  PROVE  Accumulates(c, K, EmitPush(a, m, op, args, typ, elem, lit, const), d2)
  <1> DEFINE b == Emit(a, op, args, typ, elem)
  <1>1. Accumulates(c, K, b, d) /\ Fresh(a, typ) \in Known(K, b)
    BY EmitFacts DEF Emitted
  <1>. HIDE DEF b
  <1>2. Accumulates(c, K, Push(b, m, Fresh(a, typ), lit, const), d2)
    BY <1>1, PushOperand
  <1>. QED
    BY <1>2 DEF EmitPush, b

LEMMA BinaryFacts ==
  ASSUME NEW c, NEW K, NEW a, NEW d \in Nat, Accumulates(c, K, a, d), 2 <= d,
         NEW typ \in ValueTypes, NEW op,
         \/ op \in Arith
         \/ /\ op \in Compares /\ typ = "bool"
            /\ Arg(a, 0).val.typ = Arg(a, 1).val.typ /\ ~IsPtr(Arg(a, 0).val.typ)
  PROVE  Accumulates(c, K, EmitBinary(a, op, typ), d - 1)
  <1> DEFINE x == Arg(a, 1).val
             y == Arg(a, 0).val
             n == Node(op, <<x, y>>, {Fresh(a, typ)}, "none")
  <1>1. x \in Known(K, a) /\ y \in Known(K, a)
    BY OperandFacts
  <1>2. <<x, y>> \in Seq(Known(K, a))
    BY <1>1
  <1>3. Fresh(a, typ).typ = typ
    BY DEF Fresh, Temp, Value
  <1>4. n.op = op /\ n.args = <<x, y>> /\ n.res = {Fresh(a, typ)}
    BY DEF Node
  <1>5. Typed(n) /\ op # "phi"
    <2>. HIDE DEF n
    <2>1. CASE op \in Arith
      <3>1. op # "phi"
        BY <2>1 DEF Arith
      <3>. QED
        BY <1>4, <2>1, <3>1, UntypedNode
    <2>2. CASE op \in Compares /\ typ = "bool" /\ y.typ = x.typ /\ ~IsPtr(y.typ)
      <3>1. op \notin {"phi", "alloca", "gep", "load", "store", "cast", "call"}
        BY <2>2 DEF Compares
      <3>2. ResTypes(n) = {"bool"}
        BY <1>3, <1>4, <2>2 DEF ResTypes
      <3>3. n.args[1] = x /\ n.args[2] = y
        BY <1>4
      <3>4. MemoryTyped(n)
        BY <1>4, <2>2, <3>1, <3>2, <3>3 DEF MemoryTyped
      <3>. QED
        BY <1>4, <3>1, <3>4 DEF CallTyped, Typed
    <2>. QED
      BY <2>1, <2>2
  <1>. HIDE DEF x, y
  <1>6. Accumulates(c, K, EmitPush(a, 2, op, <<x, y>>, typ, "none", {}, FALSE), d - 1)
    <2>1. {} \in SUBSET Int /\ FALSE \in BOOLEAN /\ d - 1 = d - 2 + 1
      OBVIOUS
    <2>. QED
      BY <1>2, <1>5, <2>1, EmitPushFacts
  <1>. QED
    BY <1>6 DEF EmitBinary, x, y

\* An operand that is no pointer, converted to a float; the other operands stay.
LEMMA ToFloatFacts ==
  ASSUME NEW c, NEW K, NEW a, NEW d \in Nat, Accumulates(c, K, a, d),
         NEW i \in Nat, i < d, ~IsPtr(Arg(a, i).val.typ)
  PROVE  LET b == ToFloat(a, i)
         IN  /\ Accumulates(c, K, b, d)
             /\ Arg(b, i).val.typ = "float"
             /\ \A j \in Nat : j < d /\ j # i => Arg(b, j) = Arg(a, j)
  <1> DEFINE v == Arg(a, i).val
             e == Emit(a, "cast", <<v>>, "float", "float")
             n == Node("cast", <<v>>, {Fresh(a, "float")}, "float")
             b == [e EXCEPT !.stack[Len(a.stack) - i].val = Fresh(a, "float")]
  <1>1. v \in Known(K, a) /\ v.typ \in Scalars
    BY OperandFacts, TypeFacts
  <1>2. CASE v.typ = "float"
    BY <1>2 DEF ToFloat
  <1>3. CASE v.typ # "float"
    <2>1. v.typ \in {"int", "bool"}
      BY <1>1, <1>3 DEF Scalars
    <2>2. "float" \in ValueTypes /\ Fresh(a, "float").typ = "float"
      BY DEF ValueTypes, Scalars, Fresh, Temp, Value
    <2>3. Typed(n)
      <3>1. n.op = "cast" /\ n.args[1] = v /\ ResTypes(n) = {"float"}
        BY <2>2 DEF Node, ResTypes
      <3>. HIDE DEF n
      <3>. QED
        BY <2>1, <3>1 DEF Typed, MemoryTyped, CallTyped, Compares
    <2>4. <<v>> \in Seq(Known(K, a))
      BY <1>1
    <2>. HIDE DEF v
    <2>5. /\ Accumulates(c, K, e, d) /\ e.stack = a.stack
          /\ Fresh(a, "float") \in Known(K, e)
      <3>1. Emitted(c, K, a, d, e, Fresh(a, "float"))
        BY <2>2, <2>3, <2>4, EmitFacts
      <3>. QED
        BY <3>1 DEF Emitted
    <2>. HIDE DEF n, e
    <2>6. /\ Len(a.stack) = d
          /\ e.stack \in Seq(Operands(Known(K, e)))
      BY <2>5 DEF Accumulates
    <2>7. /\ DOMAIN b = DOMAIN e /\ b.ok = e.ok /\ b.code = e.code /\ b.ctx = e.ctx
          /\ b.stack = [e.stack EXCEPT ![d - i].val = Fresh(a, "float")]
      BY <2>5, <2>6 DEF Accumulates
    <2>. HIDE DEF b
    <2>8. d - i \in 1 .. d /\ 1 .. d = DOMAIN e.stack
      BY <2>5, <2>6
    <2>9. [e.stack[d - i] EXCEPT !.val = Fresh(a, "float")] \in Operands(Known(K, e))
      <3>1. e.stack[d - i] \in Operands(Known(K, e)) /\ Fresh(a, "float") \in Known(K, e)
        BY <2>5, <2>6, <2>8
      <3>. QED
        BY <3>1 DEF Operands
    <2>10. /\ b.stack \in Seq(Operands(Known(K, e))) /\ Len(b.stack) = d
           /\ b.stack[d - i].val = Fresh(a, "float")
           /\ \A m \in 1 .. d : m # d - i => b.stack[m] = a.stack[m]
      <3>1. b.stack = [e.stack EXCEPT ![d - i] = [e.stack[d - i] EXCEPT !.val = Fresh(a, "float")]]
        BY <2>7
      <3>2. b.stack[d - i] = [e.stack[d - i] EXCEPT !.val = Fresh(a, "float")]
        BY <2>8, <3>1
      <3>3. b.stack[d - i].val = Fresh(a, "float")
        BY <2>6, <2>8, <3>2 DEF Operands
      <3>4. b.stack \in Seq(Operands(Known(K, e))) /\ Len(b.stack) = d
        BY <2>5, <2>6, <2>8, <2>9, <3>1
      <3>. QED
        BY <2>5, <2>8, <3>1, <3>3, <3>4
    <2>11. Accumulates(c, K, b, d)
      BY <2>5, <2>7, <2>10 DEF Accumulates, Known
    <2>12. Arg(b, i).val.typ = "float"
      BY <2>2, <2>10 DEF Arg
    <2>13. ASSUME NEW j \in Nat, j < d, j # i PROVE Arg(b, j) = Arg(a, j)
      <3>1. d - j \in 1 .. d /\ d - j # d - i
        BY <2>13
      <3>. QED
        BY <2>6, <2>10, <3>1 DEF Arg
    <2>. QED
      BY <1>3, <2>11, <2>12, <2>13 DEF ToFloat, v, e, b
  <1>. QED
    BY <1>2, <1>3

\* An accumulator stays one, and a failure shows.
LEMMA FieldsStay ==
  ASSUME NEW a
  PROVE  /\ \A op, args, typ, elem : DOMAIN Emit(a, op, args, typ, elem) = DOMAIN a
         /\ \A typ, i : DOMAIN EmitConst(a, typ, i) = DOMAIN a
         /\ \A n, v, lit, const : DOMAIN Push(a, n, v, lit, const) = DOMAIN a
         /\ \A n, op, args, typ, elem, lit, const :
              DOMAIN EmitPush(a, n, op, args, typ, elem, lit, const) = DOMAIN a
  <1>1. \A op, args, typ, elem : DOMAIN Emit(a, op, args, typ, elem) = DOMAIN a
    BY DEF Emit
  <1>2. \A typ, i : DOMAIN EmitConst(a, typ, i) = DOMAIN a
    BY DEF EmitConst
  <1>3. \A b, n, v, lit, const : DOMAIN Push(b, n, v, lit, const) = DOMAIN b
    BY DEF Push
  <1>4. \A n, op, args, typ, elem, lit, const :
          DOMAIN EmitPush(a, n, op, args, typ, elem, lit, const) = DOMAIN a
    BY <1>1, <1>3 DEF EmitPush
  <1>. QED
    BY <1>1, <1>2, <1>3, <1>4

LEMMA FailIfFacts ==
  ASSUME NEW p \in BOOLEAN, NEW a, "ok" \in DOMAIN a, FailIf(p, a).ok
  PROVE  ~p /\ FailIf(p, a) = a
BY DEF FailIf

LEMMA ConstToken ==
  ASSUME NEW c, NEW K, NEW a, NEW d \in Nat, Accumulates(c, K, a, d),
         NEW k, k.typ \in Scalars, k.imm \in Int
  PROVE  Accumulates(c, K, LowerConst(a, k), d + 1)
  <1> DEFINE e == EmitConst(a, k.typ, k.imm)
             lit == IF k.typ = "float" THEN {} ELSE {k.imm}
  <1>1. k.typ \in ValueTypes
    BY DEF ValueTypes
  <1>2. Accumulates(c, K, e, d) /\ Fresh(a, k.typ) \in Known(K, e)
    BY <1>1, ConstFacts DEF Emitted
  <1>3. lit \in SUBSET Int /\ TRUE \in BOOLEAN /\ d + 1 = d - 0 + 1 /\ 0 \in Nat /\ 0 <= d
    OBVIOUS
  <1>. HIDE DEF e, lit
  <1>4. Accumulates(c, K, Push(e, 0, Fresh(a, k.typ), lit, TRUE), d + 1)
    BY <1>2, <1>3, PushOperand, Zenon
  <1>. QED
    BY <1>4 DEF LowerConst, e, lit

LEMMA NameToken ==
  ASSUME NEW c, NEW K, NEW a, NEW d \in Nat, Accumulates(c, K, a, d),
         NEW k, LowerName(a, k).ok
  PROVE  Accumulates(c, K, LowerName(a, k), d + 1)
  <1>1. "ok" \in DOMAIN a
    BY DEF Accumulates
  <1>2. k.id \in DOMAIN a.ctx.env
    BY <1>1 DEF LowerName, FailIf
  <1>3. a.ctx.env[k.id] \in Known(K, a)
    BY <1>2 DEF Accumulates, EmitsCode, IsContext, Known
  <1>4. Accumulates(c, K, Push(a, 0, a.ctx.env[k.id], {}, FALSE), d + 1)
    <2>1. {} \in SUBSET Int /\ FALSE \in BOOLEAN /\ d + 1 = d - 0 + 1 /\ 0 \in Nat /\ 0 <= d
      OBVIOUS
    <2>. QED
      BY <1>3, <2>1, PushOperand, Zenon
  <1>. QED
    BY <1>2, <1>4 DEF LowerName

LEMMA ElementToken ==
  ASSUME NEW c, NEW K, NEW a, NEW d \in Nat, Accumulates(c, K, a, d), 1 <= d,
         NEW k, LowerElement(a, k).ok
  PROVE  Accumulates(c, K, LowerElement(a, k), d)
  <1>1. "ok" \in DOMAIN a
    BY DEF Accumulates
  <1>2. k.id \in DOMAIN a.ctx.arrays
    BY <1>1 DEF LowerElement, FailIf
  <1> DEFINE array == a.ctx.arrays[k.id]
             index == Arg(a, 0).val
             elem == array.elem
             v == Fresh(a, PtrTo[elem])
             e == Emit(a, "gep", <<array.ptr, index>>, PtrTo[elem], elem)
             w == Fresh(e, elem)
             b == EmitPush(e, 1, "load", <<v>>, elem, elem, {}, FALSE)
             p == index.typ # "int" \/ ~InStaticBounds(array, Arg(a, 0))
             n == Node("gep", <<array.ptr, index>>, {v}, elem)
             m == Node("load", <<v>>, {w}, elem)
  <1>3. LowerElement(a, k) = FailIf(p, b)
    BY <1>2 DEF LowerElement
  <1>4. /\ elem \in Scalars /\ array.ptr \in Known(K, a) /\ array.ptr.typ = PtrTo[elem]
        /\ elem \in ValueTypes /\ PtrTo[elem] \in ValueTypes
    BY <1>2, TypeFacts DEF Accumulates, EmitsCode, IsContext, IsArray, Known, ValueTypes
  <1>5. index \in Known(K, a)
    BY OperandFacts
  <1>6. "ok" \in DOMAIN b
    <2>1. DOMAIN e = DOMAIN a
      BY FieldsStay
    <2>. HIDE DEF e, v, array
    <2>2. DOMAIN b = DOMAIN e
      BY DEF EmitPush, Push, Emit
    <2>. QED
      BY <1>1, <2>1, <2>2
  <1>7. ~p /\ FailIf(p, b) = b
    <2>1. p \in BOOLEAN
      OBVIOUS
    <2>. HIDE DEF p, b
    <2>. QED
      BY <1>3, <1>6, <2>1, FailIfFacts
  <1>8. Typed(n)
    <2>1. /\ n.op = "gep" /\ n.args[1] = array.ptr /\ n.args[2] = index /\ n.elem = elem
          /\ ResTypes(n) = {PtrTo[elem]}
      BY DEF Node, ResTypes, Fresh, Temp, Value
    <2>. HIDE DEF n
    <2>. QED
      BY <1>4, <1>7, <2>1 DEF Typed, MemoryTyped, CallTyped, Compares
  <1>9. Typed(m)
    <2>. HIDE DEF e, array
    <2>1. /\ m.op = "load" /\ m.args[1] = v /\ m.elem = elem
          /\ ResTypes(m) = {elem} /\ v.typ = PtrTo[elem]
      BY DEF Node, ResTypes, Fresh, Temp, Value
    <2>. HIDE DEF m, v
    <2>. QED
      BY <2>1 DEF Typed, MemoryTyped, CallTyped, Compares
  <1>10. <<array.ptr, index>> \in Seq(Known(K, a))
    BY <1>4, <1>5
  <1>11. Accumulates(c, K, e, d) /\ v \in Known(K, e)
    <2>. HIDE DEF array, index, elem
    <2>1. Emitted(c, K, a, d, e, v)
      BY <1>4, <1>8, <1>10, EmitFacts
    <2>. QED
      BY <2>1 DEF Emitted
  <1>12. Accumulates(c, K, b, d)
    <2>. HIDE DEF e, v, elem
    <2>1. /\ <<v>> \in Seq(Known(K, e))
          /\ {} \in SUBSET Int /\ FALSE \in BOOLEAN /\ d = d - 1 + 1
      BY <1>11
    <2>. QED
      BY <1>4, <1>9, <1>11, <2>1, EmitPushFacts
  <1>. QED
    BY <1>3, <1>7, <1>12

LEMMA BothToFloatFacts ==
  ASSUME NEW c, NEW K, NEW a, NEW d \in Nat, Accumulates(c, K, a, d), 2 <= d,
         ~IsPtr(Arg(a, 0).val.typ), ~IsPtr(Arg(a, 1).val.typ)
  PROVE  /\ Accumulates(c, K, BothToFloat(a), d)
         /\ Arg(BothToFloat(a), 0).val.typ = "float"
         /\ Arg(BothToFloat(a), 1).val.typ = "float"
  <1> DEFINE b == ToFloat(a, 1)
             e == ToFloat(b, 0)
  <1>1. /\ Accumulates(c, K, b, d) /\ Arg(b, 1).val.typ = "float"
        /\ Arg(b, 0) = Arg(a, 0)
    BY ToFloatFacts
  <1>. HIDE DEF b
  <1>2. /\ Accumulates(c, K, e, d) /\ Arg(e, 0).val.typ = "float"
        /\ Arg(e, 1) = Arg(b, 1)
    BY <1>1, ToFloatFacts
  <1>. QED
    BY <1>1, <1>2 DEF BothToFloat, b

LEMMA BinOpToken ==
  ASSUME NEW c, NEW K, NEW a, NEW d \in Nat, Accumulates(c, K, a, d), 2 <= d,
         NEW k, k.op \in Arith, LowerBinOp(a, k).ok
  PROVE  Accumulates(c, K, LowerBinOp(a, k), d - 1)
  <1> DEFINE l == Arg(a, 1).val.typ
             r == Arg(a, 0).val.typ
             typ == IF k.op = "/" THEN "float" ELSE MergeTypes(l, r)
             b == IF typ = "float" THEN BothToFloat(a) ELSE a
  <1>1. l \in ValueTypes /\ r \in ValueTypes
    BY OperandFacts
  <1>2. ~IsPtr(l) /\ ~IsPtr(r)
    BY DEF LowerBinOp, FailIf, Accumulates
  <1>3. typ \in ValueTypes
    BY <1>1 DEF MergeTypes, ValueTypes, Scalars
  <1>4. Accumulates(c, K, b, d)
    BY <1>2, BothToFloatFacts
  <1>5. LowerBinOp(a, k) = EmitBinary(b, k.op, typ)
    BY <1>2 DEF LowerBinOp
  <1>. HIDE DEF b, typ
  <1>. QED
    BY <1>3, <1>4, <1>5, BinaryFacts

LEMMA CompareToken ==
  ASSUME NEW c, NEW K, NEW a, NEW d \in Nat, Accumulates(c, K, a, d), 2 <= d,
         NEW k, k.op \in Compares, LowerCompare(a, k).ok
  PROVE  Accumulates(c, K, LowerCompare(a, k), d - 1)
  <1> DEFINE l == Arg(a, 1).val.typ
             r == Arg(a, 0).val.typ
             b == IF l # r THEN BothToFloat(a) ELSE a
  <1>1. ~IsPtr(l) /\ ~IsPtr(r)
    BY DEF LowerCompare, FailIf, Accumulates
  <1>2. LowerCompare(a, k) = EmitBinary(b, k.op, "bool")
    BY <1>1 DEF LowerCompare, FailIf, Accumulates
  <1>3. /\ Accumulates(c, K, b, d)
        /\ Arg(b, 0).val.typ = Arg(b, 1).val.typ /\ ~IsPtr(Arg(b, 0).val.typ)
    <2>1. CASE l # r
      <3>1. ~IsPtr("float")
        BY DEF IsPtr, Pointers, PtrTo, Scalars
      <3>. QED
        BY <1>1, <2>1, <3>1, BothToFloatFacts
    <2>2. CASE l = r
      BY <1>1, <2>2
    <2>. QED
      BY <2>1, <2>2
  <1>4. "bool" \in ValueTypes
    BY DEF ValueTypes, Scalars
  <1>. HIDE DEF b
  <1>. QED
    BY <1>2, <1>3, <1>4, BinaryFacts

LEMMA NegToken ==
  ASSUME NEW c, NEW K, NEW a, NEW d \in Nat, Accumulates(c, K, a, d), 1 <= d, NEW k
  PROVE  Accumulates(c, K, LowerNeg(a, k), d)
  <1> DEFINE x == Arg(a, 0)
             zero == IF x.val.typ = "float" THEN "float" ELSE "int"
             e == EmitConst(a, zero, 0)
             v == Fresh(a, zero)
             lit == IF x.const THEN {-i : i \in x.lit} ELSE {}
             typ == x.val.typ
  <1>1. /\ x.val \in Known(K, a) /\ x \in Operands(Known(K, a)) /\ typ \in ValueTypes
    BY OperandFacts
  <1>2. lit \in SUBSET Int
    BY <1>1 DEF Operands
  <1>3. zero \in ValueTypes /\ 0 \in Int
    BY DEF ValueTypes, Scalars
  <1>. HIDE DEF x, zero, lit
  <1>4. Emitted(c, K, a, d, e, v)
    BY <1>3, ConstFacts
  <1>5. /\ Accumulates(c, K, e, d) /\ v \in Known(K, e) /\ x.val \in Known(K, e)
    BY <1>1, <1>4 DEF Emitted
  <1>. HIDE DEF e, v, typ
  <1>6. Typed(Node("-", <<v, x.val>>, {Fresh(e, typ)}, "none")) /\ "-" # "phi"
    BY UntypedNode DEF Node, Arith
  <1>7. Accumulates(c, K, EmitPush(e, 1, "-", <<v, x.val>>, typ, "none", lit, FALSE), d)
    <2>1. <<v, x.val>> \in Seq(Known(K, e)) /\ FALSE \in BOOLEAN /\ d = d - 1 + 1
      BY <1>5
    <2>. QED
      BY <1>1, <1>2, <1>5, <1>6, <2>1, EmitPushFacts
  <1>. QED
    BY <1>7 DEF LowerNeg, x, zero, e, v, lit, typ

LEMMA CallToken ==
  ASSUME NEW c, NEW K, NEW a, NEW d \in Nat, Accumulates(c, K, a, d),
         NEW k, k.n \in Nat, k.n <= d, NEW asValue \in BOOLEAN, LowerCall(a, k, asValue).ok
  PROVE  Accumulates(c, K, LowerCall(a, k, asValue), d - k.n + 1)
  <1> DEFINE sig == Sigs[k.id]
             args == [i \in 1 .. k.n |-> Arg(a, k.n - i).val]
             types == [i \in 1 .. k.n |-> args[i].typ]
             none == Node("call", args, {}, k.id)
             b == [a EXCEPT !.code = Append(@, none)]
             e == EmitConst(b, "int", 0)
             x == Push(e, k.n, Fresh(a, "int"), {}, FALSE)
             y == EmitPush(a, k.n, "call", args, sig.ret, k.id, {}, FALSE)
             p == types # sig.args \/ (sig.ret = "void" /\ asValue)
             d2 == d - k.n + 1
  <1>1. k.id \in DOMAIN Sigs
    BY DEF LowerCall, FailIf, Accumulates
  <1>2. LowerCall(a, k, asValue) = FailIf(p, IF sig.ret = "void" THEN x ELSE y)
    BY <1>1 DEF LowerCall
  <1>3. "ok" \in DOMAIN a
    BY DEF Accumulates
  <1>4. args \in Seq(Known(K, a)) /\ DOMAIN args = 1 .. k.n
    <2>1. \A i \in 1 .. k.n : args[i] \in Known(K, a)
      <3> TAKE i \in 1 .. k.n
      <3>1. k.n - i \in Nat /\ k.n - i < d
        OBVIOUS
      <3>. QED
        BY <3>1, OperandFacts
    <2>2. args \in [1 .. k.n -> Known(K, a)]
      BY <2>1
    <2>. HIDE DEF args
    <2>. QED
      BY <2>2
  <1>5. {} \in SUBSET Int /\ FALSE \in BOOLEAN /\ 0 \in Int /\ "int" \in ValueTypes
    BY DEF ValueTypes, Scalars
  <1>6. CASE sig.ret = "void"
    <2>1. DOMAIN b = DOMAIN a /\ DOMAIN e = DOMAIN b /\ DOMAIN x = DOMAIN e
      BY DEF EmitConst, Push
    <2>2. ~p /\ FailIf(p, x) = x
      <3>1. p \in BOOLEAN /\ "ok" \in DOMAIN x
        BY <1>3, <2>1
      <3>. HIDE DEF p, x
      <3>. QED
        BY <1>2, <1>6, <3>1, FailIfFacts
    <2>3. /\ none.op = "call" /\ none.args = args /\ none.res = {} /\ none.elem = k.id
          /\ none.inc = <<>> /\ DOMAIN none = {"op", "args", "res", "elem", "inc", "imm"}
      BY DEF Node
    <2>4. Appends(a, b, none, a.ctx)
      BY DEF Appends, Accumulates
    <2>. HIDE DEF none
    <2>5. IsNode(none, Known(K, a))
      <3>1. Range(none.inc) = {}
        BY <2>3 DEF Range
      <3>2. [i \in DOMAIN none.args |-> none.args[i].typ] = sig.args
        BY <1>4, <2>2, <2>3
      <3>3. ResTypes(none) = {sig.ret} \ {"void"}
        BY <1>6, <2>3 DEF ResTypes
      <3>4. Typed(none)
        BY <2>3, <3>2, <3>3 DEF Typed, MemoryTyped, CallTyped, Compares
      <3>. QED
        BY <1>4, <2>3, <3>1, <3>4 DEF IsNode
    <2>6. EmitsCode(a.ctx, Known(K, a), <<none>>, a.ctx)
      <3>1. Known(K, a) \cup none.res = Known(K, a) /\ ResNames(none) = {}
        BY <2>3 DEF ResNames
      <3>2. IsContext(a.ctx, Known(K, a))
        BY DEF Accumulates, EmitsCode, Known
      <3>3. Range(none.args) \subseteq Known(K, a)
        BY <2>5, ElementsOf DEF IsNode
      <3>. QED
        BY <2>5, <3>1, <3>2, <3>3, OneNode
    <2>7. Accumulates(c, K, b, d)
      <3>1. none.op # "phi"
        BY <2>3
      <3>. QED
        BY <2>4, <2>6, <3>1, AppendNode
    <2>8. Fresh(b, "int") = Fresh(a, "int")
      BY <2>4 DEF Fresh, Appends
    <2>. HIDE DEF b
    <2>9. Accumulates(c, K, e, d) /\ Fresh(a, "int") \in Known(K, e)
      <3>1. Emitted(c, K, b, d, e, Fresh(b, "int"))
        BY <1>5, <2>7, ConstFacts
      <3>. QED
        BY <2>8, <3>1 DEF Emitted
    <2>. HIDE DEF e
    <2>10. Accumulates(c, K, x, d2)
      BY <1>5, <2>9, PushOperand
    <2>. QED
      BY <1>2, <1>6, <2>2, <2>10
  <1>7. CASE sig.ret # "void"
    <2>1. DOMAIN y = DOMAIN a
      BY DEF EmitPush, Emit, Push
    <2>2. ~p /\ FailIf(p, y) = y
      <3>1. p \in BOOLEAN /\ "ok" \in DOMAIN y
        BY <1>3, <2>1
      <3>. HIDE DEF p, y
      <3>. QED
        BY <1>2, <1>7, <3>1, FailIfFacts
    <2>3. sig.ret \in ValueTypes
      BY <1>1, <1>7, LoweringAssumption
    <2> DEFINE n == Node("call", args, {Fresh(a, sig.ret)}, k.id)
    <2>4. Typed(n)
      <3>1. /\ n.op = "call" /\ n.args = args /\ n.elem = k.id
            /\ ResTypes(n) = {sig.ret}
        BY DEF Node, ResTypes, Fresh, Temp, Value
      <3>. HIDE DEF n
      <3>2. [i \in DOMAIN n.args |-> n.args[i].typ] = sig.args
        BY <1>4, <2>2, <3>1
      <3>3. ResTypes(n) = {sig.ret} \ {"void"}
        BY <1>7, <3>1
      <3>. QED
        BY <3>1, <3>2, <3>3 DEF Typed, MemoryTyped, CallTyped, Compares
    <2>5. Accumulates(c, K, y, d2)
      <3>. HIDE DEF args
      <3>. QED
        BY <1>4, <1>5, <2>3, <2>4, EmitPushFacts
    <2>. QED
      BY <1>2, <1>7, <2>2, <2>5
  <1>. QED
    BY <1>6, <1>7

-----------------------------------------------------------------------------
(* Whole expressions, by induction over their tokens. *)

\* Tokens of which none lacks an operand, and that leave one value; d counts the
\* operands after each.
Balances(expr, d) ==
  /\ d \in [0 .. Len(expr) -> Nat] /\ d[0] = 0 /\ d[Len(expr)] = 1
  /\ \A i \in 1 .. Len(expr) : /\ IsToken(expr[i]) /\ Arity(expr[i]) <= d[i - 1]
                               /\ d[i] = d[i - 1] - Arity(expr[i]) + 1
Balanced(expr) == expr \in Seq(Range(expr)) /\ \E d : Balances(expr, d)

LEMMA TokenFacts ==
  ASSUME NEW c, NEW K, NEW a, NEW d \in Nat, Accumulates(c, K, a, d),
         NEW k, IsToken(k), Arity(k) <= d, NEW asValue \in BOOLEAN, LowerToken(a, k, asValue).ok
  PROVE  Accumulates(c, K, LowerToken(a, k, asValue), d - Arity(k) + 1)
  <1>1. a.ok
    BY DEF Accumulates
  <1>2. CASE k.t = "const"
    <2>1. LowerToken(a, k, asValue) = LowerConst(a, k) /\ d - Arity(k) + 1 = d + 1
      BY <1>1, <1>2 DEF LowerToken, Arity
    <2>2. k.typ \in Scalars /\ k.imm \in Int
      BY <1>2 DEF IsToken
    <2>. QED
      BY <2>1, <2>2, ConstToken
  <1>3. CASE k.t = "name"
    <2>1. LowerToken(a, k, asValue) = LowerName(a, k) /\ d - Arity(k) + 1 = d + 1
      BY <1>1, <1>3 DEF LowerToken, Arity
    <2>. QED
      BY <2>1, NameToken
  <1>4. CASE k.t = "element"
    <2>1. LowerToken(a, k, asValue) = LowerElement(a, k) /\ d - Arity(k) + 1 = d /\ 1 <= d
      BY <1>1, <1>4 DEF LowerToken, Arity
    <2>. QED
      BY <2>1, ElementToken
  <1>5. CASE k.t = "neg"
    <2>1. LowerToken(a, k, asValue) = LowerNeg(a, k) /\ d - Arity(k) + 1 = d /\ 1 <= d
      BY <1>1, <1>5 DEF LowerToken, Arity
    <2>. QED
      BY <2>1, NegToken
  <1>6. CASE k.t = "binop"
    <2>1. LowerToken(a, k, asValue) = LowerBinOp(a, k) /\ d - Arity(k) + 1 = d - 1 /\ 2 <= d
      BY <1>1, <1>6 DEF LowerToken, Arity
    <2>2. k.op \in Arith
      BY <1>6 DEF IsToken
    <2>. QED
      BY <2>1, <2>2, BinOpToken
  <1>7. CASE k.t = "compare"
    <2>1. LowerToken(a, k, asValue) = LowerCompare(a, k) /\ d - Arity(k) + 1 = d - 1 /\ 2 <= d
      BY <1>1, <1>7 DEF LowerToken, Arity
    <2>2. k.op \in Compares
      BY <1>7 DEF IsToken
    <2>. QED
      BY <2>1, <2>2, CompareToken
  <1>8. CASE k.t = "call"
    <2>1. LowerToken(a, k, asValue) = LowerCall(a, k, asValue) /\ Arity(k) = k.n
      BY <1>1, <1>8 DEF LowerToken, Arity
    <2>2. k.n \in Nat
      BY <1>8 DEF IsToken
    <2>. QED
      BY <2>1, <2>2, CallToken
  <1>. QED
    BY <1>2, <1>3, <1>4, <1>5, <1>6, <1>7, <1>8 DEF IsToken

\* The folds over a sequence as instances of Recursion.tla.
TokensN(p) == Len(p[2])
TokensBase(p) == NoCode(p[1])
TokensOp(p, a, i) == LowerToken(a, p[2][i], p[3] \/ i < Len(p[2]))
Tokens == INSTANCE Recursion WITH N <- TokensN, Base <- TokensBase, Op <- TokensOp

DepthN(expr) == Len(expr)
DepthBase(expr) == 0
DepthOp(expr, d, i) == d - Arity(expr[i]) + 1
Depths == INSTANCE Recursion WITH N <- DepthN, Base <- DepthBase, Op <- DepthOp

LEMMA ExprIsBalanced == ASSUME NEW expr, IsExpr(expr) PROVE Balanced(expr)
  <1> DEFINE d == Depths!Fold(expr)
  <1>1. Len(expr) \in Nat /\ expr \in Seq(Range(expr))
    BY DEF IsExpr
  <1>2. /\ d[Len(expr)] = 1
        /\ \A i \in 1 .. Len(expr) : IsToken(expr[i]) /\ Arity(expr[i]) <= d[i - 1]
    BY DEF IsExpr, Depths!Fold, DepthN, DepthBase, DepthOp
  <1>3. /\ DOMAIN d = 0 .. Len(expr) /\ d[0] = 0
        /\ \A i \in 1 .. Len(expr) : d[i] = d[i - 1] - Arity(expr[i]) + 1
    BY <1>1, Depths!FoldDef DEF DepthN, DepthBase, DepthOp
  <1>. HIDE DEF d
  <1>4. \A i \in 0 .. Len(expr) : d[i] \in Nat
    <2> DEFINE S == {i \in 0 .. Len(expr) : d[i] \in Nat}
    <2>1. 0 \in S
      BY <1>1, <1>3
    <2>2. \A i \in 0 .. Len(expr) - 1 : i \in S => i + 1 \in S
      <3> SUFFICES ASSUME NEW i \in 0 .. Len(expr) - 1, i \in S PROVE i + 1 \in S
        OBVIOUS
      <3>1. i + 1 \in 1 .. Len(expr) /\ (i + 1) - 1 = i
        BY <1>1
      <3>2. d[i + 1] = d[i] - Arity(expr[i + 1]) + 1 /\ Arity(expr[i + 1]) <= d[i]
        BY <1>2, <1>3, <3>1
      <3>3. Arity(expr[i + 1]) \in Nat
        BY <1>2, <3>1 DEF IsToken, Arity
      <3>. QED
        BY <1>1, <3>1, <3>2, <3>3
    <2>. HIDE DEF S
    <2>3. \A i \in 0 .. Len(expr) : i \in S
      BY <1>1, <2>1, <2>2, Depths!Induction
    <2>. QED
      BY <2>3 DEF S
  <1>5. d = [i \in 0 .. Len(expr) |-> d[i]]
    BY <1>3 DEF d, Depths!Fold
  <1>. QED
    BY <1>1, <1>2, <1>3, <1>4, <1>5 DEF Balanced, Balances

LEMMA TokensFacts ==
  ASSUME NEW c, NEW K, IsContext(c, K), NEW expr, Balanced(expr), NEW asValue \in BOOLEAN,
         LowerTokens(c, expr, asValue).ok
  PROVE  Accumulates(c, K, LowerTokens(c, expr, asValue), 1)
  <1> DEFINE p == <<c, expr, asValue>>
             a == Tokens!Fold(p)
  <1>1. PICK d : Balances(expr, d)
    BY DEF Balanced
  <1>2. Len(expr) \in Nat
    BY DEF Balanced
  <1>3. LowerTokens(c, expr, asValue) = a[Len(expr)]
    BY DEF LowerTokens, Tokens!Fold, TokensN, TokensBase, TokensOp
  <1>4. /\ a[0] = NoCode(c)
        /\ \A i \in 1 .. Len(expr) : a[i] = LowerToken(a[i - 1], expr[i], asValue \/ i < Len(expr))
    <2>. HIDE DEF a
    <2>1. TokensN(p) \in Nat /\ TokensN(p) = Len(expr)
      BY <1>2 DEF TokensN
    <2>2. /\ a[0] = TokensBase(p)
          /\ \A i \in 1 .. TokensN(p) : a[i] = TokensOp(p, a[i - 1], i)
      BY <2>1, Tokens!FoldDef DEF a
    <2>. QED
      BY <2>1, <2>2 DEF TokensBase, TokensOp
  <1>. HIDE DEF a
  <1> DEFINE S == {i \in 0 .. Len(expr) : a[i].ok => Accumulates(c, K, a[i], d[i])}
  <1>5. 0 \in S
    <2>1. /\ DOMAIN a[0] = {"ok", "code", "ctx", "stack"} /\ a[0].ok = TRUE
          /\ a[0].code = <<>> /\ a[0].ctx = c /\ a[0].stack = <<>>
      BY <1>4 DEF NoCode
    <2>2. d[0] = 0
      BY <1>1 DEF Balances
    <2>3. Accumulates(c, K, a[0], 0)
      BY <2>1, NoNode DEF Accumulates
    <2>. QED
      BY <1>2, <2>2, <2>3
  <1>6. \A i \in 0 .. Len(expr) - 1 : i \in S => i + 1 \in S
    <2> SUFFICES ASSUME NEW i \in 0 .. Len(expr) - 1, i \in S, a[i + 1].ok
                 PROVE  Accumulates(c, K, a[i + 1], d[i + 1])
      BY <1>2
    <2> DEFINE k == expr[i + 1]
               v == asValue \/ i + 1 < Len(expr)
    <2>1. i + 1 \in 1 .. Len(expr) /\ (i + 1) - 1 = i /\ i \in 0 .. Len(expr)
      BY <1>2
    <2>2. a[i + 1] = LowerToken(a[i], k, v)
      BY <1>4, <2>1
    <2>3. /\ IsToken(k) /\ Arity(k) <= d[i] /\ d[i] \in Nat
          /\ d[i + 1] = d[i] - Arity(k) + 1
      BY <1>1, <2>1 DEF Balances
    <2>4. a[i].ok
      BY <2>2 DEF LowerToken
    <2>5. Accumulates(c, K, a[i], d[i])
      BY <2>4
    <2>6. v \in BOOLEAN
      OBVIOUS
    <2>. HIDE DEF k, v
    <2>. QED
      BY <2>2, <2>3, <2>5, <2>6, TokenFacts
  <1>7. Len(expr) \in S
    <2>. HIDE DEF S
    <2>1. \A i \in 0 .. Len(expr) : i \in S
      BY <1>2, <1>5, <1>6, Tokens!Induction
    <2>. QED
      BY <1>2, <2>1
  <1>. QED
    BY <1>1, <1>3, <1>7 DEF Balances

\* What a caller sees of an expression that was lowered.
LEMMA ExprFacts ==
  ASSUME NEW c, NEW K, IsContext(c, K), NEW expr, Balanced(expr), LowerExpr(c, expr).ok
  PROVE  LET e == LowerExpr(c, expr)
         IN  /\ Accumulates(c, K, e, 1)
             /\ Result(e) \in Known(K, e) /\ Result(e) \in Values
             /\ Result(e).typ \in ValueTypes
             /\ IsContext(e.ctx, Known(K, e))
  <1> DEFINE e == LowerExpr(c, expr)
  <1>1. Accumulates(c, K, e, 1)
    BY TokensFacts DEF LowerExpr
  <1>. HIDE DEF e
  <1>2. /\ Result(e) \in Known(K, e) /\ Result(e) \in Values
        /\ Result(e).typ \in ValueTypes
    BY <1>1, OperandFacts DEF Result
  <1>3. IsContext(e.ctx, Known(K, e))
    BY <1>1 DEF Accumulates, EmitsCode, Known
  <1>. QED
    BY <1>1, <1>2, <1>3 DEF e

-----------------------------------------------------------------------------
(* Statements that bind names. *)

\* The next version of a name.
LEMMA NamedFacts ==
  ASSUME NEW c, NEW K, IsContext(c, K), NEW id \in VarNames, NEW typ \in ValueTypes
  PROVE  LET v == NewNamed(c, id, typ)
         IN  /\ v \in Values /\ v.typ = typ /\ v.name = <<id, c.ver[id]>> /\ v.name \notin Given(c)
             /\ K \subseteq K \cup {v} /\ K \cup {v} \subseteq Values
  <1> DEFINE v == NewNamed(c, id, typ)
  <1>1. c.ver[id] \in Nat /\ K \subseteq Values
    BY DEF IsContext
  <1>2. v.name = <<id, c.ver[id]>> /\ v.typ = typ /\ v \in Values
    BY <1>1 DEF NewNamed, Value, Values
  <1>. HIDE DEF v
  <1>3. v.name \notin Given(c)
    BY <1>1, <1>2, LoweringAssumption DEF Given
  <1>. QED
    BY <1>1, <1>2, <1>3 DEF v

LEMMA NextVersion ==
  ASSUME NEW c, NEW K, IsContext(c, K), NEW id \in VarNames,
         NEW c2, c2.tmp = c.tmp, c2.ver = [c.ver EXCEPT ![id] = @ + 1]
  PROVE  /\ Given(c) \subseteq Given(c2)
         /\ <<id, c.ver[id]>> \in Given(c2)
         /\ c2.ver \in [VarNames -> Nat]
  <1>1. c.ver \in [VarNames -> Nat]
    BY DEF IsContext
  <1>2. c2.ver[id] = c.ver[id] + 1 /\ \A x \in VarNames : c.ver[x] <= c2.ver[x]
    BY <1>1
  <1>3. c2.ver \in [VarNames -> Nat]
    BY <1>1
  <1>. QED
    BY <1>1, <1>2, <1>3 DEF Given

\* v becomes the value of id.
LEMMA BindFacts ==
  ASSUME NEW c, NEW K, IsContext(c, K), NEW id \in VarNames, NEW typ \in ValueTypes
  PROVE  LET v == NewNamed(c, id, typ)
             c2 == Bind(c, id, v)
         IN  /\ IsContext(c2, K \cup {v})
             /\ Given(c) \subseteq Given(c2)
             /\ v.name \in Given(c2) \ Given(c)
  <1> DEFINE v == NewNamed(c, id, typ)
             c2 == Bind(c, id, v)
             L == K \cup {v}
  <1>1. v \in Values /\ v.name = <<id, c.ver[id]>> /\ v.name \notin Given(c)
        /\ K \subseteq L /\ L \subseteq Values
    BY NamedFacts
  <1>. HIDE DEF v
  <1>2. /\ DOMAIN c2 = {"env", "arrays", "tmp", "ver"}
        /\ c2.env = Put(c.env, id, v) /\ c2.arrays = c.arrays /\ c2.tmp = c.tmp
        /\ c2.ver = [c.ver EXCEPT ![id] = @ + 1]
    BY DEF Bind, IsContext
  <1>. HIDE DEF c2
  <1>3. /\ Given(c) \subseteq Given(c2) /\ v.name \in Given(c2)
        /\ c2.ver \in [VarNames -> Nat]
    <2>1. /\ Given(c) \subseteq Given(c2) /\ <<id, c.ver[id]>> \in Given(c2)
          /\ c2.ver \in [VarNames -> Nat]
      BY <1>2, NextVersion, Zenon
    <2>. QED
      BY <1>1, <2>1
  <1>4. IsContext(c, L)
    BY <1>1, ContextMonotone
  <1>5. DOMAIN c2.env \subseteq VarNames /\ \A x \in DOMAIN c2.env : c2.env[x] \in L
    BY <1>2, <1>4 DEF IsContext, Put
  <1>6. IsContext(c2, L)
    BY <1>1, <1>2, <1>3, <1>4, <1>5 DEF IsContext
  <1>. QED
    BY <1>1, <1>3, <1>6 DEF v, c2

\* One node whose result is the next version of a name.
LEMMA AppendNamed ==
  ASSUME NEW c, NEW K, NEW a, NEW d, Accumulates(c, K, a, d),
         NEW id \in VarNames, NEW typ \in ValueTypes, NEW op, NEW args \in Seq(Known(K, a)),
         NEW elem, op # "phi", Typed(Node(op, args, {NewNamed(a.ctx, id, typ)}, elem)),
         NEW c2, IsContext(c2, Known(K, a) \cup {NewNamed(a.ctx, id, typ)}),
         Given(a.ctx) \subseteq Given(c2), NewNamed(a.ctx, id, typ).name \in Given(c2),
         NEW b, Appends(a, b, Node(op, args, {NewNamed(a.ctx, id, typ)}, elem), c2)
  PROVE  Accumulates(c, K, b, d)
  <1> DEFINE v == NewNamed(a.ctx, id, typ)
             n == Node(op, args, {v}, elem)
             L == Known(K, a) \cup {v}
  <1>1. IsContext(a.ctx, Known(K, a))
    BY DEF Accumulates, EmitsCode, Known
  <1>2. v.name \notin Given(a.ctx)
    BY <1>1, NamedFacts
  <1>. HIDE DEF v
  <1>3. args \in Seq(L) /\ v \in L
    OBVIOUS
  <1>4. IsNode(n, L)
    BY <1>3, ResultNode, Zenon DEF v
  <1>5. n.res = {v} /\ n.op = op /\ ResNames(n) = {v.name}
    BY DEF Node, ResNames
  <1>. HIDE DEF n
  <1>6. EmitsCode(a.ctx, Known(K, a), <<n>>, c2)
    <2>1. ResNames(n) \subseteq Given(c2) \ Given(a.ctx)
      BY <1>2, <1>5 DEF v
    <2>2. L = Known(K, a) \cup n.res /\ IsContext(c2, L)
      BY <1>5 DEF v
    <2>3. Range(n.args) \subseteq Known(K, a)
      BY ElementsOf DEF n, Node
    <2>. QED
      BY <1>4, <2>1, <2>2, <2>3, OneNode
  <1>. QED
    BY <1>5, <1>6, AppendNode DEF n, v

-----------------------------------------------------------------------------
(* Statements that stay in the current block. *)

\* What a statement that does not raise does to the context c.
Yields(c, K, r) == EmitsCode(c, K, r.code, r.ctx) /\ Plain(r.code)

LEMMA YieldsFacts ==
  ASSUME NEW c, NEW K, NEW a, NEW d, Accumulates(c, K, a, d)
  PROVE  Yields(c, K, a) /\ "ok" \in DOMAIN a
BY DEF Accumulates, Yields

LEMMA AssignFacts ==
  ASSUME NEW c, NEW K, IsContext(c, K), NEW id \in VarNames, NEW expr, Balanced(expr),
         LowerAssign(c, id, expr).ok
  PROVE  Yields(c, K, LowerAssign(c, id, expr))
  <1> DEFINE e == LowerExpr(c, expr)
             r == LowerAssign(c, id, expr)
             x == Result(e)
             v == NewNamed(e.ctx, id, x.typ)
             n == Node("id", <<x, x>>, {v}, "none")
             c2 == Bind(e.ctx, id, v)
  <1>1. e.ok /\ id \notin DOMAIN c.arrays
    BY DEF LowerAssign, BindResult, FailIf
  <1>2. /\ Accumulates(c, K, e, 1)
        /\ x \in Known(K, e) /\ x.typ \in ValueTypes
        /\ IsContext(e.ctx, Known(K, e))
    BY <1>1, ExprFacts
  <1>3. r = [e EXCEPT !.code = Append(@, n), !.ctx = c2]
    BY <1>1 DEF LowerAssign, BindResult
  <1>. HIDE DEF e, x, r
  <1>4. Appends(e, r, n, c2)
    BY <1>2, <1>3 DEF Appends, Accumulates
  <1>5. /\ IsContext(c2, Known(K, e) \cup {v})
        /\ Given(e.ctx) \subseteq Given(c2) /\ v.name \in Given(c2)
    BY <1>2, BindFacts
  <1>6. Typed(n) /\ "id" # "phi"
    BY UntypedNode DEF Node
  <1>7. <<x, x>> \in Seq(Known(K, e))
    BY <1>2
  <1>8. Accumulates(c, K, r, 1)
    BY <1>2, <1>4, <1>5, <1>6, <1>7, AppendNamed
  <1>. QED
    BY <1>8, YieldsFacts DEF r

LEMMA AugFacts ==
  ASSUME NEW c, NEW K, IsContext(c, K), NEW s, s.id \in VarNames, s.op \in Arith,
         Balanced(s.expr), LowerAugAssign(c, s).ok
  PROVE  Yields(c, K, LowerAugAssign(c, s))
  <1> DEFINE e == LowerExpr(c, s.expr)
             r == LowerAugAssign(c, s)
             l == c.env[s.id]
             x == Result(e)
             typ == MergeTypes(l.typ, x.typ)
             v == NewNamed(e.ctx, s.id, typ)
             n == Node(s.op, <<l, x>>, {v}, "none")
             c2 == Bind(e.ctx, s.id, v)
             p == s.id \notin DOMAIN c.env \/ ~e.ok
             q == l.typ # x.typ /\ (IsPtr(l.typ) \/ IsPtr(x.typ))
  <1>1. r = IF p THEN FailIf(TRUE, e) ELSE IF q THEN FailIf(TRUE, e)
            ELSE [e EXCEPT !.code = Append(@, n), !.ctx = c2]
    BY DEF LowerAugAssign, Augment
  <1>2. e.ok /\ s.id \in DOMAIN c.env
    <2>1. ~p
      BY <1>1 DEF FailIf
    <2>. QED
      BY <2>1
  <1>3. /\ Accumulates(c, K, e, 1)
        /\ x \in Known(K, e) /\ x.typ \in ValueTypes
        /\ IsContext(e.ctx, Known(K, e))
    BY <1>2, ExprFacts
  <1>4. l \in K /\ l \in Known(K, e) /\ l.typ \in ValueTypes
    BY <1>2 DEF IsContext, Values, Known
  <1>. HIDE DEF e, l, x, r
  <1>5. ~q /\ r = [e EXCEPT !.code = Append(@, n), !.ctx = c2]
    <2>1. "ok" \in DOMAIN e
      BY <1>3, YieldsFacts
    <2>2. ~FailIf(TRUE, e).ok
      BY <2>1 DEF FailIf
    <2>3. ~p /\ r.ok
      BY <1>2 DEF r
    <2>. HIDE DEF q, n, c2
    <2>. QED
      BY <1>1, <2>2, <2>3
  <1>6. typ \in ValueTypes
    BY <1>3, <1>4 DEF MergeTypes, ValueTypes, Scalars
  <1>. HIDE DEF typ
  <1>7. Appends(e, r, n, c2)
    BY <1>3, <1>5 DEF Appends, Accumulates
  <1>8. /\ IsContext(c2, Known(K, e) \cup {v})
        /\ Given(e.ctx) \subseteq Given(c2) /\ v.name \in Given(c2)
    BY <1>3, <1>6, BindFacts
  <1>9. Typed(n) /\ s.op # "phi"
    <2>1. n.op = s.op /\ s.op # "phi"
      BY DEF Node, Arith
    <2>. QED
      BY <2>1, UntypedNode
  <1>10. <<l, x>> \in Seq(Known(K, e))
    BY <1>3, <1>4
  <1>11. Accumulates(c, K, r, 1)
    BY <1>3, <1>6, <1>7, <1>8, <1>9, <1>10, AppendNamed
  <1>. QED
    BY <1>11, YieldsFacts DEF r

\* x = [init] * count: an array takes the place of the scalar of that name.
LEMMA AllocFacts ==
  ASSUME NEW c, NEW K, IsContext(c, K), NEW s, s.id \in VarNames, s.elem \in Scalars,
         Balanced(s.expr), LowerAlloc(c, s).ok
  PROVE  Yields(c, K, LowerAlloc(c, s))
  <1> DEFINE e == LowerExpr(c, s.expr)
             r == LowerAlloc(c, s)
             x == Result(e)
             typ == PtrTo[s.elem]
             v == NewNamed(e.ctx, s.id, typ)
             n == Node("alloca", <<x>>, {v}, s.elem)
             array == [ptr |-> v, elem |-> s.elem, len |-> Arg(e, 0).lit]
             y == [e EXCEPT !.code = Append(@, n),
                            !.ctx.ver[s.id] = @ + 1,
                            !.ctx.arrays = Put(@, s.id, array),
                            !.ctx.env = [id \in DOMAIN @ \ {s.id} |-> @[id]]]
             p == ~e.ok \/ ~AllowedLength(c, s.expr) \/ s.init # 0
             q == x.typ # "int"
  <1>1. r = IF p THEN FailIf(TRUE, e) ELSE FailIf(q, y)
    BY DEF LowerAlloc, AllocArray
  <1>2. e.ok /\ ~p
    BY <1>1 DEF FailIf
  <1>3. /\ Accumulates(c, K, e, 1)
        /\ x \in Known(K, e) /\ x.typ \in ValueTypes
        /\ IsContext(e.ctx, Known(K, e))
    BY <1>2, ExprFacts
  <1>. HIDE DEF e, x, r
  <1>4. "ok" \in DOMAIN y
    BY <1>3 DEF Accumulates
  <1>5. ~q /\ r = y
    <2>1. q \in BOOLEAN
      OBVIOUS
    <2>2. r = FailIf(q, y) /\ r.ok
      BY <1>1, <1>2 DEF r
    <2>. HIDE DEF q, y
    <2>. QED
      BY <1>4, <2>1, <2>2, FailIfFacts
  <1>6. typ \in ValueTypes
    BY TypeFacts
  <1>7. v \in Values /\ v.typ = typ /\ v.name = <<s.id, e.ctx.ver[s.id]>>
        /\ Known(K, e) \subseteq Known(K, e) \cup {v} /\ Known(K, e) \cup {v} \subseteq Values
    BY <1>3, <1>6, NamedFacts
  <1> DEFINE c2 == r.ctx
             L == Known(K, e) \cup {v}
  <1>8. Appends(e, r, n, c2)
    BY <1>3, <1>5 DEF Appends, Accumulates
  <1>9. /\ DOMAIN c2 = {"env", "arrays", "tmp", "ver"}
        /\ c2.env = [id \in DOMAIN e.ctx.env \ {s.id} |-> e.ctx.env[id]]
        /\ c2.arrays = Put(e.ctx.arrays, s.id, array) /\ c2.tmp = e.ctx.tmp
        /\ c2.ver = [e.ctx.ver EXCEPT ![s.id] = @ + 1]
    BY <1>3, <1>5 DEF Accumulates, IsContext
  <1>10. array.ptr = v /\ array.elem = s.elem
    OBVIOUS
  <1>. HIDE DEF v, c2, array, y
  <1>11. /\ Given(e.ctx) \subseteq Given(c2) /\ v.name \in Given(c2)
         /\ c2.ver \in [VarNames -> Nat]
    <2>1. /\ Given(e.ctx) \subseteq Given(c2) /\ <<s.id, e.ctx.ver[s.id]>> \in Given(c2)
          /\ c2.ver \in [VarNames -> Nat]
      BY <1>3, <1>9, NextVersion, Zenon
    <2>. QED
      BY <1>7, <2>1
  <1>12. IsContext(e.ctx, L)
    BY <1>3, <1>7, ContextMonotone
  <1>13. IsArray(array, L)
    BY <1>7, <1>10 DEF IsArray
  <1>14. IsContext(c2, L)
    <2>1. DOMAIN c2.arrays \subseteq VarNames /\ \A id \in DOMAIN c2.arrays : IsArray(c2.arrays[id], L)
      <3>1. /\ DOMAIN c2.arrays = DOMAIN e.ctx.arrays \cup {s.id}
            /\ c2.arrays[s.id] = array
            /\ \A id \in DOMAIN e.ctx.arrays \ {s.id} : c2.arrays[id] = e.ctx.arrays[id]
        <4> DEFINE new == Put(e.ctx.arrays, s.id, array)
        <4>1. /\ DOMAIN new = DOMAIN e.ctx.arrays \cup {s.id} /\ new[s.id] = array
              /\ \A id \in DOMAIN e.ctx.arrays \ {s.id} : new[id] = e.ctx.arrays[id]
          <5>1. DOMAIN new = DOMAIN e.ctx.arrays \cup {s.id}
            BY DEF Put
          <5>2. new[s.id] = array
            BY DEF Put
          <5>3. \A id \in DOMAIN e.ctx.arrays \ {s.id} : new[id] = e.ctx.arrays[id]
            BY DEF Put
          <5>. QED
            BY <5>1, <5>2, <5>3
        <4>. HIDE DEF new
        <4>2. c2.arrays = new
          BY <1>9 DEF new
        <4>. QED
          BY <4>1, <4>2
      <3>2. /\ DOMAIN e.ctx.arrays \subseteq VarNames
            /\ \A id \in DOMAIN e.ctx.arrays : IsArray(e.ctx.arrays[id], L)
        BY <1>12 DEF IsContext
      <3>. QED
        BY <1>13, <3>1, <3>2
    <2>2. DOMAIN c2.env \subseteq VarNames /\ \A id \in DOMAIN c2.env : c2.env[id] \in L
      BY <1>9, <1>12 DEF IsContext
    <2>. QED
      BY <1>7, <1>9, <1>11, <1>12, <2>1, <2>2 DEF IsContext
  <1>15. Typed(n) /\ "alloca" # "phi"
    <2>1. /\ n.op = "alloca" /\ Types(n.args) = {"int"} /\ n.elem = s.elem
          /\ ResTypes(n) = {PtrTo[s.elem]}
      <3>1. Range(<<x>>) = {x}
        BY DEF Range
      <3>. QED
        BY <1>5, <1>7, <3>1 DEF Node, Types, ResTypes
    <2>. HIDE DEF n
    <2>. QED
      BY <2>1 DEF Typed, MemoryTyped, CallTyped, Compares
  <1>16. <<x>> \in Seq(Known(K, e))
    BY <1>3
  <1>17. Accumulates(c, K, r, 1)
    BY <1>3, <1>6, <1>8, <1>11, <1>14, <1>15, <1>16, AppendNamed DEF v
  <1>. QED
    BY <1>17, YieldsFacts DEF r

\* x[i] = e
LEMMA StoreFacts ==
  ASSUME NEW c, NEW K, IsContext(c, K), NEW s, Balanced(s.index), Balanced(s.expr),
         LowerStore(c, s).ok
  PROVE  Yields(c, K, LowerStore(c, s))
  <1> DEFINE i == LowerExpr(c, s.index)
             e == LowerExpr(i.ctx, s.expr)
             r == LowerStore(c, s)
             x == Result(i)
             y == Result(e)
             array == c.arrays[s.id]
             typ == PtrTo[array.elem]
             both == [e EXCEPT !.code = i.code \o @]
             v == Fresh(e, typ)
             ptr == Emit(both, "gep", <<array.ptr, x>>, typ, array.elem)
             store == Node("store", <<v, y>>, {}, array.elem)
             z == [ptr EXCEPT !.code = Append(@, store)]
             p == s.id \notin DOMAIN c.arrays \/ ~i.ok \/ ~e.ok
             q == \/ x.typ # "int" \/ ~InStaticBounds(array, Arg(i, 0))
                  \/ y.typ # array.elem
  <1>1. r = IF p THEN FailIf(TRUE, i) ELSE FailIf(q, z)
    BY DEF LowerStore, StoreElement
  <1>2. s.id \in DOMAIN c.arrays /\ i.ok /\ e.ok
    <2>1. ~p
      <3>1. ~FailIf(TRUE, i).ok
        BY DEF FailIf
      <3>2. r.ok
        OBVIOUS
      <3>. HIDE DEF p, q, z, r, i
      <3>. QED
        BY <1>1, <3>1, <3>2
    <2>. QED
      BY <2>1
  <1>3. /\ Accumulates(c, K, i, 1)
        /\ x \in Known(K, i) /\ x.typ \in ValueTypes
        /\ IsContext(i.ctx, Known(K, i))
    BY <1>2, ExprFacts
  <1>. HIDE DEF i
  <1>4. /\ Accumulates(i.ctx, Known(K, i), e, 1)
        /\ y \in Known(Known(K, i), e) /\ y.typ \in ValueTypes
    BY <1>2, <1>3, ExprFacts
  <1>5. /\ array.elem \in Scalars /\ array.ptr \in K /\ array.ptr.typ = typ
    BY <1>2 DEF IsContext, IsArray
  <1>6. typ \in ValueTypes
    BY <1>5, TypeFacts
  <1>. HIDE DEF e, x, y, r, array, typ
  <1>7. /\ DOMAIN both = {"ok", "code", "ctx", "stack"} /\ both.ok = TRUE
        /\ both.code = i.code \o e.code /\ both.ctx = e.ctx /\ both.stack = e.stack
    BY <1>4 DEF Accumulates
  <1>. HIDE DEF both
  <1>8. /\ EmitsCode(c, K, i.code, i.ctx) /\ Plain(i.code)
        /\ EmitsCode(i.ctx, K \cup Results(i.code), e.code, e.ctx) /\ Plain(e.code)
    BY <1>3, <1>4 DEF Accumulates, Known
  <1>9. EmitsCode(c, K, both.code, both.ctx)
    BY <1>7, <1>8, EmitsBoth
  <1>10. /\ Known(K, both) = Known(Known(K, i), e)
         /\ Plain(both.code)
    <2>1. i.code \in Seq(Range(i.code)) /\ e.code \in Seq(Range(e.code))
      BY <1>8 DEF EmitsCode, IsCode
    <2>2. Results(both.code) = Results(i.code) \cup Results(e.code)
      BY <1>7, <2>1, ResultsOfBoth
    <2> DEFINE L == Known(Known(K, i), e)
    <2>3. IsCode(i.code, L) /\ IsCode(e.code, L)
      BY <1>8, CodeMonotone DEF EmitsCode, Known
    <2>4. Plain(both.code)
      BY <1>7, <1>8, <2>3, CodeOfBoth
    <2>. QED
      BY <2>2, <2>4 DEF Known
  <1>11. Accumulates(c, K, both, 1)
    <2>1. both.stack \in Seq(Operands(Known(K, both))) /\ Len(both.stack) = 1
      BY <1>4, <1>7, <1>10 DEF Accumulates
    <2>. QED
      BY <1>7, <1>9, <1>10, <2>1 DEF Accumulates
  <1>12. v = Fresh(both, typ)
    BY <1>7 DEF Fresh
  <1>13. /\ DOMAIN ptr = DOMAIN both /\ DOMAIN z = DOMAIN ptr
    BY DEF Emit
  <1>14. ~q /\ r = z
    <2>1. q \in BOOLEAN
      OBVIOUS
    <2>2. r = FailIf(q, z) /\ r.ok
      BY <1>1, <1>2 DEF r
    <2>3. "ok" \in DOMAIN z
      BY <1>7, <1>13
    <2>. HIDE DEF q, z
    <2>. QED
      BY <2>1, <2>2, <2>3, FailIfFacts
  <1>15. x \in Known(K, both) /\ y \in Known(K, both) /\ array.ptr \in Known(K, both)
    BY <1>3, <1>4, <1>5, <1>10 DEF Known
  <1>16. Typed(Node("gep", <<array.ptr, x>>, {Fresh(both, typ)}, array.elem))
    <2> DEFINE n == Node("gep", <<array.ptr, x>>, {Fresh(both, typ)}, array.elem)
    <2>1. /\ n.op = "gep" /\ n.args[1] = array.ptr /\ n.args[2] = x /\ n.elem = array.elem
          /\ ResTypes(n) = {typ}
      BY DEF Node, ResTypes, Fresh, Temp, Value
    <2>. HIDE DEF n
    <2>2. Typed(n)
      BY <1>5, <1>14, <2>1 DEF Typed, MemoryTyped, CallTyped, Compares, typ
    <2>. QED
      BY <2>2 DEF n
  <1>17. <<array.ptr, x>> \in Seq(Known(K, both))
    BY <1>15
  <1>18. /\ Accumulates(c, K, ptr, 1) /\ v \in Known(K, ptr) /\ y \in Known(K, ptr)
    <2>1. Emitted(c, K, both, 1, ptr, Fresh(both, typ))
      BY <1>6, <1>11, <1>16, <1>17, EmitFacts
    <2>. HIDE DEF ptr, v
    <2>. QED
      BY <1>12, <1>15, <2>1 DEF Emitted
  <1>19. v.typ = typ
    BY DEF Fresh, Temp, Value
  <1>. HIDE DEF ptr, v
  <1>20. /\ store.op = "store" /\ store.args = <<v, y>> /\ store.res = {} /\ store.elem = array.elem
    BY DEF Node
  <1>21. IsNode(store, Known(K, ptr))
    <2>1. Typed(store)
      <3>1. store.args[1] = v /\ store.args[2] = y
        BY <1>20
      <3>. HIDE DEF store
      <3>. QED
        BY <1>14, <1>19, <1>20, <3>1 DEF Typed, MemoryTyped, CallTyped, Compares, typ
    <2>2. <<v, y>> \in Seq(Known(K, ptr))
      BY <1>18
    <2>. QED
      BY <2>1, <2>2, EffectNode, Zenon
  <1>22. Appends(ptr, z, store, ptr.ctx)
    BY <1>18 DEF Accumulates, Appends
  <1>. HIDE DEF store, z
  <1>23. EmitsCode(ptr.ctx, Known(K, ptr), <<store>>, ptr.ctx)
    <2>1. Known(K, ptr) \cup store.res = Known(K, ptr) /\ ResNames(store) = {}
      BY <1>20 DEF ResNames
    <2>2. IsContext(ptr.ctx, Known(K, ptr))
      BY <1>18 DEF Accumulates, EmitsCode, Known
    <2>3. Range(store.args) \subseteq Known(K, ptr)
      BY <1>21, ElementsOf DEF IsNode
    <2>. QED
      BY <1>21, <2>1, <2>2, <2>3, OneNode
  <1>24. Accumulates(c, K, z, 1)
    <2>1. store.op # "phi"
      BY <1>20
    <2>. QED
      BY <1>18, <1>22, <1>23, <2>1, AppendNode
  <1>. QED
    BY <1>14, <1>24, YieldsFacts DEF r

LEMMA CallStmtFacts ==
  ASSUME NEW c, NEW K, IsContext(c, K), NEW expr, Balanced(expr),
         LowerTokens(c, expr, FALSE).ok
  PROVE  Yields(c, K, LowerTokens(c, expr, FALSE))
BY TokensFacts, YieldsFacts

\* A statement that the stack of loops may hold, too, for the step of a for.
IsSimple(s) ==
  \/ s.s = "expr" /\ Balanced(s.expr)
  \/ s.s = "assign" /\ s.id \in VarNames /\ Balanced(s.expr)
  \/ s.s = "aug" /\ s.id \in VarNames /\ s.op \in Arith /\ Balanced(s.expr)
  \/ s.s = "alloc" /\ s.id \in VarNames /\ s.elem \in Scalars /\ Balanced(s.expr)
  \/ s.s = "store" /\ Balanced(s.index) /\ Balanced(s.expr)

LEMMA SimpleFacts ==
  ASSUME NEW c, NEW K, IsContext(c, K), NEW s, IsSimple(s), LowerSimple(c, s).ok
  PROVE  Yields(c, K, LowerSimple(c, s))
  <1>1. CASE s.s = "expr"
    <2>1. LowerSimple(c, s) = LowerTokens(c, s.expr, FALSE)
      BY <1>1 DEF LowerSimple
    <2>. QED
      BY <1>1, <2>1, CallStmtFacts DEF IsSimple
  <1>2. CASE s.s = "assign"
    <2>1. LowerSimple(c, s) = LowerAssign(c, s.id, s.expr)
      BY <1>2 DEF LowerSimple
    <2>. QED
      BY <1>2, <2>1, AssignFacts DEF IsSimple
  <1>3. CASE s.s = "aug"
    <2>1. LowerSimple(c, s) = LowerAugAssign(c, s)
      BY <1>3 DEF LowerSimple
    <2>. QED
      BY <1>3, <2>1, AugFacts DEF IsSimple
  <1>4. CASE s.s = "alloc"
    <2>1. LowerSimple(c, s) = LowerAlloc(c, s)
      BY <1>4 DEF LowerSimple
    <2>. QED
      BY <1>4, <2>1, AllocFacts DEF IsSimple
  <1>5. CASE s.s = "store"
    <2>1. LowerSimple(c, s) = LowerStore(c, s)
      BY <1>5 DEF LowerSimple
    <2>. QED
      BY <1>5, <2>1, StoreFacts DEF IsSimple
  <1>. QED
    BY <1>1, <1>2, <1>3, <1>4, <1>5 DEF IsSimple

-----------------------------------------------------------------------------
(* What the statements of a program guarantee about their expressions. *)

\* The test of a range and the step of a for: an expression between a name and
\* an operator is an expression.
LEMMA AroundExpr ==
  ASSUME NEW e, Balanced(e), NEW a, IsToken(a), Arity(a) = 0, NEW b, IsToken(b), Arity(b) = 2
  PROVE  Balanced(<<a>> \o e \o <<b>>)
  <1> DEFINE n == Len(e)
             x == <<a>> \o e \o <<b>>
  <1>1. PICK d : Balances(e, d)
    BY DEF Balanced
  <1>2. e \in Seq(Range(e)) /\ n \in Nat
    BY DEF Balanced
  <1>3. Len(x) = n + 2 /\ x[1] = a /\ x[n + 2] = b /\ \A i \in 2 .. n + 1 : x[i] = e[i - 1]
    <2>. HIDE DEF n
    <2>1. Len(<<a>> \o e) = n + 1 /\ (<<a>> \o e)[1] = a
          /\ \A i \in 2 .. n + 1 : (<<a>> \o e)[i] = e[i - 1]
      BY <1>2 DEF n
    <2>2. <<a>> \o e \in Seq(Range(e) \cup {a})
      BY <1>2
    <2>. QED
      BY <1>2, <2>1, <2>2
  <1>4. x \in Seq(Range(x))
    <2>1. x \in Seq(Range(e) \cup {a, b})
      BY <1>2
    <2>. HIDE DEF x
    <2>. QED
      BY <2>1 DEF Range
  <1> DEFINE f == [i \in 0 .. n + 2 |-> IF i = 0 THEN 0 ELSE IF i = n + 2 THEN 1 ELSE d[i - 1] + 1]
  <1>5. Balances(x, f)
    <2>. HIDE DEF x, n
    <2>1. /\ d \in [0 .. n -> Nat] /\ d[0] = 0 /\ d[n] = 1
          /\ \A i \in 1 .. n : /\ IsToken(e[i]) /\ Arity(e[i]) <= d[i - 1]
                               /\ d[i] = d[i - 1] - Arity(e[i]) + 1
      BY <1>1 DEF Balances, n
    <2>2. f \in [0 .. n + 2 -> Nat] /\ f[0] = 0 /\ f[n + 2] = 1
      BY <1>2, <2>1
    <2>3. ASSUME NEW i \in 1 .. n + 2
          PROVE  /\ IsToken(x[i]) /\ Arity(x[i]) <= f[i - 1]
                 /\ f[i] = f[i - 1] - Arity(x[i]) + 1
      <3>1. CASE i = 1
        BY <1>2, <1>3, <2>1, <3>1
      <3>2. CASE i = n + 2
        <4>1. f[i - 1] = 2 /\ f[i] = 1
          BY <1>2, <2>1, <3>2
        <4>. QED
          BY <1>3, <3>2, <4>1
      <3>3. CASE i \in 2 .. n + 1
        <4>1. i - 1 \in 1 .. n /\ x[i] = e[i - 1]
          BY <1>2, <1>3, <3>3
        <4>2. f[i] = d[i - 1] + 1 /\ f[i - 1] = d[i - 2] + 1
          BY <1>2, <3>3
        <4>3. IsToken(e[i - 1]) /\ Arity(e[i - 1]) <= d[i - 2]
              /\ d[i - 1] = d[i - 2] - Arity(e[i - 1]) + 1
          <5>1. (i - 1) - 1 = i - 2
            BY <3>3, <1>2
          <5>. QED
            BY <2>1, <4>1, <5>1
        <4>4. d[i - 2] \in Nat /\ d[i - 1] \in Nat
          BY <1>2, <2>1, <3>3
        <4>5. Arity(x[i]) \in Int
          BY <4>1, <4>3, <2>1, <4>4 DEF IsToken, Arity
        <4>. HIDE DEF f
        <4>. QED
          BY <4>1, <4>2, <4>3, <4>4, <4>5
      <3>. QED
        BY <1>2, <3>1, <3>2, <3>3
    <2>. HIDE DEF f
    <2>. QED
      BY <1>3, <2>2, <2>3 DEF Balances
  <1>. HIDE DEF x, f
  <1>6. Balanced(x)
    BY <1>4, <1>5 DEF Balanced
  <1>. QED
    BY <1>6 DEF x

LEMMA StmtFacts ==
  ASSUME NEW s, IsStmt(s)
  PROVE  /\ s.s \in SimpleStmts => IsSimple(s)
         /\ s.s \in {"if", "while"} => Balanced(s.expr)
         /\ s.s = "return" => s.expr = <<>> \/ Balanced(s.expr)
         /\ s.s = "for" => /\ s.id \in VarNames /\ Balanced(s.start)
                           /\ Balanced(s.stop) /\ Balanced(s.step)
  BY ExprIsBalanced DEF IsStmt, IsSimple, SimpleStmts

\* The statement and the test that a for adds to its loop.
LEMMA ForFacts ==
  ASSUME NEW s, IsStmt(s), s.s = "for"
  PROVE  /\ Balanced(RangeTest(s))
         /\ IsSimple([s |-> "assign", id |-> s.id,
                      expr |-> <<Var(s.id)>> \o s.step \o <<[t |-> "binop", op |-> "+"]>>])
  <1>1. s.id \in VarNames /\ Balanced(s.stop) /\ Balanced(s.step)
    BY StmtFacts
  <1>2. IsToken(Var(s.id)) /\ Arity(Var(s.id)) = 0
    BY DEF Var, IsToken, Arity
  <1>3. ASSUME NEW op \in {"gt", "lt"}
        PROVE  IsToken([t |-> "compare", op |-> op]) /\ Arity([t |-> "compare", op |-> op]) = 2
    BY DEF IsToken, Arity, Compares
  <1>4. IsToken([t |-> "binop", op |-> "+"]) /\ Arity([t |-> "binop", op |-> "+"]) = 2
    BY DEF IsToken, Arity, Arith
  <1>5. Balanced(RangeTest(s))
    BY <1>1, <1>2, <1>3, AroundExpr DEF RangeTest
  <1>6. Balanced(<<Var(s.id)>> \o s.step \o <<[t |-> "binop", op |-> "+"]>>)
    BY <1>1, <1>2, <1>4, AroundExpr
  <1>. QED
    BY <1>1, <1>5, <1>6 DEF IsSimple

-----------------------------------------------------------------------------
(* The graph of the blocks, and the statements begun and not ended.           *)

GraphOf(bs) == [l \in DOMAIN bs |-> Succ(bs, l)]
OpenIn(bs) == {l \in DOMAIN bs : bs[l].term.k = "none"}
Stack == [i \in DOMAIN frames |-> Abstract(frames[i])]

CFP == INSTANCE ControlFlow_proofs WITH
         succ <- GraphOf(blocks), open <- OpenIn(blocks), frames <- Stack,
         IsVoid <- RetType = "void", MaxBlocks <- 3 * MaxStmts

IsBlock(b) == DOMAIN b = {"nodes", "term"} /\ (b.term.k = "none" => b.term = NoTerm)
AreBlocks(bs) == \A l \in DOMAIN bs : IsBlock(bs[l])

IsFrame(f, labels) ==
  \/ /\ f.k \in {"then", "else"}
     /\ DOMAIN f = {"k", "then", "else", "join", "base", "left"}
     /\ {f.then, f.else, f.join} \subseteq labels /\ f.join[1] = "if_join"
  \/ /\ f.k = "while"
     /\ {f.cond, f.body, f.exit} \subseteq labels /\ f.cond[1] = "while_cond"
     /\ f.step # <<>> => IsSimple(f.step[1])

IsStack(fs, labels) == fs \in Seq(Range(fs)) /\ \A i \in 1 .. Len(fs) : IsFrame(fs[i], labels)

\* The statements of src that a program has a bounded number of.
Begun == {i \in DOMAIN src : ~IsElseOrEnd(src[i])}

\* The form of the state: every statement but "else" and "end" counts, and takes
\* at most three labels.
Shape ==
  /\ status \in {"lowering", "done", "rejected"}
  /\ src \in Seq(Stmts)
  /\ blk \in Nat /\ blk <= 3 * Cardinality(Begun)
  /\ AreBlocks(blocks)
  /\ cur \in DOMAIN blocks
  /\ IsStack(frames, DOMAIN blocks)

\* What a step does to the blocks bs: code is added to the block l, the
\* terminators stay, or that of the block l becomes t.
Writes(bs, bs2, l, code) ==
  /\ DOMAIN bs2 = DOMAIN bs
  /\ \A m \in DOMAIN bs : bs2[m].nodes = IF m = l THEN bs[m].nodes \o code ELSE bs[m].nodes
KeepsTerms(bs, bs2) == DOMAIN bs2 = DOMAIN bs /\ \A m \in DOMAIN bs : bs2[m].term = bs[m].term
KeepsNodes(bs, bs2) == DOMAIN bs2 = DOMAIN bs /\ \A m \in DOMAIN bs : bs2[m].nodes = bs[m].nodes
Ends(bs, bs2, l, t) ==
  /\ DOMAIN bs2 = DOMAIN bs
  /\ \A m \in DOMAIN bs : bs2[m].term = IF m = l THEN t ELSE bs[m].term

LEMMA TermsKept ==
  ASSUME NEW bs, NEW bs2, KeepsTerms(bs, bs2)
  PROVE  GraphOf(bs2) = GraphOf(bs) /\ OpenIn(bs2) = OpenIn(bs)
  BY DEF KeepsTerms, GraphOf, OpenIn, Succ

LEMMA BlockEnded ==
  ASSUME NEW bs, NEW bs2, NEW l \in DOMAIN bs, NEW t, Ends(bs, bs2, l, t), t.k # "none"
  PROVE  /\ GraphOf(bs2) = [GraphOf(bs) EXCEPT ![l] = Range(t.to)]
         /\ OpenIn(bs2) = OpenIn(bs) \ {l}
  BY DEF Ends, GraphOf, OpenIn, Succ

\* bs2 is bs with new, empty blocks for the labels.
Added(bs, bs2, labels) ==
  /\ DOMAIN bs2 = DOMAIN bs \cup labels
  /\ \A l \in labels : bs2[l] = NewBlock
  /\ \A l \in DOMAIN bs \ labels : bs2[l] = bs[l]

LEMMA BlocksAdded ==
  ASSUME NEW bs, NEW labels
  PROVE  /\ Added(bs, NewBlocks(bs, labels), labels)
         /\ AreBlocks(bs) => AreBlocks(NewBlocks(bs, labels))
  <1> DEFINE bs2 == NewBlocks(bs, labels)
  <1>1. Added(bs, bs2, labels)
    BY DEF NewBlocks, Added
  <1>2. IsBlock(NewBlock)
    BY DEF IsBlock, NewBlock, NoTerm, Term
  <1>. HIDE DEF bs2
  <1>3. AreBlocks(bs) => AreBlocks(bs2)
    BY <1>1, <1>2 DEF AreBlocks, Added
  <1>. QED
    BY <1>1, <1>3 DEF bs2

LEMMA TermFacts ==
  /\ \A l : Jump(l).k = "jump" /\ Range(Jump(l).to) = {l} /\ Jump(l).uses = <<>>
  /\ \A c, l, m : /\ Branch(c, l, m).k = "br" /\ Range(Branch(c, l, m).to) = {l, m}
                  /\ Branch(c, l, m).uses = <<c>>
  /\ \A uses : Return(uses).k = "ret" /\ Range(Return(uses).to) = {} /\ Return(uses).uses = uses
  /\ NoTerm.k = "none" /\ Range(NoTerm.to) = {} /\ NoTerm.uses = <<>>
  BY DEF Jump, Branch, Return, NoTerm, Term, Range

\* One statement more.
LEMMA SrcFacts ==
  ASSUME src \in Seq(Stmts), NEW s \in Stmts, src' = Append(src, s)
  PROVE  /\ src' \in Seq(Stmts)
         /\ Cardinality(Begun) \in Nat /\ Cardinality(Begun') \in Nat
         /\ Cardinality(Begun) <= Cardinality(Begun')
         /\ ~IsElseOrEnd(s) => Cardinality(Begun') = Cardinality(Begun) + 1
  <1> DEFINE n == Len(src)
  <1>1. n \in Nat /\ IsFiniteSet(1 .. n) /\ DOMAIN src = 1 .. n
    BY FS_Interval
  <1>2. IsFiniteSet(Begun) /\ Cardinality(Begun) \in Nat
    BY <1>1, FS_Subset, FS_CardinalityType DEF Begun
  <1>3. DOMAIN src' = 1 .. n + 1 /\ src'[n + 1] = s /\ \A i \in 1 .. n : src'[i] = src[i]
    OBVIOUS
  <1>4. CASE IsElseOrEnd(s)
    <2>1. Begun' = Begun
      BY <1>1, <1>3, <1>4 DEF Begun, IsElseOrEnd
    <2>. QED
      BY <1>2, <1>4, <2>1
  <1>5. CASE ~IsElseOrEnd(s)
    <2>1. Begun' = Begun \cup {n + 1} /\ n + 1 \notin Begun
      BY <1>1, <1>3, <1>5 DEF Begun, IsElseOrEnd
    <2>2. Cardinality(Begun') = Cardinality(Begun) + 1
      BY <1>2, <2>1, FS_AddElement
    <2>. QED
      BY <1>2, <2>2
  <1>. QED
    BY <1>4, <1>5

\* The stack of the graph is that of the lowering.
LEMMA StackFacts ==
  ASSUME NEW labels, IsStack(frames, labels)
  PROVE  /\ Len(frames) \in Nat /\ DOMAIN frames = 1 .. Len(frames)
         /\ Len(Stack) = Len(frames) /\ DOMAIN Stack = 1 .. Len(frames)
         /\ \A i \in 1 .. Len(frames) : Stack[i] = Abstract(frames[i])
         /\ frames = <<>> <=> Stack = <<>>
         /\ frames # <<>> => /\ CFP!Top = Abstract(Last(frames))
                             /\ IsFrame(Last(frames), labels)
                             /\ Last(frames) = frames[Len(frames)]
  <1>1. Len(frames) \in Nat /\ DOMAIN frames = 1 .. Len(frames)
    BY DEF IsStack
  <1>2. Len(Stack) = Len(frames) /\ DOMAIN Stack = 1 .. Len(frames)
        /\ \A i \in 1 .. Len(frames) : Stack[i] = Abstract(frames[i])
    BY <1>1 DEF Stack
  <1>3. frames = <<>> <=> Stack = <<>>
    BY <1>1, <1>2 DEF IsStack, Stack
  <1>4. ASSUME frames # <<>>
        PROVE  Len(frames) \in 1 .. Len(frames) /\ Last(frames) = frames[Len(frames)]
    BY <1>1, <1>4 DEF Last, IsStack
  <1>5. ASSUME frames # <<>>
        PROVE  CFP!Top = Abstract(Last(frames)) /\ IsFrame(Last(frames), labels)
    BY <1>2, <1>4, <1>5 DEF CFP!Top, IsStack
  <1>. QED
    BY <1>1, <1>2, <1>3, <1>4, <1>5

LEMMA StackPush ==
  ASSUME NEW labels, NEW more, labels \subseteq more, IsStack(frames, labels),
         NEW f, IsFrame(f, more), frames' = Append(frames, f)
  PROVE  IsStack(frames', more) /\ Stack' = Append(Stack, Abstract(f))
  <1>1. frames' \in Seq(Range(frames) \cup {f}) /\ Len(frames') = Len(frames) + 1
        /\ frames'[Len(frames) + 1] = f /\ \A i \in 1 .. Len(frames) : frames'[i] = frames[i]
    BY DEF IsStack
  <1>2. IsStack(frames', more)
    BY <1>1 DEF IsStack, IsFrame, Range
  <1>3. Stack' = Append(Stack, Abstract(f))
    BY <1>1, <1>2, StackFacts DEF IsStack, Stack
  <1>. QED
    BY <1>2, <1>3

LEMMA FrontFacts ==
  ASSUME NEW S, NEW s \in Seq(S), s # <<>>
  PROVE  /\ Front(s) \in Seq(S) /\ Len(Front(s)) = Len(s) - 1
         /\ \A i \in 1 .. Len(s) - 1 : Front(s)[i] = s[i]
  <1> DEFINE n == Len(s)
             t == SubSeq(s, 1, n - 1)
  <1>1. n \in Nat \ {0} /\ \A i \in 1 .. n : s[i] \in S
    OBVIOUS
  <1>. HIDE DEF n
  <1>2. Len(t) = n - 1 /\ \A i \in 1 .. n - 1 : t[i] = s[i]
    BY <1>1
  <1>3. t \in Seq(S)
    BY <1>1, <1>2
  <1>. QED
    BY <1>2, <1>3 DEF Front, n

LEMMA StackPop ==
  ASSUME NEW labels, IsStack(frames, labels), frames # <<>>, frames' = Front(frames)
  PROVE  IsStack(frames', labels) /\ Stack' = CFP!Pop
  <1>1. frames' \in Seq(Range(frames)) /\ Len(frames') = Len(frames) - 1
        /\ \A i \in 1 .. Len(frames) - 1 : frames'[i] = frames[i]
    BY FrontFacts DEF IsStack
  <1>2. IsStack(frames', labels)
    BY <1>1 DEF IsStack, Range
  <1>3. Stack' = CFP!Pop
    BY <1>1, <1>2, StackFacts DEF IsStack, Stack, CFP!Pop
  <1>. QED
    BY <1>2, <1>3

-----------------------------------------------------------------------------
(* Every step of the lowering is one of the block graph.                      *)

LEMMA WriteEffect ==
  ASSUME NEW bs, AreBlocks(bs), NEW l \in DOMAIN bs, NEW code
  PROVE  LET bs2 == [bs EXCEPT ![l].nodes = @ \o code]
         IN  Writes(bs, bs2, l, code) /\ KeepsTerms(bs, bs2) /\ AreBlocks(bs2)
  <1> DEFINE bs2 == [bs EXCEPT ![l].nodes = @ \o code]
  <1>1. /\ DOMAIN bs2 = DOMAIN bs
        /\ \A m \in DOMAIN bs \ {l} : bs2[m] = bs[m]
        /\ DOMAIN bs2[l] = {"nodes", "term"}
        /\ bs2[l].nodes = bs[l].nodes \o code /\ bs2[l].term = bs[l].term
    BY DEF AreBlocks, IsBlock
  <1>. HIDE DEF bs2
  <1>2. Writes(bs, bs2, l, code) /\ KeepsTerms(bs, bs2) /\ AreBlocks(bs2)
    BY <1>1 DEF Writes, KeepsTerms, AreBlocks, IsBlock
  <1>. QED
    BY <1>2 DEF bs2

LEMMA EndEffect ==
  ASSUME NEW bs, AreBlocks(bs), NEW l \in DOMAIN bs, NEW code, NEW t, t.k # "none"
  PROVE  LET bs2 == [bs EXCEPT ![l].nodes = @ \o code, ![l].term = t]
         IN  Writes(bs, bs2, l, code) /\ Ends(bs, bs2, l, t) /\ AreBlocks(bs2)
  <1> DEFINE bs2 == [bs EXCEPT ![l].nodes = @ \o code, ![l].term = t]
  <1>1. /\ DOMAIN bs2 = DOMAIN bs
        /\ \A m \in DOMAIN bs \ {l} : bs2[m] = bs[m]
        /\ DOMAIN bs2[l] = {"nodes", "term"}
        /\ bs2[l].nodes = bs[l].nodes \o code /\ bs2[l].term = t
    BY DEF AreBlocks, IsBlock
  <1>. HIDE DEF bs2
  <1>2. Writes(bs, bs2, l, code) /\ Ends(bs, bs2, l, t) /\ AreBlocks(bs2)
    BY <1>1 DEF Writes, Ends, AreBlocks, IsBlock
  <1>. QED
    BY <1>2 DEF bs2

\* A block falls to m, or keeps the end it has.
FallsTo(bs, bs2, l, m) ==
  /\ KeepsNodes(bs, bs2) /\ AreBlocks(bs2)
  /\ IF bs[l].term.k = "none" THEN Ends(bs, bs2, l, Jump(m)) ELSE KeepsTerms(bs, bs2)

LEMMA FallEffect ==
  ASSUME NEW bs, AreBlocks(bs), NEW l \in DOMAIN bs, NEW m
  PROVE  LET bs2 == FallTo(bs, l, m)
         IN  /\ FallsTo(bs, bs2, l, m)
             /\ GraphOf(bs2) = IF l \in OpenIn(bs) THEN [GraphOf(bs) EXCEPT ![l] = {m}]
                               ELSE GraphOf(bs)
             /\ OpenIn(bs2) = OpenIn(bs) \ {l}
  <1> DEFINE bs2 == FallTo(bs, l, m)
  <1>1. CASE bs[l].term.k = "none"
    <2>1. bs2 = [bs EXCEPT ![l].term = Jump(m)]
      BY <1>1 DEF FallTo
    <2>2. /\ DOMAIN bs2 = DOMAIN bs
          /\ \A k \in DOMAIN bs \ {l} : bs2[k] = bs[k]
          /\ DOMAIN bs2[l] = {"nodes", "term"}
          /\ bs2[l].nodes = bs[l].nodes /\ bs2[l].term = Jump(m)
      BY <2>1 DEF AreBlocks, IsBlock
    <2>3. Jump(m).k # "none" /\ Range(Jump(m).to) = {m}
      BY TermFacts
    <2>. HIDE DEF bs2
    <2>4. KeepsNodes(bs, bs2) /\ AreBlocks(bs2) /\ Ends(bs, bs2, l, Jump(m))
      BY <2>2, <2>3 DEF KeepsNodes, AreBlocks, IsBlock, Ends
    <2>5. FallsTo(bs, bs2, l, m)
      BY <1>1, <2>4 DEF FallsTo
    <2>6. GraphOf(bs2) = [GraphOf(bs) EXCEPT ![l] = {m}] /\ OpenIn(bs2) = OpenIn(bs) \ {l}
      <3> DEFINE t == Jump(m)
      <3>1. Ends(bs, bs2, l, t) /\ t.k # "none" /\ Range(t.to) = {m}
        BY <2>3, <2>4
      <3>. HIDE DEF t
      <3>2. /\ GraphOf(bs2) = [GraphOf(bs) EXCEPT ![l] = Range(t.to)]
            /\ OpenIn(bs2) = OpenIn(bs) \ {l}
        BY <3>1, BlockEnded
      <3>. QED
        BY <3>1, <3>2
    <2>7. l \in OpenIn(bs)
      BY <1>1 DEF OpenIn
    <2>. QED
      BY <2>5, <2>6, <2>7 DEF bs2
  <1>2. CASE bs[l].term.k # "none"
    <2>1. bs2 = bs /\ l \notin OpenIn(bs)
      BY <1>2 DEF FallTo, OpenIn
    <2>. HIDE DEF bs2
    <2>2. FallsTo(bs, bs2, l, m)
      BY <1>2, <2>1 DEF FallsTo, KeepsNodes, KeepsTerms
    <2>. QED
      BY <2>1, <2>2 DEF bs2
  <1>. QED
    BY <1>1, <1>2

LEMMA SimpleStep ==
  ASSUME Shape, NEW s \in Stmts, Simple(s)
  PROVE  /\ Shape' /\ UNCHANGED CFP!vars
         /\ Writes(blocks, blocks', cur, LowerSimple(ctx, s).code)
         /\ KeepsTerms(blocks, blocks')
  <1>1. /\ Writes(blocks, blocks', cur, LowerSimple(ctx, s).code)
        /\ KeepsTerms(blocks, blocks') /\ AreBlocks(blocks')
    BY WriteEffect DEF Shape, Simple, Append1
  <1>2. Shape'
    BY <1>1, SrcFacts DEF Shape, Simple, Lower, Writes
  <1>3. Stack' = Stack
    BY DEF Simple, Stack
  <1>4. UNCHANGED CFP!vars
    BY <1>1, <1>3, TermsKept DEF Simple, CFP!vars
  <1>. QED
    BY <1>1, <1>2, <1>4

LEMMA ReturnStep ==
  ASSUME Shape, NEW s \in Stmts, ReturnStmt(s)
  PROVE  LET r == LowerReturn(ctx, s)
         IN  /\ Shape' /\ CFP!ReturnStmt
             /\ Writes(blocks, blocks', cur, r.code)
             /\ Ends(blocks, blocks', cur, Return(r.uses))
  <1> DEFINE r == LowerReturn(ctx, s)
  <1>1. Return(r.uses).k # "none" /\ Range(Return(r.uses).to) = {}
    BY TermFacts
  <1>2. /\ Writes(blocks, blocks', cur, r.code)
        /\ Ends(blocks, blocks', cur, Return(r.uses)) /\ AreBlocks(blocks')
    <2>1. blocks' = [blocks EXCEPT ![cur].nodes = @ \o r.code, ![cur].term = Return(r.uses)]
      BY DEF ReturnStmt
    <2>. HIDE DEF r
    <2>. QED
      BY <1>1, <2>1, EndEffect DEF Shape
  <1>. HIDE DEF r
  <1>3. Shape'
    BY <1>2, SrcFacts DEF Shape, ReturnStmt, Lower, Ends
  <1>4. GraphOf(blocks') = [GraphOf(blocks) EXCEPT ![cur] = {}]
        /\ OpenIn(blocks') = OpenIn(blocks) \ {cur}
    <2>1. cur \in DOMAIN blocks
      BY DEF Shape
    <2>2. GraphOf(blocks') = [GraphOf(blocks) EXCEPT ![cur] = Range(Return(r.uses).to)]
          /\ OpenIn(blocks') = OpenIn(blocks) \ {cur}
      BY <1>1, <1>2, <2>1, BlockEnded
    <2>. QED
      BY <1>1, <2>2
  <1>5. CFP!ReturnStmt
    BY <1>4 DEF ReturnStmt, CFP!ReturnStmt, Stack
  <1>. QED
    BY <1>2, <1>3, <1>5 DEF r

\* A statement that takes three labels, within the bound on statements.
LEMMA LabelsLeft ==
  ASSUME Shape, More, NEW s \in Stmts, ~IsElseOrEnd(s), Lower(s)
  PROVE  /\ blk + 3 <= 3 * MaxStmts
         /\ src' \in Seq(Stmts) /\ blk + 3 \in Nat /\ blk + 3 <= 3 * Cardinality(Begun')
  <1>1. /\ src' \in Seq(Stmts) /\ Cardinality(Begun) \in Nat
        /\ Cardinality(Begun') = Cardinality(Begun) + 1
    BY SrcFacts DEF Shape, Lower
  <1>2. Cardinality(Begun) < MaxStmts /\ MaxStmts \in Nat
    BY LoweringAssumption DEF More, Begun
  <1>3. blk \in Nat /\ blk <= 3 * Cardinality(Begun)
    BY DEF Shape
  <1>. QED
    BY <1>1, <1>2, <1>3

\* The current block ends in a branch to new blocks, or a jump to one of them.
Opened(bs, bs2, l, targets, labels) ==
  /\ DOMAIN bs2 = DOMAIN bs \cup labels
  /\ GraphOf(bs2) = [m \in DOMAIN GraphOf(bs) \cup labels |->
                       IF m \in labels THEN {}
                       ELSE IF m = l THEN targets ELSE GraphOf(bs)[m]]
  /\ OpenIn(bs2) = (OpenIn(bs) \ {l}) \cup labels

LEMMA BlocksOpened ==
  ASSUME NEW bs, NEW bs1, NEW l \in DOMAIN bs, NEW t, t.k # "none", Ends(bs, bs1, l, t),
         NEW labels, NEW bs2, Added(bs1, bs2, labels)
  PROVE  Opened(bs, bs2, l, Range(t.to), labels)
  <1>1. NewBlock.term.k = "none" /\ Range(NewBlock.term.to) = {}
    BY TermFacts DEF NewBlock
  <1>2. DOMAIN bs1 = DOMAIN bs /\ DOMAIN bs2 = DOMAIN bs \cup labels
    BY DEF Ends, Added
  <1>3. OpenIn(bs2) = (OpenIn(bs) \ {l}) \cup labels
    BY <1>1, <1>2 DEF OpenIn, Ends, Added
  <1>4. \A m \in DOMAIN bs2 : Succ(bs2, m) = IF m \in labels THEN {}
                                             ELSE IF m = l THEN Range(t.to) ELSE Succ(bs, m)
    BY <1>1, <1>2 DEF Succ, Ends, Added
  <1>5. GraphOf(bs2) = [m \in DOMAIN GraphOf(bs) \cup labels |->
                              IF m \in labels THEN {}
                              ELSE IF m = l THEN Range(t.to) ELSE GraphOf(bs)[m]]
    BY <1>2, <1>4 DEF GraphOf
  <1>. QED
    BY <1>2, <1>3, <1>5 DEF Opened

LEMMA OpenIfStep ==
  ASSUME Shape, More, NEW s \in Stmts, s.s = "if", OpenIf(s)
  PROVE  /\ Shape' /\ CFP!OpenIf
         /\ LET e == LowerExpr(ctx, s.expr)
                t == Branch(Result(e), CFP!IfThen, CFP!IfElse)
                bs == [blocks EXCEPT ![cur].nodes = @ \o e.code, ![cur].term = t]
            IN  /\ Writes(blocks, bs, cur, e.code) /\ Ends(blocks, bs, cur, t)
                /\ blocks' = NewBlocks(bs, {CFP!IfThen, CFP!IfElse, CFP!IfJoin})
  <1> DEFINE e == LowerExpr(ctx, s.expr)
             labels == {CFP!IfThen, CFP!IfElse, CFP!IfJoin}
             t == Branch(Result(e), CFP!IfThen, CFP!IfElse)
             bs == [blocks EXCEPT ![cur].nodes = @ \o e.code, ![cur].term = t]
             f == [k |-> "then", then |-> CFP!IfThen, else |-> CFP!IfElse, join |-> CFP!IfJoin,
                   base |-> ctx.env, left |-> ctx.env]
  <1>1. /\ Lower(s) /\ blocks' = NewBlocks(bs, labels) /\ cur' = CFP!IfThen
        /\ frames' = Append(frames, f) /\ blk' = blk + 3 /\ UNCHANGED status
    BY DEF OpenIf, CFP!IfThen, CFP!IfElse, CFP!IfJoin
  <1>2. AreBlocks(blocks) /\ cur \in DOMAIN blocks /\ IsStack(frames, DOMAIN blocks)
    BY DEF Shape
  <1>3. /\ IsFrame(f, DOMAIN blocks \cup labels)
        /\ Abstract(f) = [k |-> "then", to |-> CFP!IfJoin, next |-> CFP!IfElse]
    BY DEF IsFrame, Abstract, CFP!IfJoin
  <1>4. CFP!IfThen \in labels
    OBVIOUS
  <1>. HIDE DEF f, labels, e
  <1>5. t.k # "none" /\ Range(t.to) = {CFP!IfThen, CFP!IfElse}
    BY DEF Branch, Term, Range
  <1>. HIDE DEF t
  <1>6. Writes(blocks, bs, cur, e.code) /\ Ends(blocks, bs, cur, t) /\ AreBlocks(bs)
    BY <1>2, <1>5, EndEffect
  <1>. HIDE DEF bs
  <1>11. Added(bs, blocks', labels) /\ AreBlocks(blocks')
    BY <1>1, <1>6, BlocksAdded
  <1>12. Opened(blocks, blocks', cur, Range(t.to), labels)
    BY <1>2, <1>5, <1>6, <1>11, BlocksOpened
  <1>7. blk + 3 <= 3 * MaxStmts /\ src' \in Seq(Stmts)
        /\ blk + 3 \in Nat /\ blk + 3 <= 3 * Cardinality(Begun')
    BY <1>1, LabelsLeft DEF IsElseOrEnd
  <1>8. IsStack(frames', DOMAIN blocks \cup labels) /\ Stack' = Append(Stack, Abstract(f))
    BY <1>1, <1>2, <1>3, StackPush
  <1>9. Shape'
    BY <1>1, <1>4, <1>7, <1>8, <1>11, <1>12 DEF Shape, Opened
  <1>10. CFP!OpenIf
    <2>2. GraphOf(blocks') = [m \in DOMAIN GraphOf(blocks) \cup labels |->
                                IF m \in labels THEN {}
                                ELSE IF m = cur THEN {CFP!IfThen, CFP!IfElse}
                                ELSE GraphOf(blocks)[m]]
      BY <1>5, <1>12 DEF Opened
    <2>3. CFP!Push([k |-> "then", to |-> CFP!IfJoin, next |-> CFP!IfElse])
      BY <1>3, <1>8 DEF CFP!Push
    <2>. QED
      BY <1>1, <1>7, <1>12, <2>2, <2>3 DEF CFP!OpenIf, labels, Opened
  <1>. QED
    BY <1>1, <1>6, <1>9, <1>10 DEF bs, t, e, labels

\* A loop: the condition block is complete at once.
Fills(bs, bs2, l, code) ==
  /\ DOMAIN bs2 = DOMAIN bs
  /\ \A m \in DOMAIN bs : bs2[m].nodes = IF m = l THEN code ELSE bs[m].nodes

LEMMA FillEffect ==
  ASSUME NEW bs, AreBlocks(bs), NEW l \in DOMAIN bs, NEW code, NEW t, t.k # "none"
  PROVE  LET bs2 == [bs EXCEPT ![l] = [nodes |-> code, term |-> t]]
         IN  Fills(bs, bs2, l, code) /\ Ends(bs, bs2, l, t) /\ AreBlocks(bs2)
  BY DEF Fills, Ends, AreBlocks, IsBlock

LoopGraph(bs, bs2, l, cond, body, exit) ==
  /\ DOMAIN bs2 = DOMAIN bs \cup {cond, body, exit}
  /\ GraphOf(bs2) = [m \in DOMAIN GraphOf(bs) \cup {cond, body, exit} |->
                       IF m \in {body, exit} THEN {}
                       ELSE IF m = cond THEN {body, exit}
                       ELSE IF m = l THEN {cond} ELSE GraphOf(bs)[m]]
  /\ OpenIn(bs2) = (OpenIn(bs) \ {l}) \cup {body, exit}

LEMMA LoopOpened ==
  ASSUME NEW bs, NEW mid, NEW cond, NEW body, NEW exit, NEW l \in DOMAIN bs, NEW bs2, NEW t,
         Opened(bs, mid, l, {cond}, {cond, body, exit}),
         Ends(mid, bs2, cond, t), t.k # "none", Range(t.to) = {body, exit},
         {cond, body, exit} \cap DOMAIN bs = {}, cond # body, cond # exit
  PROVE  LoopGraph(bs, bs2, l, cond, body, exit)
  <1> DEFINE labels == {cond, body, exit}
  <1>1. DOMAIN mid = DOMAIN bs \cup labels /\ DOMAIN GraphOf(bs) = DOMAIN bs
        /\ DOMAIN bs2 = DOMAIN mid /\ DOMAIN GraphOf(bs2) = DOMAIN bs2
    BY DEF Opened, GraphOf, Ends
  <1>2. OpenIn(mid) = (OpenIn(bs) \ {l}) \cup labels
    BY DEF Opened
  <1>3. OpenIn(bs2) = OpenIn(mid) \ {cond}
    BY DEF OpenIn, Ends
  <1>4. cond \notin OpenIn(bs)
    BY DEF OpenIn
  <1>5. OpenIn(bs2) = (OpenIn(bs) \ {l}) \cup {body, exit}
    BY <1>2, <1>3, <1>4
  <1>6. \A m \in DOMAIN mid : Succ(bs2, m) = IF m = cond THEN {body, exit} ELSE GraphOf(mid)[m]
    BY DEF Ends, Succ, GraphOf
  <1>7. \A m \in DOMAIN mid : GraphOf(mid)[m] = IF m \in labels THEN {}
                                               ELSE IF m = l THEN {cond} ELSE GraphOf(bs)[m]
    BY <1>1 DEF Opened
  <1>8. \A m \in DOMAIN bs2 : GraphOf(bs2)[m] = IF m \in {body, exit} THEN {}
                                                ELSE IF m = cond THEN {body, exit}
                                                ELSE IF m = l THEN {cond} ELSE GraphOf(bs)[m]
    BY <1>1, <1>6, <1>7 DEF GraphOf
  <1>9. GraphOf(bs2) = [m \in DOMAIN GraphOf(bs) \cup {cond, body, exit} |->
                              IF m \in {body, exit} THEN {}
                              ELSE IF m = cond THEN {body, exit}
                              ELSE IF m = l THEN {cond} ELSE GraphOf(bs)[m]]
    <2> DEFINE g == [m \in DOMAIN GraphOf(bs) \cup {cond, body, exit} |->
                              IF m \in {body, exit} THEN {}
                              ELSE IF m = cond THEN {body, exit}
                              ELSE IF m = l THEN {cond} ELSE GraphOf(bs)[m]]
    <2>1. DOMAIN g = DOMAIN GraphOf(bs2) /\ \A m \in DOMAIN g : g[m] = GraphOf(bs2)[m]
      BY <1>1, <1>8
    <2>2. GraphOf(bs2) = [m \in DOMAIN GraphOf(bs2) |-> GraphOf(bs2)[m]]
      BY DEF GraphOf
    <2>3. GraphOf(bs2) = g
      BY <2>1, <2>2
    <2>. QED
      BY <2>3
  <1>. QED
    BY <1>1, <1>5, <1>9 DEF LoopGraph

\* What Open does to the blocks: bs has the jump to the condition block, mid the
\* three new blocks.
LoopBlocks(c, code, test, bs, mid) ==
  LET h == Header(c, cur, CFP!WhileBody)
      e == LowerExpr(h.ctx, test)
  IN  /\ Writes(blocks, bs, cur, code) /\ Ends(blocks, bs, cur, Jump(CFP!WhileCond))
      /\ Added(bs, mid, {CFP!WhileCond, CFP!WhileBody, CFP!WhileExit})
      /\ Fills(mid, blocks', CFP!WhileCond, h.code \o e.code)
      /\ Ends(mid, blocks', CFP!WhileCond, Branch(Result(e), CFP!WhileBody, CFP!WhileExit))

LEMMA OpenStep ==
  ASSUME Shape, CFP!TypeOK, More, NEW s \in Stmts, ~IsElseOrEnd(s), Lower(s),
         NEW c, NEW code, NEW test, NEW step, step # <<>> => IsSimple(step[1]),
         Open(c, code, test, step)
  PROVE  /\ Shape' /\ CFP!OpenWhile
         /\ \E bs, mid : LoopBlocks(c, code, test, bs, mid)
  <1> DEFINE cond == CFP!WhileCond
             body == CFP!WhileBody
             exit == CFP!WhileExit
             labels == {cond, body, exit}
             h == Header(c, cur, body)
             e == LowerExpr(h.ctx, test)
             bs == [blocks EXCEPT ![cur].nodes = @ \o code, ![cur].term = Jump(cond)]
             mid == NewBlocks(bs, labels)
             t == Branch(Result(e), body, exit)
             nodes == h.code \o e.code
             f == [k |-> "while", cond |-> cond, body |-> body, exit |-> exit,
                   base |-> h.ctx.env, step |-> step]
  <1>1. /\ blocks' = [mid EXCEPT ![cond] = [nodes |-> nodes, term |-> t]]
        /\ cur' = body /\ frames' = Append(frames, f) /\ blk' = blk + 3 /\ UNCHANGED status
    BY DEF Open, Body, CFP!WhileCond, CFP!WhileBody, CFP!WhileExit
  <1>2. AreBlocks(blocks) /\ cur \in DOMAIN blocks /\ IsStack(frames, DOMAIN blocks)
    BY DEF Shape
  <1>3. /\ IsFrame(f, DOMAIN blocks \cup labels)
        /\ Abstract(f) = [k |-> "while", to |-> cond, next |-> exit]
    BY DEF IsFrame, Abstract, CFP!WhileCond
  <1>4. labels \cap DOMAIN blocks = {} /\ cond # body /\ cond # exit
    <2>1. CFP!ControlFlowAssumption
      BY LoweringAssumption DEF CFP!ControlFlowAssumption
    <2>. QED
      BY <2>1, CFP!FreshLabels DEF GraphOf
  <1>5. Jump(cond).k # "none" /\ Range(Jump(cond).to) = {cond}
    BY DEF Jump, Term, Range
  <1>6. t.k # "none" /\ Range(t.to) = {body, exit}
    BY DEF Branch, Term, Range
  <1>. HIDE DEF f, t, nodes, cond, body, exit
  <1>7. Writes(blocks, bs, cur, code) /\ Ends(blocks, bs, cur, Jump(cond)) /\ AreBlocks(bs)
    <2>. HIDE DEF labels, h, e, mid
    <2>. QED
      BY <1>2, <1>5, EndEffect
  <1>. HIDE DEF bs
  <1>8. Added(bs, mid, labels) /\ AreBlocks(mid)
    <2>. HIDE DEF labels
    <2>. QED
      BY <1>7, BlocksAdded
  <1>9. Opened(blocks, mid, cur, {cond}, labels)
    <2>. HIDE DEF labels, mid
    <2>. QED
      BY <1>2, <1>5, <1>7, <1>8, BlocksOpened
  <1>. HIDE DEF mid
  <1>10. Fills(mid, blocks', cond, nodes) /\ Ends(mid, blocks', cond, t) /\ AreBlocks(blocks')
    <2>1. cond \in DOMAIN mid
      BY <1>8 DEF Added
    <2>. HIDE DEF labels
    <2>. QED
      BY <1>1, <1>6, <1>8, <2>1, FillEffect
  <1>11. LoopGraph(blocks, blocks', cur, cond, body, exit)
    BY <1>2, <1>4, <1>6, <1>9, <1>10, LoopOpened
  <1>12. blk + 3 <= 3 * MaxStmts /\ src' \in Seq(Stmts)
         /\ blk + 3 \in Nat /\ blk + 3 <= 3 * Cardinality(Begun')
    BY LabelsLeft
  <1>13. IsStack(frames', DOMAIN blocks \cup labels) /\ Stack' = Append(Stack, Abstract(f))
    <2>. HIDE DEF labels
    <2>. QED
      BY <1>1, <1>2, <1>3, StackPush
  <1>14. Shape'
    BY <1>1, <1>10, <1>11, <1>12, <1>13 DEF Shape, LoopGraph
  <1>15. CFP!OpenWhile
    <2>1. CFP!Push([k |-> "while", to |-> cond, next |-> exit])
      BY <1>3, <1>13 DEF CFP!Push
    <2>. QED
      BY <1>1, <1>11, <1>12, <2>1 DEF CFP!OpenWhile, LoopGraph, cond, body, exit
  <1>16. LoopBlocks(c, code, test, bs, mid)
    BY <1>7, <1>8, <1>10 DEF LoopBlocks, cond, body, exit, t, nodes
  <1>. QED
    BY <1>14, <1>15, <1>16

LEMMA SeqIsFunction ==
  ASSUME NEW T, NEW q \in Seq(T)
  PROVE  q = [i \in 1 .. Len(q) |-> q[i]]
  OBVIOUS

LEMMA StackTop ==
  ASSUME NEW labels, IsStack(frames, labels), frames # <<>>, NEW f, IsFrame(f, labels),
         frames' = Append(Front(frames), f)
  PROVE  IsStack(frames', labels) /\ Stack' = Append(CFP!Pop, Abstract(f))
  <1> DEFINE n == Len(frames)
  <1>1. /\ Front(frames) \in Seq(Range(frames)) /\ Len(Front(frames)) = n - 1 /\ n \in Nat \ {0}
        /\ \A i \in 1 .. n - 1 : Front(frames)[i] = frames[i]
    BY FrontFacts DEF IsStack
  <1>2. frames' \in Seq(Range(frames) \cup {f}) /\ Len(frames') = n /\ DOMAIN frames' = 1 .. n
        /\ frames'[n] = f /\ \A i \in 1 .. n - 1 : frames'[i] = frames[i]
    BY <1>1
  <1>3. \A i \in 1 .. n : IsFrame(frames[i], labels)
    BY DEF IsStack
  <1>. HIDE DEF n
  <1>4. frames' \in Seq(Range(frames'))
    BY <1>2 DEF Range
  <1>5. \A i \in 1 .. n : IsFrame(frames'[i], labels)
    BY <1>1, <1>2, <1>3
  <1>6. Len(Stack) = n /\ \A i \in 1 .. n : Stack[i] = Abstract(frames[i])
    BY StackFacts DEF n
  <1>7. Stack' = Append(CFP!Pop, Abstract(f))
    <2> DEFINE p == CFP!Pop
               q == Append(p, Abstract(f))
    <2>1. /\ Len(p) = n - 1 /\ DOMAIN p = 1 .. n - 1
          /\ \A i \in 1 .. n - 1 : p[i] = Abstract(frames[i])
          /\ p = [i \in 1 .. n - 1 |-> Abstract(frames[i])]
      BY <1>1, <1>6 DEF CFP!Pop
    <2>2. p \in Seq({Abstract(frames[i]) : i \in 1 .. n})
      BY <1>1, <2>1
    <2>. HIDE DEF p
    <2>3. /\ Len(q) = n /\ DOMAIN q = 1 .. n /\ q[n] = Abstract(f)
          /\ \A i \in 1 .. n - 1 : q[i] = Abstract(frames[i])
      BY <1>1, <2>1, <2>2
    <2>7. q = [i \in 1 .. n |-> q[i]]
      <3> DEFINE T == {Abstract(frames[i]) : i \in 1 .. n} \cup {Abstract(f)}
      <3>. HIDE DEF T
      <3>1. Abstract(f) \in T /\ p \in Seq(T)
        BY <2>2 DEF T
      <3>2. q \in Seq(T)
        BY <3>1
      <3>. HIDE DEF q
      <3>. QED
        BY <2>3, <3>2, SeqIsFunction
    <2>. HIDE DEF q
    <2>4. \A i \in 1 .. n : Abstract(frames'[i]) = q[i]
      BY <1>1, <1>2, <2>3
    <2>5. Stack' = [i \in 1 .. n |-> Abstract(frames'[i])]
      BY <1>2 DEF Stack
    <2>6. Stack' = q
      BY <2>4, <2>5, <2>7
    <2>. QED
      BY <2>6 DEF p, q
  <1>. QED
    BY <1>2, <1>4, <1>5, <1>7 DEF IsStack

\* The innermost statement is the one that ends.
LEMMA TopFacts ==
  ASSUME Shape, frames # <<>>
  PROVE  LET f == Last(frames)
         IN  /\ IsStack(frames, DOMAIN blocks) /\ AreBlocks(blocks) /\ cur \in DOMAIN blocks
             /\ IsFrame(f, DOMAIN blocks)
             /\ Stack # <<>> /\ CFP!Top = Abstract(f)
             /\ f.k \in {"then", "else"} =>
                  /\ {f.then, f.else, f.join} \subseteq DOMAIN blocks
                  /\ DOMAIN f = {"k", "then", "else", "join", "base", "left"}
                  /\ f.join[1] = "if_join"
             /\ f.k = "while" =>
                  /\ {f.cond, f.body, f.exit} \subseteq DOMAIN blocks
                  /\ f.cond[1] = "while_cond"
                  /\ f.step # <<>> => IsSimple(f.step[1])
  <1>1. IsStack(frames, DOMAIN blocks) /\ AreBlocks(blocks) /\ cur \in DOMAIN blocks
    BY DEF Shape
  <1>2. IsFrame(Last(frames), DOMAIN blocks) /\ Stack # <<>> /\ CFP!Top = Abstract(Last(frames))
    BY <1>1, StackFacts
  <1>. QED
    BY <1>1, <1>2 DEF IsFrame

LEMMA BeginElseStep ==
  ASSUME Shape, NEW s \in Stmts, BeginElse(s)
  PROVE  /\ Shape' /\ CFP!BeginElse
         /\ FallsTo(blocks, blocks', cur, Last(frames).join)
  <1> DEFINE f == Last(frames)
             g == [f EXCEPT !.k = "else", !.left = ctx.env]
  <1>1. /\ Lower(s) /\ frames # <<>> /\ f.k = "then"
        /\ blocks' = FallTo(blocks, cur, f.join) /\ cur' = f.else
        /\ frames' = Append(Front(frames), g) /\ UNCHANGED <<status, blk>>
    BY DEF BeginElse, InFrame
  <1>2. /\ IsStack(frames, DOMAIN blocks) /\ AreBlocks(blocks) /\ cur \in DOMAIN blocks
        /\ Stack # <<>> /\ CFP!Top = Abstract(f)
        /\ {f.then, f.else, f.join} \subseteq DOMAIN blocks
        /\ DOMAIN f = {"k", "then", "else", "join", "base", "left"} /\ f.join[1] = "if_join"
    BY <1>1, TopFacts
  <1>3. /\ CFP!Top.k = "then" /\ CFP!Top.to = f.join /\ CFP!Top.next = f.else
    BY <1>1, <1>2 DEF Abstract
  <1>4. /\ IsFrame(g, DOMAIN blocks)
        /\ Abstract(g) = [k |-> "else", to |-> f.join, next |-> f.join]
    BY <1>2 DEF IsFrame, Abstract
  <1>. HIDE DEF f, g
  <1>5. /\ FallsTo(blocks, blocks', cur, f.join)
        /\ GraphOf(blocks') = IF cur \in OpenIn(blocks)
                              THEN [GraphOf(blocks) EXCEPT ![cur] = {f.join}] ELSE GraphOf(blocks)
        /\ OpenIn(blocks') = OpenIn(blocks) \ {cur}
    BY <1>1, <1>2, FallEffect
  <1>6. DOMAIN blocks' = DOMAIN blocks /\ AreBlocks(blocks')
    BY <1>5 DEF FallsTo, KeepsNodes
  <1>7. IsStack(frames', DOMAIN blocks) /\ Stack' = Append(CFP!Pop, Abstract(g))
    BY <1>1, <1>2, <1>4, StackTop
  <1>8. Shape'
    BY <1>1, <1>2, <1>6, <1>7, SrcFacts DEF Shape, Lower
  <1>9. CFP!FallTo(f.join)
    BY <1>5 DEF CFP!FallTo
  <1>10. CFP!BeginElse
    BY <1>1, <1>2, <1>3, <1>4, <1>7, <1>9 DEF CFP!BeginElse
  <1>. QED
    BY <1>5, <1>8, <1>10 DEF f

LEMMA CloseIfStep ==
  ASSUME Shape, NEW s \in Stmts, CloseIf(s)
  PROVE  LET f == Last(frames)
             bs == FallTo(blocks, cur, f.join)
         IN  /\ Shape' /\ CFP!Close
             /\ FallsTo(blocks, bs, cur, f.join)
             /\ Writes(bs, blocks', f.join, Merge(f, ctx.env, ctx).code)
             /\ KeepsTerms(bs, blocks')
  <1> DEFINE f == Last(frames)
             bs == FallTo(blocks, cur, f.join)
             code == Merge(f, ctx.env, ctx).code
  <1>1. /\ Lower(s) /\ frames # <<>> /\ f.k = "else"
        /\ blocks' = [bs EXCEPT ![f.join].nodes = @ \o code] /\ cur' = f.join
        /\ frames' = Front(frames) /\ UNCHANGED <<status, blk>>
    BY DEF CloseIf, InFrame
  <1>2. /\ IsStack(frames, DOMAIN blocks) /\ AreBlocks(blocks) /\ cur \in DOMAIN blocks
        /\ Stack # <<>> /\ CFP!Top = Abstract(f) /\ f.join \in DOMAIN blocks
    BY <1>1, TopFacts
  <1>3. /\ CFP!Top.k = "else" /\ CFP!Top.to = f.join /\ CFP!Top.next = f.join
    BY <1>1, <1>2 DEF Abstract
  <1>. HIDE DEF f, code
  <1>4. /\ FallsTo(blocks, bs, cur, f.join)
        /\ GraphOf(bs) = IF cur \in OpenIn(blocks)
                              THEN [GraphOf(blocks) EXCEPT ![cur] = {f.join}] ELSE GraphOf(blocks)
        /\ OpenIn(bs) = OpenIn(blocks) \ {cur}
    BY <1>2, FallEffect
  <1>. HIDE DEF bs
  <1>5. DOMAIN bs = DOMAIN blocks /\ AreBlocks(bs)
    BY <1>4 DEF FallsTo, KeepsNodes
  <1>6. /\ Writes(bs, blocks', f.join, code) /\ KeepsTerms(bs, blocks') /\ AreBlocks(blocks')
    BY <1>1, <1>2, <1>5, WriteEffect
  <1>7. DOMAIN blocks' = DOMAIN blocks /\ GraphOf(blocks') = GraphOf(bs)
        /\ OpenIn(blocks') = OpenIn(bs)
    BY <1>5, <1>6, TermsKept DEF KeepsTerms
  <1>8. IsStack(frames', DOMAIN blocks) /\ Stack' = CFP!Pop
    BY <1>1, <1>2, StackPop
  <1>9. Shape'
    BY <1>1, <1>2, <1>6, <1>7, <1>8, SrcFacts DEF Shape, Lower
  <1>10. CFP!FallTo(f.join)
    BY <1>4, <1>7 DEF CFP!FallTo
  <1>11. CFP!Close
    BY <1>1, <1>2, <1>3, <1>8, <1>10 DEF CFP!Close
  <1>. QED
    BY <1>4, <1>6, <1>9, <1>11 DEF f, bs, code

\* What CloseLoop does to the blocks: bs1 has the step, bs2 the jump back.
LoopClosed(f, bs1, bs2) ==
  LET r == LowerStep(f)
  IN  /\ Writes(blocks, bs1, cur, r.code) /\ KeepsTerms(blocks, bs1)
      /\ FallsTo(bs1, bs2, cur, f.cond)
      /\ Fills(bs2, blocks', f.cond, Patch(f, bs2[f.cond].nodes, r.ctx.env))
      /\ KeepsTerms(bs2, blocks')

LEMMA PatchEffect ==
  ASSUME NEW bs, AreBlocks(bs), NEW l \in DOMAIN bs, NEW f, NEW env
  PROVE  LET bs2 == [bs EXCEPT ![l].nodes = Patch(f, @, env)]
         IN  /\ Fills(bs, bs2, l, Patch(f, bs[l].nodes, env)) /\ KeepsTerms(bs, bs2)
             /\ AreBlocks(bs2)
  <1> DEFINE code == Patch(f, bs[l].nodes, env)
             bs2 == [bs EXCEPT ![l].nodes = code]
  <1>. HIDE DEF code
  <1>1. /\ DOMAIN bs2 = DOMAIN bs
        /\ \A m \in DOMAIN bs \ {l} : bs2[m] = bs[m]
        /\ DOMAIN bs2[l] = {"nodes", "term"}
        /\ bs2[l].nodes = code /\ bs2[l].term = bs[l].term
    BY DEF AreBlocks, IsBlock
  <1>. HIDE DEF bs2
  <1>2. Fills(bs, bs2, l, code) /\ KeepsTerms(bs, bs2) /\ AreBlocks(bs2)
    BY <1>1 DEF Fills, KeepsTerms, AreBlocks, IsBlock
  <1>. QED
    BY <1>2 DEF bs2, code

LEMMA CloseLoopStep ==
  ASSUME Shape, NEW s \in Stmts, CloseLoop(s)
  PROVE  /\ Shape' /\ CFP!Close
         /\ \E bs1, bs2 : LoopClosed(Last(frames), bs1, bs2)
  <1> DEFINE f == Last(frames)
             r == LowerStep(f)
             bs1 == Append1(cur, r.code)
             bs2 == FallTo(bs1, cur, f.cond)
  <1>1. /\ Lower(s) /\ frames # <<>> /\ f.k = "while"
        /\ blocks' = [bs2 EXCEPT ![f.cond].nodes = Patch(f, @, r.ctx.env)] /\ cur' = f.exit
        /\ frames' = Front(frames) /\ UNCHANGED <<status, blk>>
    BY DEF CloseLoop, InFrame
  <1>2. /\ IsStack(frames, DOMAIN blocks) /\ AreBlocks(blocks) /\ cur \in DOMAIN blocks
        /\ Stack # <<>> /\ CFP!Top = Abstract(f) /\ {f.cond, f.exit} \subseteq DOMAIN blocks
    BY <1>1, TopFacts
  <1>3. /\ CFP!Top.k = "while" /\ CFP!Top.to = f.cond /\ CFP!Top.next = f.exit
    BY <1>1, <1>2 DEF Abstract
  <1>. HIDE DEF f, r
  <1>4. Writes(blocks, bs1, cur, r.code) /\ KeepsTerms(blocks, bs1) /\ AreBlocks(bs1)
    BY <1>2, WriteEffect DEF Append1
  <1>. HIDE DEF bs1
  <1>5. DOMAIN bs1 = DOMAIN blocks /\ GraphOf(bs1) = GraphOf(blocks)
        /\ OpenIn(bs1) = OpenIn(blocks)
    BY <1>4, TermsKept DEF KeepsTerms
  <1>6. /\ FallsTo(bs1, bs2, cur, f.cond)
        /\ GraphOf(bs2) = IF cur \in OpenIn(bs1)
                              THEN [GraphOf(bs1) EXCEPT ![cur] = {f.cond}] ELSE GraphOf(bs1)
        /\ OpenIn(bs2) = OpenIn(bs1) \ {cur}
    BY <1>2, <1>4, <1>5, FallEffect
  <1>. HIDE DEF bs2
  <1>7. DOMAIN bs2 = DOMAIN blocks /\ AreBlocks(bs2)
    BY <1>5, <1>6 DEF FallsTo, KeepsNodes
  <1>8. /\ Fills(bs2, blocks', f.cond, Patch(f, bs2[f.cond].nodes, r.ctx.env))
        /\ KeepsTerms(bs2, blocks') /\ AreBlocks(blocks')
    BY <1>1, <1>2, <1>7, PatchEffect
  <1>9. DOMAIN blocks' = DOMAIN blocks /\ GraphOf(blocks') = GraphOf(bs2)
        /\ OpenIn(blocks') = OpenIn(bs2)
    BY <1>7, <1>8, TermsKept DEF KeepsTerms
  <1>10. IsStack(frames', DOMAIN blocks) /\ Stack' = CFP!Pop
    BY <1>1, <1>2, StackPop
  <1>11. Shape'
    BY <1>1, <1>2, <1>8, <1>9, <1>10, SrcFacts DEF Shape, Lower
  <1>12. CFP!FallTo(f.cond)
    BY <1>5, <1>6, <1>9 DEF CFP!FallTo
  <1>13. CFP!Close
    BY <1>1, <1>2, <1>3, <1>10, <1>12 DEF CFP!Close
  <1>14. LoopClosed(f, bs1, bs2)
    BY <1>4, <1>6, <1>8 DEF LoopClosed, r
  <1>. QED
    BY <1>11, <1>13, <1>14 DEF f

LEMMA RaiseStep ==
  ASSUME Shape, NEW s \in Stmts, Raise(s)
  PROVE  Shape' /\ CFP!Raise
  <1>1. Shape'
    BY SrcFacts DEF Shape, Raise, Lower
  <1>2. CFP!Raise
    BY DEF Raise, CFP!Raise, Stack
  <1>. QED
    BY <1>1, <1>2

LEMMA FinishStep ==
  ASSUME Shape, Finish
  PROVE  /\ Shape' /\ (CFP!Finish \/ CFP!Raise)
         /\ \/ blocks' = blocks
            \/ KeepsNodes(blocks, blocks') /\ Ends(blocks, blocks', cur, Return(<<>>))
         /\ UNCHANGED <<order, cur, frames, ctx>>
  <1>1. frames = <<>> /\ Stack = <<>> /\ UNCHANGED <<src, order, cur, frames, blk, ctx>>
    BY DEF Finish, Stack
  <1>2. Stack' = Stack /\ Begun' = Begun
    BY <1>1 DEF Stack, Begun
  <1>3. CASE blocks' = blocks
    <2>1. Shape'
      BY <1>1, <1>2, <1>3 DEF Shape, Finish
    <2>2. CASE status' = "rejected"
      BY <1>1, <1>2, <1>3, <2>1, <2>2 DEF CFP!Raise
    <2>3. CASE status' # "rejected"
      <3>1. blocks[cur].term.k # "none" /\ status' = "done"
        <4>. SUFFICES ASSUME blocks[cur].term.k = "none" PROVE FALSE
          BY <2>3 DEF Finish
        <4>1. blocks' = [blocks EXCEPT ![cur].term = Return(<<>>)]
          BY <2>3 DEF Finish
        <4>2. blocks'[cur].term = Return(<<>>)
          BY <4>1 DEF Shape, AreBlocks, IsBlock
        <4>. QED
          BY <1>3, <4>2 DEF Return, Term
      <3>2. cur \notin OpenIn(blocks)
        BY <3>1 DEF OpenIn
      <3>3. CFP!Finish
        BY <1>1, <1>2, <1>3, <3>1, <3>2 DEF CFP!Finish
      <3>. QED
        BY <1>1, <1>3, <2>1, <3>3
    <2>. QED
      BY <2>2, <2>3
  <1>4. CASE blocks' # blocks
    <2>1. /\ blocks[cur].term.k = "none" /\ RetType = "void" /\ status' = "done"
          /\ blocks' = [blocks EXCEPT ![cur].term = Return(<<>>)]
      BY <1>4 DEF Finish
    <2>2. AreBlocks(blocks) /\ cur \in DOMAIN blocks
      BY DEF Shape
    <2>3. Return(<<>>).k # "none" /\ Range(Return(<<>>).to) = {}
      BY DEF Return, Term, Range
    <2>4. /\ DOMAIN blocks' = DOMAIN blocks
          /\ \A k \in DOMAIN blocks \ {cur} : blocks'[k] = blocks[k]
          /\ DOMAIN blocks'[cur] = {"nodes", "term"}
          /\ blocks'[cur].nodes = blocks[cur].nodes /\ blocks'[cur].term = Return(<<>>)
      BY <2>1, <2>2 DEF AreBlocks, IsBlock
    <2>5. KeepsNodes(blocks, blocks') /\ Ends(blocks, blocks', cur, Return(<<>>))
          /\ AreBlocks(blocks')
      BY <2>2, <2>3, <2>4 DEF KeepsNodes, Ends, AreBlocks, IsBlock
    <2>6. Shape'
      BY <1>1, <1>2, <2>1, <2>4, <2>5 DEF Shape
    <2>7. GraphOf(blocks') = GraphOf(blocks)
      <3>1. Range(blocks[cur].term.to) = {}
        BY <2>1, <2>2 DEF AreBlocks, IsBlock, NoTerm, Term, Range
      <3>. QED
        BY <2>3, <2>4, <3>1 DEF GraphOf, Succ
    <2>8. OpenIn(blocks') = OpenIn(blocks) \ {cur}
      BY <2>3, <2>4 DEF OpenIn
    <2>9. CFP!Finish
      BY <1>1, <1>2, <2>1, <2>7, <2>8 DEF CFP!Finish
    <2>. QED
      BY <1>1, <2>5, <2>6, <2>9
  <1>. QED
    BY <1>3, <1>4

\* What the actions that open a loop have in common.
LEMMA OpenWhileStep ==
  ASSUME Shape, CFP!TypeOK, More, NEW s \in Stmts, s.s = "while", OpenWhile(s)
  PROVE  /\ Shape' /\ CFP!OpenWhile
         /\ \E bs, mid : LoopBlocks(ctx, <<>>, s.expr, bs, mid)
  <1>1. Lower(s) /\ Open(ctx, <<>>, s.expr, <<>>) /\ ~IsElseOrEnd(s)
    BY DEF OpenWhile, IsElseOrEnd
  <1>2. <<>> # <<>> => IsSimple(<<>>[1])
    OBVIOUS
  <1>. QED
    BY <1>1, <1>2, OpenStep

ForStep(s) == [s |-> "assign", id |-> s.id,
               expr |-> <<Var(s.id)>> \o s.step \o <<[t |-> "binop", op |-> "+"]>>]

LEMMA OpenForStep ==
  ASSUME Shape, CFP!TypeOK, More, NEW s \in Stmts, s.s = "for", OpenFor(s)
  PROVE  LET a == LowerAssign(ctx, s.id, s.start)
         IN  /\ Shape' /\ CFP!OpenWhile
             /\ a.ok /\ Open(a.ctx, a.code, RangeTest(s), <<ForStep(s)>>)
             /\ \E bs, mid : LoopBlocks(a.ctx, a.code, RangeTest(s), bs, mid)
  <1> DEFINE a == LowerAssign(ctx, s.id, s.start)
             step == <<ForStep(s)>>
  <1>1. Lower(s) /\ a.ok /\ Open(a.ctx, a.code, RangeTest(s), step) /\ ~IsElseOrEnd(s)
    BY DEF OpenFor, IsElseOrEnd, ForStep
  <1>2. step # <<>> => IsSimple(step[1])
    BY ForFacts, LoweringAssumption DEF ForStep
  <1>. HIDE DEF a, step
  <1>3. Shape' /\ CFP!OpenWhile /\ \E bs, mid : LoopBlocks(a.ctx, a.code, RangeTest(s), bs, mid)
    BY <1>1, <1>2, OpenStep
  <1>. QED
    BY <1>1, <1>3 DEF a, step

LEMMA ShapeStep ==
  ASSUME Shape, CFP!TypeOK, [Next]_vars
  PROVE  Shape' /\ [CFP!Next]_CFP!vars
  <1>1. CASE UNCHANGED vars
    <2>1. Shape'
      BY <1>1 DEF Shape, vars, Begun
    <2>2. UNCHANGED CFP!vars
      BY <1>1 DEF vars, CFP!vars, Stack
    <2>. QED
      BY <2>1, <2>2
  <1>2. CASE Finish
    BY <1>2, FinishStep DEF Finish, CFP!Next
  <1>3. ASSUME NEW s \in Stmts, Lowers(s) PROVE Shape' /\ [CFP!Next]_CFP!vars
    <2>1. CASE Simple(s)
      BY <2>1, SimpleStep
    <2>2. CASE ReturnStmt(s)
      BY <2>2, ReturnStep DEF ReturnStmt, Lower, CFP!Next
    <2>3. CASE s.s = "if" /\ More /\ OpenIf(s)
      BY <2>3, OpenIfStep DEF OpenIf, Lower, CFP!Next
    <2>4. CASE s.s = "while" /\ More /\ OpenWhile(s)
      BY <2>4, OpenWhileStep DEF OpenWhile, Lower, CFP!Next
    <2>5. CASE s.s = "for" /\ More /\ OpenFor(s)
      BY <2>5, OpenForStep DEF OpenFor, Lower, CFP!Next
    <2>6. CASE BeginElse(s)
      BY <2>6, BeginElseStep DEF BeginElse, Lower, CFP!Next
    <2>7. CASE CloseIf(s)
      BY <2>7, CloseIfStep DEF CloseIf, Lower, CFP!Next
    <2>8. CASE CloseLoop(s)
      BY <2>8, CloseLoopStep DEF CloseLoop, Lower, CFP!Next
    <2>9. CASE Raise(s)
      BY <2>9, RaiseStep DEF Raise, Lower, CFP!Next
    <2>. QED
      BY <1>3, <2>1, <2>2, <2>3, <2>4, <2>5, <2>6, <2>7, <2>8, <2>9 DEF Lowers
  <1>. QED
    BY <1>1, <1>2, <1>3 DEF Next

LEMMA ShapeInit == Init => Shape /\ CFP!Init
  <1>. SUFFICES ASSUME Init PROVE Shape /\ CFP!Init
    OBVIOUS
  <1>1. /\ status = "lowering" /\ src = <<>> /\ blocks = [l \in {Entry} |-> NewBlock]
        /\ cur = Entry /\ frames = <<>> /\ blk = 0
    BY DEF Init
  <1>2. Begun = {} /\ Cardinality(Begun) = 0
    BY <1>1, FS_EmptySet DEF Begun
  <1>3. AreBlocks(blocks) /\ cur \in DOMAIN blocks
    BY <1>1 DEF AreBlocks, IsBlock, NewBlock
  <1>4. IsStack(frames, DOMAIN blocks) /\ Stack = <<>>
    BY <1>1 DEF IsStack, Stack
  <1>5. GraphOf(blocks) = [l \in {Entry} |-> {}] /\ OpenIn(blocks) = {Entry}
    BY <1>1 DEF GraphOf, OpenIn, Succ, NewBlock, NoTerm, Term, Range
  <1>6. Shape
    BY <1>1, <1>2, <1>3, <1>4 DEF Shape
  <1>7. CFP!Init
    BY <1>1, <1>4, <1>5 DEF CFP!Init, CFP!Entry, Entry
  <1>. QED
    BY <1>6, <1>7

GraphInv == Shape /\ CFP!Inv

LEMMA GraphInvInit == Init => GraphInv
  <1>1. CFP!ControlFlowAssumption
    BY LoweringAssumption DEF CFP!ControlFlowAssumption
  <1>. QED
    BY <1>1, ShapeInit, CFP!InitInv DEF GraphInv

LEMMA GraphInvNext == GraphInv /\ [Next]_vars => GraphInv' /\ [CFP!Next]_CFP!vars
  <1>1. CFP!ControlFlowAssumption
    BY LoweringAssumption DEF CFP!ControlFlowAssumption
  <1>2. CFP!Inv => CFP!TypeOK
    BY DEF CFP!Inv
  <1>. QED
    BY <1>1, <1>2, ShapeStep, CFP!NextInv DEF GraphInv

\* The form of the state and the invariant of the block graph hold throughout.
THEOREM GraphIsKept == Spec => []GraphInv
  BY GraphInvInit, GraphInvNext, PTL DEF Spec

\* The lowering of every program builds its blocks as ControlFlow.tla says:
\* nodes, environments and rejected programs never disturb the graph.
THEOREM LoweringBuildsControlFlow == Spec => BuildsControlFlow
  <1>1. Init => CF!Init
    <2>1. CFP!Init => CF!Init
      BY DEF CFP!Init, CF!Init, CFP!Entry, CF!Entry, GraphOf, OpenIn, Stack
    <2>. QED
      BY <2>1, ShapeInit
  <1>2. [CFP!Next]_CFP!vars => [CF!Next]_CF!vars
    <2>1. CFP!Next => CF!Next
      BY DEF CF!Next, CFP!Next, CF!ReturnStmt, CFP!ReturnStmt, CF!OpenIf, CFP!OpenIf,
             CF!OpenWhile, CFP!OpenWhile, CF!BeginElse, CFP!BeginElse, CF!Close, CFP!Close,
             CF!Raise, CFP!Raise, CF!Finish, CFP!Finish, CF!FallTo, CFP!FallTo,
             CF!IfThen, CFP!IfThen, CF!IfElse, CFP!IfElse, CF!IfJoin, CFP!IfJoin,
             CF!WhileCond, CFP!WhileCond, CF!WhileBody, CFP!WhileBody,
             CF!WhileExit, CFP!WhileExit, CF!Push, CFP!Push, CF!Top, CFP!Top, CF!Pop, CFP!Pop,
             GraphOf, OpenIn, Stack
    <2>2. UNCHANGED CFP!vars => UNCHANGED CF!vars
      BY DEF CFP!vars, CF!vars, GraphOf, OpenIn, Stack
    <2>. QED
      BY <2>1, <2>2
  <1>3. GraphInv /\ [Next]_vars => [CF!Next]_CF!vars
    BY <1>2, GraphInvNext
  <1>. QED
    BY <1>1, <1>3, GraphIsKept, PTL DEF Spec, BuildsControlFlow, CF!Spec

-----------------------------------------------------------------------------
(* The code of all blocks.  Names given out are spent: a name is defined by   *)
(* one node of one block, and everything a node, a terminator, a name in      *)
(* scope or a pending statement refers to is an argument or a result.         *)

ArgNames == {v.name : v \in Range(Args)}
KnownIn(bs) == Range(Args) \cup UNION {Results(bs[l].nodes) : l \in DOMAIN bs}
CodeNames(code) == UNION {ResNames(code[i]) : i \in 1 .. Len(code)}

CodeInv(bs, c) ==
  /\ IsContext(c, KnownIn(bs))
  /\ ArgNames \subseteq Given(c)
  /\ \A l \in DOMAIN bs : /\ IsCode(bs[l].nodes, KnownIn(bs))
                          /\ NamesOnce(bs[l].nodes)
                          /\ NamesIn(bs[l].nodes, Given(c) \ ArgNames)
  /\ \A l, m \in DOMAIN bs : l # m => CodeNames(bs[l].nodes) \cap CodeNames(bs[m].nodes) = {}

IsEnv(env, K) == DOMAIN env \subseteq VarNames /\ \A id \in DOMAIN env : env[id] \in K

\* Terminators use known values, and branch on booleans.
TermsInv(bs) ==
  \A l \in DOMAIN bs : LET t == bs[l].term
                       IN  /\ Range(t.uses) \subseteq KnownIn(bs)
                           /\ t.k = "br" => t.uses[1].typ = "bool"

\* A join block waits for the phis of its if; the phis of a condition block wait
\* for the values of the body, each under a name the loop began with.
Owned(nodes, base) ==
  \A i \in 1 .. Len(nodes) :
    nodes[i].op = "phi" => \E id \in DOMAIN base : base[id] \in nodes[i].res

Waits(f, bs) ==
  /\ IsEnv(f.base, KnownIn(bs))
  /\ f.k \in {"then", "else"} => IsEnv(f.left, KnownIn(bs)) /\ bs[f.join].nodes = <<>>
  /\ f.k = "while" => Owned(bs[f.cond].nodes, f.base)

IsOrder(o, D) == o \in Seq(D) /\ Range(o) = D /\ IsInjective(o)
OrderInv == IsOrder(order, DOMAIN blocks)

WaitAll(fs, bs) == \A i \in 1 .. Len(fs) : Waits(fs[i], bs)

IRInv(bs, c) == CodeInv(bs, c) /\ TermsInv(bs) /\ PhisLead(bs)

\* The inductive invariant.
LoweringInv ==
  /\ GraphInv
  /\ OrderInv
  /\ IRInv(blocks, ctx)
  /\ status = "lowering" => WaitAll(frames, blocks)

LEMMA NamesOfFacts ==
  ASSUME NEW a, NEW N
  PROVE  NamesIn(a, N) <=> CodeNames(a) \subseteq N
  BY DEF NamesIn, CodeNames

LEMMA NamesOfBoth ==
  ASSUME NEW a, NEW b, a \in Seq(Range(a)), b \in Seq(Range(b))
  PROVE  CodeNames(a \o b) \subseteq CodeNames(a) \cup CodeNames(b)
  <1>1. /\ Len(a \o b) = Len(a) + Len(b) /\ Len(a) \in Nat /\ Len(b) \in Nat
        /\ \A i \in 1 .. Len(a) : (a \o b)[i] = a[i]
        /\ \A i \in Len(a) + 1 .. Len(a) + Len(b) : (a \o b)[i] = b[i - Len(a)]
    BY Concatenation
  <1>2. ASSUME NEW i \in 1 .. Len(a \o b)
        PROVE  ResNames((a \o b)[i]) \subseteq CodeNames(a) \cup CodeNames(b)
    <2>1. CASE i \in 1 .. Len(a)
      BY <1>1, <2>1 DEF CodeNames
    <2>2. CASE i \in Len(a) + 1 .. Len(a) + Len(b)
      <3>1. i - Len(a) \in 1 .. Len(b) /\ (a \o b)[i] = b[i - Len(a)]
        BY <1>1, <2>2
      <3>. QED
        BY <3>1 DEF CodeNames
    <2>. QED
      BY <1>1, <2>1, <2>2
  <1>. QED
    BY <1>2 DEF CodeNames

\* Code that is added to a block, and takes the context from c to c2.
LEMMA CodeWritten ==
  ASSUME NEW bs, NEW c, CodeInv(bs, c), NEW l \in DOMAIN bs, NEW code, NEW c2,
         EmitsCode(c, KnownIn(bs), code, c2), NEW bs2, Writes(bs, bs2, l, code)
  PROVE  CodeInv(bs2, c2) /\ KnownIn(bs2) = KnownIn(bs) \cup Results(code)
  <1> DEFINE K == KnownIn(bs)
             L == K \cup Results(code)
  <1>1. /\ IsCode(code, L) /\ NamesOnce(code) /\ NamesIn(code, Given(c2) \ Given(c))
        /\ Given(c) \subseteq Given(c2) /\ IsContext(c2, L)
    BY DEF EmitsCode
  <1>2. /\ ArgNames \subseteq Given(c) /\ IsCode(bs[l].nodes, K) /\ NamesOnce(bs[l].nodes)
        /\ NamesIn(bs[l].nodes, Given(c) \ ArgNames)
    BY DEF CodeInv
  <1>3. code \in Seq(Range(code)) /\ bs[l].nodes \in Seq(Range(bs[l].nodes))
    BY <1>1, <1>2 DEF IsCode
  <1>4. /\ DOMAIN bs2 = DOMAIN bs /\ bs2[l].nodes = bs[l].nodes \o code
        /\ \A m \in DOMAIN bs \ {l} : bs2[m].nodes = bs[m].nodes
    BY DEF Writes
  <1>5. KnownIn(bs2) = L
    <2>1. Results(bs2[l].nodes) = Results(bs[l].nodes) \cup Results(code)
      BY <1>3, <1>4, ResultsOfBoth
    <2>. QED
      BY <1>4, <2>1 DEF KnownIn
  <1>. HIDE DEF K, L
  <1>6. K \subseteq L
    BY DEF L
  <1>7. IsCode(bs[l].nodes, L)
    BY <1>2, <1>6, CodeMonotone
  <1>8. IsCode(bs2[l].nodes, L)
    BY <1>1, <1>4, <1>7, CodeOfBoth
  <1>9. CodeNames(code) \subseteq Given(c2) \ Given(c)
        /\ CodeNames(bs[l].nodes) \subseteq Given(c) \ ArgNames
    BY <1>1, <1>2, NamesOfFacts
  <1>10. CodeNames(bs2[l].nodes) \subseteq CodeNames(bs[l].nodes) \cup CodeNames(code)
    BY <1>3, <1>4, NamesOfBoth
  <1>11. NamesOnce(bs2[l].nodes)
    <2> DEFINE M == Given(c) \ ArgNames
               N == Given(c2) \ Given(c)
    <2>1. M \cap N = {}
      OBVIOUS
    <2>2. NamesIn(bs[l].nodes, M) /\ NamesIn(code, N)
      BY <1>1, <1>2
    <2>. HIDE DEF M, N
    <2>. QED
      BY <1>1, <1>2, <1>4, <1>7, <2>1, <2>2, NamesOnceInBoth
  <1>12. NamesIn(bs2[l].nodes, Given(c2) \ ArgNames)
    <2>1. CodeNames(bs2[l].nodes) \subseteq Given(c2) \ ArgNames
      BY <1>1, <1>2, <1>9, <1>10
    <2>. QED
      BY <2>1, NamesOfFacts
  <1>13. ASSUME NEW m \in DOMAIN bs2, m # l
         PROVE  /\ IsCode(bs2[m].nodes, L) /\ NamesOnce(bs2[m].nodes)
                /\ NamesIn(bs2[m].nodes, Given(c2) \ ArgNames)
                /\ CodeNames(bs2[m].nodes) \cap CodeNames(bs2[l].nodes) = {}
    <2>1. m \in DOMAIN bs /\ bs2[m].nodes = bs[m].nodes
      BY <1>4, <1>13
    <2>2. /\ IsCode(bs[m].nodes, K) /\ NamesOnce(bs[m].nodes)
          /\ NamesIn(bs[m].nodes, Given(c) \ ArgNames)
          /\ CodeNames(bs[m].nodes) \cap CodeNames(bs[l].nodes) = {}
      BY <1>13, <2>1 DEF CodeInv, K
    <2>3. IsCode(bs[m].nodes, L)
      BY <1>6, <2>2, CodeMonotone
    <2>4. CodeNames(bs[m].nodes) \subseteq Given(c) \ ArgNames
      BY <2>2, NamesOfFacts
    <2>5. CodeNames(bs[m].nodes) \subseteq Given(c2) \ ArgNames
      BY <1>1, <2>4
    <2>6. NamesIn(bs[m].nodes, Given(c2) \ ArgNames)
      BY <2>5, NamesOfFacts
    <2>7. CodeNames(bs[m].nodes) \cap CodeNames(bs2[l].nodes) = {}
      BY <1>9, <1>10, <2>2, <2>4
    <2>. QED
      BY <2>1, <2>2, <2>3, <2>6, <2>7
  <1>14. ASSUME NEW m \in DOMAIN bs2, NEW n \in DOMAIN bs2, m # n
         PROVE  CodeNames(bs2[m].nodes) \cap CodeNames(bs2[n].nodes) = {}
    <2>1. CASE m = l
      BY <1>13, <1>14, <2>1
    <2>2. CASE n = l
      BY <1>13, <1>14, <2>2
    <2>3. CASE m # l /\ n # l
      BY <1>4, <1>14, <2>3 DEF CodeInv
    <2>. QED
      BY <2>1, <2>2, <2>3
  <1>15. CodeInv(bs2, c2)
    <2>1. IsContext(c2, KnownIn(bs2)) /\ ArgNames \subseteq Given(c2)
      BY <1>1, <1>2, <1>5
    <2>2. \A m \in DOMAIN bs2 : /\ IsCode(bs2[m].nodes, KnownIn(bs2)) /\ NamesOnce(bs2[m].nodes)
                                /\ NamesIn(bs2[m].nodes, Given(c2) \ ArgNames)
      BY <1>5, <1>8, <1>11, <1>12, <1>13
    <2>. QED
      BY <1>14, <2>1, <2>2 DEF CodeInv
  <1>. QED
    BY <1>5, <1>15 DEF L, K

\* Other terminators, and new blocks, leave the code as it is.
LEMMA CodeKept ==
  ASSUME NEW bs, NEW c, CodeInv(bs, c), NEW bs2, KeepsNodes(bs, bs2)
  PROVE  CodeInv(bs2, c) /\ KnownIn(bs2) = KnownIn(bs)
  <1>1. KnownIn(bs2) = KnownIn(bs)
    BY DEF KnownIn, KeepsNodes
  <1>. QED
    BY <1>1 DEF CodeInv, KeepsNodes

LEMMA CodeAdded ==
  ASSUME NEW bs, NEW c, CodeInv(bs, c), NEW labels, labels \cap DOMAIN bs = {},
         NEW bs2, Added(bs, bs2, labels)
  PROVE  CodeInv(bs2, c) /\ KnownIn(bs2) = KnownIn(bs)
  <1>1. /\ DOMAIN bs2 = DOMAIN bs \cup labels /\ \A l \in labels : bs2[l].nodes = <<>>
        /\ \A l \in DOMAIN bs : bs2[l].nodes = bs[l].nodes
    BY DEF Added, NewBlock
  <1>2. /\ Results(<<>>) = {} /\ CodeNames(<<>>) = {}
        /\ \A K : IsCode(<<>>, K) /\ NamesOnce(<<>>) /\ \A N : NamesIn(<<>>, N)
    BY DEF Results, Range, CodeNames, IsCode, NamesOnce, NamesIn
  <1>3. KnownIn(bs2) = KnownIn(bs)
    BY <1>1, <1>2 DEF KnownIn
  <1>4. /\ IsContext(c, KnownIn(bs2)) /\ ArgNames \subseteq Given(c)
    BY <1>3 DEF CodeInv
  <1>5. ASSUME NEW l \in DOMAIN bs2
        PROVE  /\ IsCode(bs2[l].nodes, KnownIn(bs2)) /\ NamesOnce(bs2[l].nodes)
               /\ NamesIn(bs2[l].nodes, Given(c) \ ArgNames)
    <2>1. CASE l \in labels
      BY <1>1, <1>2, <2>1
    <2>2. CASE l \in DOMAIN bs
      BY <1>1, <1>3, <2>2 DEF CodeInv
    <2>. QED
      BY <1>1, <2>1, <2>2
  <1>6. ASSUME NEW l \in DOMAIN bs2, NEW m \in DOMAIN bs2, l # m
        PROVE  CodeNames(bs2[l].nodes) \cap CodeNames(bs2[m].nodes) = {}
    <2>1. CASE l \in labels \/ m \in labels
      BY <1>1, <1>2, <2>1
    <2>2. CASE l \in DOMAIN bs /\ m \in DOMAIN bs
      BY <1>1, <1>6, <2>2 DEF CodeInv
    <2>. QED
      BY <1>1, <2>1, <2>2
  <1>7. CodeInv(bs2, c)
    BY <1>4, <1>5, <1>6 DEF CodeInv
  <1>. QED
    BY <1>3, <1>7

\* Nodes that are changed in place keep their results.
LEMMA CodeChanged ==
  ASSUME NEW bs, NEW c, CodeInv(bs, c), NEW l \in DOMAIN bs, NEW code,
         IsCode(code, KnownIn(bs)), Len(code) = Len(bs[l].nodes),
         \A i \in 1 .. Len(code) : code[i].res = bs[l].nodes[i].res,
         NEW bs2, Fills(bs, bs2, l, code)
  PROVE  CodeInv(bs2, c) /\ KnownIn(bs2) = KnownIn(bs)
  <1> DEFINE nodes == bs[l].nodes
  <1>1. /\ DOMAIN bs2 = DOMAIN bs /\ bs2[l].nodes = code
        /\ \A m \in DOMAIN bs \ {l} : bs2[m].nodes = bs[m].nodes
    BY DEF Fills
  <1>2. IsCode(nodes, KnownIn(bs)) /\ NamesOnce(nodes) /\ NamesIn(nodes, Given(c) \ ArgNames)
    BY DEF CodeInv
  <1>3. code \in Seq(Range(code)) /\ nodes \in Seq(Range(nodes))
    BY <1>2 DEF IsCode
  <1>4. Results(code) = Results(nodes)
    <2>. HIDE DEF nodes
    <2>1. /\ Len(code) \in Nat /\ DOMAIN code = 1 .. Len(code) /\ DOMAIN nodes = 1 .. Len(code)
          /\ \A i \in 1 .. Len(code) : code[i].res = nodes[i].res
      BY <1>3 DEF nodes
    <2>. QED
      BY <2>1 DEF Results, Range
  <1>5. CodeNames(code) = CodeNames(nodes)
    BY DEF CodeNames, ResNames
  <1>6. NamesOnce(code) /\ NamesIn(code, Given(c) \ ArgNames)
    BY <1>2 DEF NamesOnce, NamesIn, ResNames
  <1>7. KnownIn(bs2) = KnownIn(bs)
    <2>1. \A m \in DOMAIN bs : Results(bs2[m].nodes) = Results(bs[m].nodes)
      BY <1>1, <1>4
    <2>. QED
      BY <1>1, <2>1 DEF KnownIn
  <1>8. \A m \in DOMAIN bs : CodeNames(bs2[m].nodes) = CodeNames(bs[m].nodes)
    BY <1>1, <1>5
  <1>9. /\ IsContext(c, KnownIn(bs2)) /\ ArgNames \subseteq Given(c)
    BY <1>7 DEF CodeInv
  <1>10. ASSUME NEW m \in DOMAIN bs2
         PROVE  /\ IsCode(bs2[m].nodes, KnownIn(bs2)) /\ NamesOnce(bs2[m].nodes)
                /\ NamesIn(bs2[m].nodes, Given(c) \ ArgNames)
    <2>1. CASE m = l
      BY <1>1, <1>6, <1>7, <2>1
    <2>2. CASE m # l
      BY <1>1, <1>7, <2>2 DEF CodeInv
    <2>. QED
      BY <2>1, <2>2
  <1>11. \A m, n \in DOMAIN bs2 : m # n => CodeNames(bs2[m].nodes) \cap CodeNames(bs2[n].nodes) = {}
    BY <1>1, <1>8 DEF CodeInv
  <1>12. CodeInv(bs2, c)
    BY <1>9, <1>10, <1>11 DEF CodeInv
  <1>. QED
    BY <1>7, <1>12

\* The environment alone changes, to known values.
LEMMA EnvChanged ==
  ASSUME NEW bs, NEW c, CodeInv(bs, c), NEW env, IsEnv(env, KnownIn(bs))
  PROVE  CodeInv(bs, [c EXCEPT !.env = env])
  <1> DEFINE c2 == [c EXCEPT !.env = env]
  <1>1. IsContext(c, KnownIn(bs))
    BY DEF CodeInv
  <1>2. /\ DOMAIN c2 = DOMAIN c /\ c2.env = env /\ c2.arrays = c.arrays
        /\ c2.tmp = c.tmp /\ c2.ver = c.ver
    BY <1>1 DEF IsContext
  <1>. HIDE DEF c2
  <1>3. IsContext(c2, KnownIn(bs))
    BY <1>1, <1>2 DEF IsContext, IsEnv
  <1>4. Given(c2) = Given(c)
    BY <1>2 DEF Given
  <1>5. CodeInv(bs, c2)
    BY <1>3, <1>4 DEF CodeInv
  <1>. QED
    BY <1>5 DEF c2

-----------------------------------------------------------------------------
(* The phis of a join and of a condition block.                               *)

LEMMA AppendOther ==
  ASSUME NEW T, NEW s \in Seq(T), IsInjective(s), NEW e \in T, e \notin Range(s)
  PROVE  /\ Append(s, e) \in Seq(T) /\ IsInjective(Append(s, e))
         /\ Range(Append(s, e)) = Range(s) \cup {e}
  <1> DEFINE n == Len(s)
             t == Append(s, e)
  <1>1. /\ t \in Seq(T) /\ n \in Nat /\ DOMAIN s = 1 .. n /\ DOMAIN t = 1 .. n + 1
        /\ t[n + 1] = e /\ \A i \in 1 .. n : t[i] = s[i]
    OBVIOUS
  <1>. HIDE DEF t, n
  <1>2. Range(t) = Range(s) \cup {e}
    <2>1. Range(t) = {t[i] : i \in 1 .. n + 1} /\ Range(s) = {s[i] : i \in 1 .. n}
      BY <1>1 DEF Range
    <2>2. 1 .. n + 1 = 1 .. n \cup {n + 1}
      BY <1>1
    <2>. QED
      BY <1>1, <2>1, <2>2
  <1>3. IsInjective(t)
    <2>1. ASSUME NEW i \in 1 .. n PROVE t[i] # e
      BY <1>1, <2>1 DEF Range
    <2>2. ASSUME NEW i \in DOMAIN t, NEW j \in DOMAIN t, t[i] = t[j] PROVE i = j
      <3>1. CASE i \in 1 .. n /\ j \in 1 .. n
        BY <1>1, <2>2, <3>1 DEF IsInjective
      <3>2. CASE i = n + 1 \/ j = n + 1
        BY <1>1, <2>1, <2>2, <3>2
      <3>. QED
        BY <1>1, <3>1, <3>2
    <2>. QED
      BY <2>2 DEF IsInjective
  <1>. QED
    BY <1>1, <1>2, <1>3 DEF t

KeptN(p) == Len(p[1])
KeptBase(p) == <<>>
KeptOp(p, a, i) == IF p[1][i] \in p[2] THEN Append(a, p[1][i]) ELSE a
Kept == INSTANCE Recursion WITH N <- KeptN, Base <- KeptBase, Op <- KeptOp

\* Each element of seq that is in S, once.
FilterOf(seq, S, r) == r \in Seq(Range(r)) /\ Range(r) = Range(seq) \cap S /\ IsInjective(r)

LEMMA FilterFacts ==
  ASSUME NEW seq, seq \in Seq(Range(seq)), IsInjective(seq), NEW S
  PROVE  FilterOf(seq, S, Filter(seq, S))
  <1> DEFINE p == <<seq, S>>
             a == Kept!Fold(p)
             n == Len(seq)
             T == Range(seq)
             Part(i) == {seq[j] : j \in 1 .. i} \cap S
  <1>1. n \in Nat /\ DOMAIN seq = 1 .. n /\ \A i \in 1 .. n : seq[i] \in T
    OBVIOUS
  <1>2. Filter(seq, S) = a[n]
    BY DEF Filter, Kept!Fold, KeptN, KeptBase, KeptOp
  <1>3. /\ a[0] = <<>>
        /\ \A i \in 1 .. n : a[i] = IF seq[i] \in S THEN Append(a[i - 1], seq[i]) ELSE a[i - 1]
    <2>. HIDE DEF a
    <2>1. KeptN(p) \in Nat /\ KeptN(p) = n
      BY <1>1 DEF KeptN
    <2>. QED
      BY <2>1, Kept!FoldDef DEF KeptBase, KeptOp, a
  <1>. HIDE DEF a, n, T
  <1> DEFINE I == {i \in 0 .. n : /\ a[i] \in Seq(T) /\ Range(a[i]) = Part(i)
                                  /\ IsInjective(a[i])}
  <1>4. 0 \in I
    <2>1. a[0] = <<>> /\ 0 \in 0 .. n /\ 1 .. 0 = {}
      BY <1>1, <1>3
    <2>2. <<>> \in Seq(T) /\ Range(<<>>) = {} /\ IsInjective(<<>>)
      BY DEF Range, IsInjective
    <2>3. Part(0) = {}
      BY <2>1
    <2>. HIDE DEF Part
    <2>. QED
      BY <2>1, <2>2, <2>3
  <1>5. \A i \in 0 .. n - 1 : i \in I => i + 1 \in I
    <2> SUFFICES ASSUME NEW i \in 0 .. n - 1, i \in I PROVE i + 1 \in I
      OBVIOUS
    <2>1. i + 1 \in 1 .. n /\ (i + 1) - 1 = i /\ 1 .. i + 1 = 1 .. i \cup {i + 1}
      BY <1>1
    <2>2. a[i] \in Seq(T) /\ Range(a[i]) = Part(i) /\ IsInjective(a[i])
      OBVIOUS
    <2>3. Part(i + 1) = IF seq[i + 1] \in S THEN Part(i) \cup {seq[i + 1]} ELSE Part(i)
      BY <2>1
    <2>4. CASE seq[i + 1] \in S
      <3>1. seq[i + 1] \notin Part(i)
        BY <1>1, <2>1 DEF IsInjective
      <3>2. a[i + 1] = Append(a[i], seq[i + 1]) /\ seq[i + 1] \in T
        BY <1>1, <1>3, <2>1, <2>4
      <3>. HIDE DEF Part
      <3>3. /\ a[i + 1] \in Seq(T) /\ Range(a[i + 1]) = Part(i) \cup {seq[i + 1]}
            /\ IsInjective(a[i + 1])
        BY <2>2, <3>1, <3>2, AppendOther
      <3>4. i + 1 \in 0 .. n
        BY <1>1, <2>1
      <3>. QED
        BY <2>3, <2>4, <3>3, <3>4
    <2>5. CASE seq[i + 1] \notin S
      <3>1. a[i + 1] = a[i] /\ i + 1 \in 0 .. n
        BY <1>1, <1>3, <2>1, <2>5
      <3>. HIDE DEF Part
      <3>. QED
        BY <2>2, <2>3, <2>5, <3>1
    <2>. QED
      BY <2>4, <2>5
  <1>6. n \in I
    <2>. HIDE DEF I
    <2>1. \A i \in 0 .. n : i \in I
      BY <1>1, <1>4, <1>5, Kept!Induction
    <2>. QED
      BY <1>1, <2>1
  <1>7. Part(n) = Range(seq) \cap S
    BY <1>1 DEF Range
  <1>8. a[n] \in Seq(Range(a[n]))
    <2>1. a[n] \in Seq(T)
      BY <1>6
    <2>. QED
      BY <2>1 DEF Range
  <1>. QED
    BY <1>2, <1>6, <1>7, <1>8 DEF FilterOf

LEMMA LiveFacts ==
  ASSUME NEW S, S \subseteq VarNames
  PROVE  LET r == Filter(Names, S)
         IN r \in Seq(Range(r)) /\ Range(r) = S /\ IsInjective(r)
  <1>1. Names \in Seq(Range(Names)) /\ IsInjective(Names) /\ Range(Names) = VarNames
    BY LoweringAssumption DEF VarNames
  <1>2. FilterOf(Names, S, Filter(Names, S))
    BY <1>1, FilterFacts
  <1>. QED
    BY <1>1, <1>2 DEF FilterOf

\* One phi for each of ids, whose result is the next version of that name.
IsPhiOf(n, v, K) ==
  /\ DOMAIN n = {"op", "args", "res", "elem", "inc", "imm"}
  /\ n.op = "phi" /\ n.args = <<>> /\ n.res = {v} /\ Range(n.inc) \subseteq K

Phis(c, K, ids, typ, code) ==
  /\ ids \in Seq(Range(ids)) /\ IsInjective(ids) /\ Range(ids) \subseteq VarNames
  /\ \A id \in Range(ids) : typ[id] \in ValueTypes
  /\ code \in Seq(Range(code)) /\ Len(code) = Len(ids)
  /\ \A i \in 1 .. Len(ids) : IsPhiOf(code[i], NewNamed(c, ids[i], typ[ids[i]]), K)

\* The context after the phis, but for the environment.
AfterPhis(c, S, c2) ==
  /\ DOMAIN c2 = {"env", "arrays", "tmp", "ver"} /\ c2.arrays = c.arrays /\ c2.tmp = c.tmp
  /\ c2.ver = [id \in VarNames |-> IF id \in S THEN c.ver[id] + 1 ELSE c.ver[id]]

LEMMA PhisFacts ==
  ASSUME NEW c, NEW K, IsContext(c, K), NEW ids, NEW typ, NEW code, Phis(c, K, ids, typ, code),
         NEW c2, AfterPhis(c, Range(ids), c2), IsEnv(c2.env, K \cup Results(code))
  PROVE  EmitsCode(c, K, code, c2)
  <1> DEFINE L == K \cup Results(code)
             v(i) == NewNamed(c, ids[i], typ[ids[i]])
             n == Len(ids)
  <1>1. n \in Nat /\ Len(code) = n /\ DOMAIN ids = 1 .. n /\ code \in Seq(Range(code))
        /\ \A i \in 1 .. n : ids[i] \in Range(ids) /\ ids[i] \in VarNames
                             /\ typ[ids[i]] \in ValueTypes
    BY DEF Phis, Range
  <1>2. \A i \in 1 .. n : v(i) \in Values /\ v(i).name = <<ids[i], c.ver[ids[i]]>>
    BY <1>1, NamedFacts
  <1>3. \A i \in 1 .. n : IsPhiOf(code[i], v(i), K)
    BY <1>1 DEF Phis
  <1>. HIDE DEF v, n
  <1>4. \A i \in 1 .. n : v(i) \in Results(code)
    <2> TAKE i \in 1 .. n
    <2>1. code[i] \in Range(code) /\ v(i) \in code[i].res
      BY <1>1, <1>3 DEF IsPhiOf, Range
    <2>. QED
      BY <2>1 DEF Results
  <1>5. Results(code) = {v(i) : i \in 1 .. n}
    <2>1. ASSUME NEW x \in Results(code) PROVE \E i \in 1 .. n : x = v(i)
      <3>0. PICK m \in Range(code) : x \in m.res
        BY DEF Results
      <3>1. PICK i \in 1 .. n : m = code[i]
        BY <1>1 DEF Range
      <3>2. code[i].res = {v(i)}
        BY <1>3 DEF IsPhiOf
      <3>. QED
        BY <3>0, <3>1, <3>2
    <2>. QED
      BY <1>4, <2>1
  <1>6. K \subseteq L /\ L \subseteq Values
    BY <1>2, <1>5 DEF IsContext
  <1>7. ASSUME NEW i \in 1 .. n PROVE IsNode(code[i], L)
    <2>1. IsPhiOf(code[i], v(i), K) /\ v(i) \in L
      BY <1>3, <1>4
    <2>2. Typed(code[i])
      BY <2>1, UntypedNode DEF IsPhiOf
    <2>3. <<>> \in Seq(L)
      OBVIOUS
    <2>. HIDE DEF L
    <2>. QED
      BY <1>6, <2>1, <2>2, <2>3 DEF IsPhiOf, IsNode
  <1>8. \A i \in 1 .. n : ResNames(code[i]) = {v(i).name}
    BY <1>3 DEF IsPhiOf, ResNames
  <1>9. NamesOnce(code)
    <2>1. ASSUME NEW i \in 1 .. n, NEW j \in 1 .. n, i # j PROVE v(i).name # v(j).name
      <3>1. ids[i] # ids[j]
        BY <1>1, <2>1 DEF Phis, IsInjective
      <3>. QED
        BY <1>2, <3>1
    <2>. QED
      BY <1>1, <1>8, <2>1 DEF NamesOnce
  <1>10. c.tmp = c2.tmp /\ c.tmp \in Nat /\ c.ver \in [VarNames -> Nat]
         /\ c2.ver \in [VarNames -> Nat]
         /\ \A id \in VarNames : c2.ver[id] = IF id \in Range(ids) THEN c.ver[id] + 1 ELSE c.ver[id]
    BY DEF IsContext, AfterPhis
  <1>11. Given(c) \subseteq Given(c2)
    <2>1. \A x \in VarNames \X Nat : x[2] < c.ver[x[1]] => x[2] < c2.ver[x[1]]
      BY <1>10
    <2>. QED
      BY <1>10, <2>1 DEF Given
  <1>12. \A i \in 1 .. n : v(i).name \in Given(c2) \ Given(c)
    <2> TAKE i \in 1 .. n
    <2>1. /\ v(i).name = <<ids[i], c.ver[ids[i]]>> /\ ids[i] \in VarNames
          /\ c2.ver[ids[i]] = c.ver[ids[i]] + 1 /\ c.ver[ids[i]] \in Nat
      BY <1>1, <1>2, <1>10
    <2>2. v(i).name \in Given(c2)
      BY <2>1 DEF Given
    <2>3. v(i).name \notin Given(c)
      <3>1. v(i).name \notin {"%t"} \X (1 .. c.tmp)
        BY <2>1, LoweringAssumption
      <3>. QED
        BY <2>1, <3>1 DEF Given
    <2>. QED
      BY <2>2, <2>3
  <1>13. NamesIn(code, Given(c2) \ Given(c))
    BY <1>1, <1>8, <1>12 DEF NamesIn
  <1>14. IsContext(c2, L)
    <2>1. IsContext(c, L)
      BY <1>6, ContextMonotone
    <2>. HIDE DEF L
    <2>2. DOMAIN c2.env \subseteq VarNames /\ \A id \in DOMAIN c2.env : c2.env[id] \in L
      BY DEF IsEnv, L
    <2>. QED
      BY <2>1, <2>2, <1>10 DEF IsContext, AfterPhis
  <1>15. IsCode(code, L)
    BY <1>1, <1>7 DEF IsCode
  <1>16. ReadsEarlier(code, K)
    <2>1. Range(<<>>) = {}
      BY DEF Range
    <2>. QED
      BY <1>1, <1>3, <2>1 DEF ReadsEarlier, IsPhiOf
  <1>. QED
    BY <1>9, <1>11, <1>13, <1>14, <1>15, <1>16 DEF EmitsCode

LEMMA PhiFacts ==
  ASSUME NEW K, NEW v, NEW inc, Range(inc) \subseteq K
  PROVE  IsPhiOf(Phi(v, inc), v, K)
  BY DEF IsPhiOf, Phi

LEMMA HeaderFacts ==
  ASSUME NEW c, NEW K, IsContext(c, K), NEW pre, NEW body
  PROVE  LET h == Header(c, pre, body)
         IN  /\ EmitsCode(c, K, h.code, h.ctx)
             /\ \A i \in 1 .. Len(h.code) : h.code[i].op = "phi"
             /\ IsEnv(h.ctx.env, K \cup Results(h.code)) /\ Owned(h.code, h.ctx.env)
  <1> DEFINE h == Header(c, pre, body)
             live == Live(c.env)
             n == Len(live)
             typ == [id \in DOMAIN c.env |-> c.env[id].typ]
             phi(id) == NewNamed(c, id, c.env[id].typ)
             inc(id) == [b \in {pre, body} |-> c.env[id]]
  <1>1. /\ K \subseteq Values /\ DOMAIN c = {"env", "arrays", "tmp", "ver"}
        /\ DOMAIN c.env \subseteq VarNames /\ \A id \in DOMAIN c.env : c.env[id] \in K
        /\ c.ver \in [VarNames -> Nat]
    BY DEF IsContext
  <1>2. live \in Seq(Range(live)) /\ Range(live) = DOMAIN c.env /\ IsInjective(live)
    BY <1>1, LiveFacts DEF Live
  <1>3. /\ h.code = [i \in DOMAIN live |-> Phi(phi(live[i]), inc(live[i]))]
        /\ h.ctx = [c EXCEPT !.env = [id \in DOMAIN @ |-> phi(id)],
                             !.ver = [id \in VarNames |-> IF id \in DOMAIN c.env THEN @[id] + 1
                                                          ELSE @[id]]]
    BY DEF Header
  <1>. HIDE DEF h, live
  <1>4. n \in Nat /\ DOMAIN live = 1 .. n /\ \A i \in 1 .. n : live[i] \in DOMAIN c.env
    BY <1>2 DEF Range
  <1>5. h.code = [i \in 1 .. n |-> Phi(phi(live[i]), inc(live[i]))]
    BY <1>3, <1>4
  <1>6. /\ h.code \in Seq(Range(h.code)) /\ Len(h.code) = n
        /\ \A i \in 1 .. n : h.code[i] = Phi(phi(live[i]), inc(live[i]))
    <2> DEFINE P(i) == Phi(phi(live[i]), inc(live[i]))
    <2>. HIDE DEF P
    <2>1. h.code = [i \in 1 .. n |-> P(i)]
      BY <1>5 DEF P
    <2>2. h.code \in Seq(Range(h.code)) /\ Len(h.code) = n /\ \A i \in 1 .. n : h.code[i] = P(i)
      BY <1>4, <2>1 DEF Range
    <2>. QED
      BY <2>2 DEF P
  <1>7. \A id \in DOMAIN c.env : Range(inc(id)) \subseteq K
    BY <1>1 DEF Range
  <1>8. \A i \in 1 .. n : IsPhiOf(h.code[i], phi(live[i]), K)
    <2> TAKE i \in 1 .. n
    <2>1. Range(inc(live[i])) \subseteq K
      BY <1>4, <1>7
    <2>2. h.code[i] = Phi(phi(live[i]), inc(live[i]))
      BY <1>6
    <2>. HIDE DEF inc, phi
    <2>. QED
      BY <2>1, <2>2, PhiFacts
  <1>9. \A id \in DOMAIN c.env : c.env[id].typ \in ValueTypes
    BY <1>1 DEF Values
  <1>10. Phis(c, K, live, typ, h.code)
    <2>1. \A i \in 1 .. n : typ[live[i]] = c.env[live[i]].typ
      BY <1>4
    <2>2. \A i \in 1 .. n : IsPhiOf(h.code[i], NewNamed(c, live[i], typ[live[i]]), K)
      BY <1>8, <2>1
    <2>3. \A id \in Range(live) : typ[id] \in ValueTypes
      BY <1>2, <1>9
    <2>. HIDE DEF typ
    <2>. QED
      BY <1>1, <1>2, <1>6, <2>2, <2>3 DEF Phis
  <1>11. /\ DOMAIN h.ctx = DOMAIN c /\ h.ctx.arrays = c.arrays /\ h.ctx.tmp = c.tmp
         /\ h.ctx.env = [id \in DOMAIN c.env |-> phi(id)]
         /\ h.ctx.ver = [id \in VarNames |-> IF id \in DOMAIN c.env THEN c.ver[id] + 1
                                            ELSE c.ver[id]]
    BY <1>1, <1>3
  <1>12. AfterPhis(c, Range(live), h.ctx)
    BY <1>1, <1>2, <1>11 DEF AfterPhis
  <1>13. \A id \in DOMAIN c.env : phi(id) \in Results(h.code)
    <2> SUFFICES ASSUME NEW id \in DOMAIN c.env PROVE phi(id) \in Results(h.code)
      OBVIOUS
    <2>1. PICK i \in 1 .. n : live[i] = id
      BY <1>2, <1>4 DEF Range
    <2>. HIDE DEF phi
    <2>2. h.code[i] \in Range(h.code)
      BY <1>6 DEF Range
    <2>3. h.code[i].res = {phi(id)}
      BY <1>8, <2>1 DEF IsPhiOf
    <2>. QED
      BY <2>2, <2>3 DEF Results
  <1>14. IsEnv(h.ctx.env, K \cup Results(h.code))
    <2>. HIDE DEF phi
    <2>. QED
      BY <1>1, <1>11, <1>13 DEF IsEnv
  <1>15. Owned(h.code, h.ctx.env)
    <2>. HIDE DEF phi
    <2>. QED
      BY <1>4, <1>6, <1>8, <1>11 DEF IsPhiOf, Owned
  <1>16. \A i \in 1 .. Len(h.code) : h.code[i].op = "phi"
    BY <1>6, <1>8 DEF IsPhiOf
  <1>17. EmitsCode(c, K, h.code, h.ctx)
    <2>. HIDE DEF typ, phi
    <2>. QED
      BY <1>10, <1>12, <1>14, PhisFacts
  <1>. QED
    BY <1>14, <1>15, <1>16, <1>17 DEF h

\* A name that needs no phi where an if joins keeps the value v.
Unsplit(f, right, id, v) ==
  LET l == SideOf(f.left, f.base, id)
      r == SideOf(right, f.base, id)
  IN  /\ \/ l = {} \/ r = {}
         \/ (CHOOSE x \in l : TRUE).name = (CHOOSE x \in r : TRUE).name
      /\ v = CHOOSE x \in l \cup r : TRUE

LEMMA MergeFacts ==
  ASSUME NEW c, NEW K, IsContext(c, K), NEW f, IsEnv(f.base, K), IsEnv(f.left, K)
  PROVE  LET m == Merge(f, c.env, c)
         IN  /\ EmitsCode(c, K, m.code, m.ctx)
             /\ \A i \in 1 .. Len(m.code) : m.code[i].op = "phi" /\ m.code[i].args = <<>>
             /\ m.ctx.arrays = c.arrays
             /\ \A id \in DOMAIN m.ctx.env : \/ m.ctx.env[id] \in Results(m.code)
                                             \/ Unsplit(f, c.env, id, m.ctx.env[id])
             /\ DOMAIN m.ctx.env =
                  {id \in VarNames : SideOf(f.left, f.base, id) \cup SideOf(c.env, f.base, id) # {}}
  <1> DEFINE m == Merge(f, c.env, c)
             L(id) == SideOf(f.left, f.base, id)
             R(id) == SideOf(c.env, f.base, id)
             value(S) == CHOOSE v \in S : TRUE
             all == {id \in VarNames : L(id) \cup R(id) # {}}
             split == {id \in all : /\ L(id) # {} /\ R(id) # {}
                                    /\ value(L(id)).name # value(R(id)).name}
             typ == [id \in split |-> value(L(id)).typ]
             phi(id) == NewNamed(c, id, value(L(id)).typ)
             phis == Filter(Names, split)
             n == Len(phis)
             new(id) == BranchPhi(f, phi(id), value(L(id)), value(R(id)))
  <1>1. /\ m.code = [i \in DOMAIN phis |-> new(phis[i])]
        /\ m.ctx = [c EXCEPT !.env = [id \in all |-> IF id \in split THEN phi(id)
                                                     ELSE value(L(id) \cup R(id))],
                             !.ver = [id \in VarNames |-> IF id \in split THEN @[id] + 1
                                                          ELSE @[id]]]
    BY DEF Merge
  <1>2. /\ K \subseteq Values /\ DOMAIN c = {"env", "arrays", "tmp", "ver"}
        /\ DOMAIN c.env \subseteq VarNames /\ \A id \in DOMAIN c.env : c.env[id] \in K
        /\ c.ver \in [VarNames -> Nat]
    BY DEF IsContext
  <1>3. \A id : L(id) \subseteq K /\ R(id) \subseteq K
    BY <1>2 DEF SideOf, IsEnv
  <1>4. \A S : S # {} => value(S) \in S
    OBVIOUS
  <1>5. split \subseteq all /\ all \subseteq VarNames
    OBVIOUS
  <1>6. \A id \in split : value(L(id)) \in K /\ value(R(id)) \in K
    <2>1. \A id \in split : L(id) # {} /\ R(id) # {}
      OBVIOUS
    <2>. HIDE DEF split, L, R, value
    <2>. QED
      BY <1>3, <1>4, <2>1
  <1>7. \A id \in all : value(L(id) \cup R(id)) \in K
    <2>1. \A id \in all : L(id) \cup R(id) # {}
      OBVIOUS
    <2>. HIDE DEF all, L, R, value
    <2>2. \A id \in all : value(L(id) \cup R(id)) \in L(id) \cup R(id)
      BY <1>4, <2>1
    <2>. QED
      BY <1>3, <2>2
  <1>. HIDE DEF m, L, R, value, all, split
  <1>8. phis \in Seq(Range(phis)) /\ Range(phis) = split /\ IsInjective(phis)
    BY <1>5, LiveFacts
  <1>. HIDE DEF phis
  <1>9. n \in Nat /\ DOMAIN phis = 1 .. n /\ \A i \in 1 .. n : phis[i] \in split
    BY <1>8 DEF Range
  <1>10. /\ m.code \in Seq(Range(m.code)) /\ Len(m.code) = n
         /\ \A i \in 1 .. n : m.code[i] = new(phis[i])
    <2>. HIDE DEF new
    <2>1. m.code = [i \in 1 .. n |-> new(phis[i])]
      BY <1>1, <1>9
    <2>. QED
      BY <1>9, <2>1 DEF Range
  <1>11. \A id \in split : IsPhiOf(new(id), phi(id), K)
    <2> TAKE id \in split
    <2> DEFINE l == value(L(id))
               r == value(R(id))
               inc == [b \in {f.then, f.else} |-> IF b = f.then THEN l ELSE r]
    <2>1. l \in K /\ r \in K
      BY <1>6
    <2>. HIDE DEF l, r, phi
    <2>2. Range(inc) \subseteq K
      BY <2>1 DEF Range
    <2>3. new(id) = Phi(phi(id), inc)
      BY DEF BranchPhi, l, r
    <2>. HIDE DEF inc, new
    <2>. QED
      BY <2>2, <2>3, PhiFacts
  <1>. HIDE DEF new
  <1>12. \A i \in 1 .. n : IsPhiOf(m.code[i], phi(phis[i]), K)
    BY <1>9, <1>10, <1>11
  <1>13. \A id \in split : typ[id] \in ValueTypes
    BY <1>2, <1>6 DEF Values
  <1>14. Phis(c, K, phis, typ, m.code)
    <2>1. \A i \in 1 .. n : typ[phis[i]] = value(L(phis[i])).typ
      BY <1>9
    <2>2. \A i \in 1 .. n : IsPhiOf(m.code[i], NewNamed(c, phis[i], typ[phis[i]]), K)
      BY <1>12, <2>1
    <2>. HIDE DEF typ
    <2>. QED
      BY <1>5, <1>8, <1>10, <1>13, <2>2 DEF Phis
  <1>15. /\ DOMAIN m.ctx = DOMAIN c /\ m.ctx.arrays = c.arrays /\ m.ctx.tmp = c.tmp
         /\ m.ctx.env = [id \in all |-> IF id \in split THEN phi(id) ELSE value(L(id) \cup R(id))]
         /\ m.ctx.ver = [id \in VarNames |-> IF id \in split THEN c.ver[id] + 1 ELSE c.ver[id]]
    BY <1>1, <1>2
  <1>16. AfterPhis(c, Range(phis), m.ctx)
    BY <1>2, <1>8, <1>15 DEF AfterPhis
  <1>17. \A id \in split : phi(id) \in Results(m.code)
    <2> SUFFICES ASSUME NEW id \in split PROVE phi(id) \in Results(m.code)
      OBVIOUS
    <2>1. PICK i \in 1 .. n : phis[i] = id
      BY <1>8, <1>9 DEF Range
    <2>. HIDE DEF phi
    <2>2. m.code[i] \in Range(m.code)
      BY <1>10 DEF Range
    <2>3. m.code[i].res = {phi(id)}
      BY <1>12, <2>1 DEF IsPhiOf
    <2>. QED
      BY <2>2, <2>3 DEF Results
  <1>18. IsEnv(m.ctx.env, K \cup Results(m.code))
    <2>. HIDE DEF phi
    <2>. QED
      BY <1>5, <1>7, <1>15, <1>17 DEF IsEnv
  <1>19. \A i \in 1 .. Len(m.code) : m.code[i].op = "phi" /\ m.code[i].args = <<>>
    BY <1>10, <1>12 DEF IsPhiOf
  <1>20. EmitsCode(c, K, m.code, m.ctx)
    <2>. HIDE DEF typ, phi
    <2>. QED
      BY <1>14, <1>16, <1>18, PhisFacts
  <1>21. ASSUME NEW id \in DOMAIN m.ctx.env
         PROVE  m.ctx.env[id] \in Results(m.code) \/ Unsplit(f, c.env, id, m.ctx.env[id])
    <2>1. CASE id \in split
      <3>. HIDE DEF phi
      <3>. QED
        BY <1>5, <1>15, <1>17, <2>1
    <2>2. CASE id \notin split
      <3>1. id \in all /\ m.ctx.env[id] = value(L(id) \cup R(id))
        BY <1>15, <2>2
      <3>2. L(id) = {} \/ R(id) = {} \/ value(L(id)).name = value(R(id)).name
        BY <2>2, <3>1 DEF split
      <3>. QED
        BY <3>1, <3>2 DEF Unsplit, L, R, value
    <2>. QED
      BY <2>1, <2>2
  <1>22. DOMAIN m.ctx.env = all
    BY <1>15
  <1>. QED
    BY <1>15, <1>19, <1>20, <1>21, <1>22 DEF m, all, L, R

-----------------------------------------------------------------------------
(* What a step does to terminators, phis and pending statements.              *)

LEMMA TermsStay ==
  ASSUME NEW bs, NEW bs2, TermsInv(bs), KeepsTerms(bs, bs2), KnownIn(bs) \subseteq KnownIn(bs2)
  PROVE  TermsInv(bs2)
  BY DEF TermsInv, KeepsTerms

LEMMA TermEnds ==
  ASSUME NEW bs, NEW bs2, TermsInv(bs), NEW l, NEW t, Ends(bs, bs2, l, t),
         KnownIn(bs) \subseteq KnownIn(bs2), Range(t.uses) \subseteq KnownIn(bs2),
         t.k = "br" => t.uses[1].typ = "bool"
  PROVE  TermsInv(bs2)
  BY DEF TermsInv, Ends

LEMMA TermsAdded ==
  ASSUME NEW bs, NEW bs2, TermsInv(bs), NEW labels, Added(bs, bs2, labels),
         KnownIn(bs) \subseteq KnownIn(bs2)
  PROVE  TermsInv(bs2)
  <1>1. Range(NewBlock.term.uses) = {} /\ NewBlock.term.k # "br"
    BY DEF NewBlock, NoTerm, Term, Range
  <1>. QED
    BY <1>1 DEF TermsInv, Added

\* Jumps and returns of nothing use no value.
LEMMA FallTerms ==
  ASSUME NEW bs, NEW bs2, TermsInv(bs), NEW l, NEW m, FallsTo(bs, bs2, l, m),
         KnownIn(bs) \subseteq KnownIn(bs2)
  PROVE  TermsInv(bs2)
  <1>1. Range(Jump(m).uses) = {} /\ Jump(m).k # "br"
    BY DEF Jump, Term, Range
  <1>2. CASE bs[l].term.k = "none"
    <2>1. Ends(bs, bs2, l, Jump(m))
      BY <1>2 DEF FallsTo
    <2>2. Range(Jump(m).uses) \subseteq KnownIn(bs2) /\ (Jump(m).k = "br" => Jump(m).uses[1].typ = "bool")
      BY <1>1
    <2>. QED
      BY <2>1, <2>2, TermEnds
  <1>3. CASE bs[l].term.k # "none"
    BY <1>3, TermsStay DEF FallsTo
  <1>. QED
    BY <1>2, <1>3

PhisFirst(nodes) ==
  \A i \in 2 .. Len(nodes) : nodes[i].op = "phi" => nodes[i - 1].op = "phi"

LEMMA PhisFirstBoth ==
  ASSUME NEW a, NEW b, a \in Seq(Range(a)), b \in Seq(Range(b)), Plain(b)
  PROVE  /\ PhisFirst(a) => PhisFirst(a \o b)
         /\ \A base : Owned(a, base) => Owned(a \o b, base)
  <1>1. /\ Len(a \o b) = Len(a) + Len(b) /\ Len(a) \in Nat /\ Len(b) \in Nat
        /\ \A i \in 1 .. Len(a) : (a \o b)[i] = a[i]
        /\ \A i \in Len(a) + 1 .. Len(a) + Len(b) : (a \o b)[i] = b[i - Len(a)]
    BY Concatenation
  <1>2. ASSUME NEW i \in 1 .. Len(a \o b), (a \o b)[i].op = "phi"
        PROVE  i \in 1 .. Len(a) /\ (a \o b)[i] = a[i]
    <2>1. CASE i \in Len(a) + 1 .. Len(a) + Len(b)
      <3>1. i - Len(a) \in 1 .. Len(b) /\ (a \o b)[i] = b[i - Len(a)]
        BY <1>1, <2>1
      <3>. QED
        BY <1>2, <3>1 DEF Plain
    <2>. QED
      BY <1>1, <2>1
  <1>3. ASSUME PhisFirst(a) PROVE PhisFirst(a \o b)
    <2> SUFFICES ASSUME NEW i \in 2 .. Len(a \o b), (a \o b)[i].op = "phi"
                 PROVE  (a \o b)[i - 1].op = "phi"
      BY DEF PhisFirst
    <2>1. i \in 1 .. Len(a \o b)
      BY <1>1
    <2>2. i \in 1 .. Len(a) /\ a[i].op = "phi"
      BY <1>2, <2>1
    <2>3. i \in 2 .. Len(a) /\ i - 1 \in 1 .. Len(a)
      BY <1>1, <2>2
    <2>4. a[i - 1].op = "phi"
      BY <1>3, <2>2, <2>3 DEF PhisFirst
    <2>. QED
      BY <1>1, <2>3, <2>4
  <1>4. ASSUME NEW base, Owned(a, base) PROVE Owned(a \o b, base)
    <2> SUFFICES ASSUME NEW i \in 1 .. Len(a \o b), (a \o b)[i].op = "phi"
                 PROVE  \E id \in DOMAIN base : base[id] \in (a \o b)[i].res
      BY DEF Owned
    <2>1. i \in 1 .. Len(a) /\ (a \o b)[i] = a[i]
      BY <1>2
    <2>. QED
      BY <1>4, <2>1 DEF Owned
  <1>. QED
    BY <1>3, <1>4

LEMMA PhisLeadFirst ==
  ASSUME NEW bs
  PROVE  PhisLead(bs) <=> \A l \in DOMAIN bs : PhisFirst(bs[l].nodes)
  BY DEF PhisLead, PhisFirst

\* The join blocks that wait are not the current block, and differ.
LEMMA JoinsWait ==
  ASSUME GraphInv, status = "lowering", NEW i \in 1 .. Len(frames),
         frames[i].k \in {"then", "else"}
  PROVE  /\ frames[i].join # cur
         /\ \A j \in 1 .. Len(frames) :
              j # i /\ frames[j].k \in {"then", "else"} => frames[j].join # frames[i].join
  <1>1. Len(Stack) = Len(frames) /\ \A j \in 1 .. Len(frames) : Stack[j] = Abstract(frames[j])
    BY StackFacts DEF GraphInv, Shape
  <1>2. cur \notin CFP!Held /\ CFP!Disjoint(Stack)
    BY DEF GraphInv, CFP!Inv, CFP!HeldOnce
  <1>3. ASSUME NEW j \in 1 .. Len(frames), frames[j].k \in {"then", "else"}
        PROVE  frames[j].join \in CFP!HeldBy(Stack[j])
    <2> DEFINE f == frames[j]
    <2>1. f.k \in {"then", "else"} /\ Stack[j] = Abstract(f)
      BY <1>1, <1>3
    <2>. HIDE DEF f
    <2>2. CASE f.k = "then"
      <3>1. Abstract(f) = [k |-> "then", to |-> f.join, next |-> f.else]
        BY <2>2 DEF Abstract
      <3>. QED
        BY <2>1, <3>1 DEF CFP!HeldBy, f
    <2>3. CASE f.k = "else"
      <3>1. Abstract(f) = [k |-> "else", to |-> f.join, next |-> f.join]
        BY <2>3 DEF Abstract
      <3>. QED
        BY <2>1, <3>1 DEF CFP!HeldBy, f
    <2>. QED
      BY <2>1, <2>2, <2>3
  <1>4. frames[i].join \in CFP!Held
    BY <1>1, <1>3 DEF CFP!Held, CFP!HeldOf
  <1>5. ASSUME NEW j \in 1 .. Len(frames), j # i, frames[j].k \in {"then", "else"}
        PROVE  frames[j].join # frames[i].join
    <2>1. CFP!HeldBy(Stack[i]) \cap CFP!HeldBy(Stack[j]) = {}
      BY <1>1, <1>2, <1>5 DEF CFP!Disjoint
    <2>2. frames[i].join \in CFP!HeldBy(Stack[i]) /\ frames[j].join \in CFP!HeldBy(Stack[j])
      BY <1>3, <1>5
    <2>. QED
      BY <2>1, <2>2
  <1>. QED
    BY <1>2, <1>4, <1>5

\* A pending statement is not disturbed by what happens to other blocks.
LEMMA StillWaits ==
  ASSUME NEW f, NEW bs, NEW bs2, Waits(f, bs), KnownIn(bs) \subseteq KnownIn(bs2),
         f.k \in {"then", "else"} => bs2[f.join].nodes = bs[f.join].nodes,
         f.k = "while" => Owned(bs2[f.cond].nodes, f.base)
  PROVE  Waits(f, bs2)
  BY DEF Waits, IsEnv

\* Code without phis, at the end of the current block.
Extends(bs, code, c2) ==
  /\ CodeInv(bs, c2) /\ KnownIn(bs) = KnownIn(blocks) \cup Results(code)
  /\ PhisLead(bs) /\ WaitAll(frames, bs)

LEMMA PlainWritten ==
  ASSUME LoweringInv, status = "lowering", NEW code, NEW c2,
         EmitsCode(ctx, KnownIn(blocks), code, c2), Plain(code),
         NEW bs, Writes(blocks, bs, cur, code)
  PROVE  Extends(bs, code, c2)
  <1>1. GraphInv /\ CodeInv(blocks, ctx) /\ PhisLead(blocks) /\ WaitAll(frames, blocks)
    BY DEF LoweringInv, IRInv
  <1>2. cur \in DOMAIN blocks /\ IsStack(frames, DOMAIN blocks)
    BY <1>1 DEF GraphInv, Shape
  <1>3. CodeInv(bs, c2) /\ KnownIn(bs) = KnownIn(blocks) \cup Results(code)
    BY <1>1, <1>2, CodeWritten
  <1>4. /\ code \in Seq(Range(code))
        /\ \A l \in DOMAIN blocks : blocks[l].nodes \in Seq(Range(blocks[l].nodes))
    BY <1>1 DEF EmitsCode, IsCode, CodeInv
  <1>5. /\ DOMAIN bs = DOMAIN blocks /\ bs[cur].nodes = blocks[cur].nodes \o code
        /\ \A l \in DOMAIN blocks \ {cur} : bs[l].nodes = blocks[l].nodes
    BY <1>2 DEF Writes
  <1>6. PhisLead(bs)
    <2>1. \A l \in DOMAIN blocks : PhisFirst(blocks[l].nodes)
      BY <1>1, PhisLeadFirst
    <2>2. PhisFirst(bs[cur].nodes)
      BY <1>2, <1>4, <1>5, <2>1, PhisFirstBoth
    <2>3. \A l \in DOMAIN bs : PhisFirst(bs[l].nodes)
      BY <1>5, <2>1, <2>2
    <2>. QED
      BY <2>3, PhisLeadFirst
  <1>7. ASSUME NEW i \in 1 .. Len(frames) PROVE Waits(frames[i], bs)
    <2> DEFINE f == frames[i]
    <2>1. Waits(f, blocks) /\ IsFrame(f, DOMAIN blocks)
      BY <1>1, <1>2 DEF WaitAll, IsStack
    <2>2. f.k \in {"then", "else"} => f.join # cur
      BY <1>1, JoinsWait
    <2>. HIDE DEF f
    <2>3. f.k \in {"then", "else"} => bs[f.join].nodes = blocks[f.join].nodes
      BY <1>5, <2>1, <2>2 DEF IsFrame
    <2>4. ASSUME f.k = "while" PROVE Owned(bs[f.cond].nodes, f.base)
      <3>1. f.cond \in DOMAIN blocks /\ Owned(blocks[f.cond].nodes, f.base)
        BY <2>1, <2>4 DEF IsFrame, Waits
      <3>2. CASE f.cond = cur
        <4>1. \A base : Owned(blocks[cur].nodes, base) => Owned(blocks[cur].nodes \o code, base)
          BY <1>2, <1>4, PhisFirstBoth
        <4>. QED
          BY <1>5, <3>1, <3>2, <4>1
      <3>3. CASE f.cond # cur
        BY <1>5, <3>1, <3>3
      <3>. QED
        BY <3>2, <3>3
    <2>5. KnownIn(blocks) \subseteq KnownIn(bs)
      BY <1>3
    <2>6. Waits(f, bs)
      BY <2>1, <2>3, <2>4, <2>5, StillWaits
    <2>. QED
      BY <2>6 DEF f
  <1>. QED
    BY <1>3, <1>6, <1>7 DEF Extends, WaitAll

LEMMA AddedInv ==
  ASSUME NEW bs, NEW c, IRInv(bs, c), NEW fs, IsStack(fs, DOMAIN bs), WaitAll(fs, bs),
         NEW labels, labels \cap DOMAIN bs = {}, NEW bs2, Added(bs, bs2, labels)
  PROVE  IRInv(bs2, c) /\ WaitAll(fs, bs2) /\ KnownIn(bs2) = KnownIn(bs)
  <1>1. CodeInv(bs2, c) /\ KnownIn(bs2) = KnownIn(bs)
    BY CodeAdded DEF IRInv
  <1>2. TermsInv(bs2)
    BY <1>1, TermsAdded DEF IRInv
  <1>3. /\ DOMAIN bs2 = DOMAIN bs \cup labels /\ \A l \in labels : bs2[l].nodes = <<>>
        /\ \A l \in DOMAIN bs : bs2[l] = bs[l]
    BY DEF Added, NewBlock
  <1>4. PhisLead(bs2)
    <2>1. PhisFirst(<<>>) /\ \A l \in DOMAIN bs : PhisFirst(bs[l].nodes)
      BY PhisLeadFirst DEF IRInv, PhisFirst
    <2>2. \A l \in DOMAIN bs2 : PhisFirst(bs2[l].nodes)
      BY <1>3, <2>1
    <2>. QED
      BY <2>2, PhisLeadFirst
  <1>5. WaitAll(fs, bs2)
    <2> SUFFICES ASSUME NEW i \in 1 .. Len(fs) PROVE Waits(fs[i], bs2)
      BY DEF WaitAll
    <2> DEFINE f == fs[i]
    <2>1. Waits(f, bs) /\ IsFrame(f, DOMAIN bs)
      BY DEF WaitAll, IsStack
    <2>. HIDE DEF f
    <2>2. Waits(f, bs2)
      BY <1>1, <1>3, <2>1 DEF Waits, IsFrame
    <2>. QED
      BY <2>2 DEF f
  <1>. QED
    BY <1>1, <1>2, <1>4, <1>5 DEF IRInv

LEMMA FallInv ==
  ASSUME NEW bs, NEW c, IRInv(bs, c), NEW fs, IsStack(fs, DOMAIN bs), WaitAll(fs, bs),
         NEW bs2, NEW l, NEW m, FallsTo(bs, bs2, l, m)
  PROVE  IRInv(bs2, c) /\ WaitAll(fs, bs2) /\ KnownIn(bs2) = KnownIn(bs) /\ KeepsNodes(bs, bs2)
  <1>1. KeepsNodes(bs, bs2)
    BY DEF FallsTo
  <1>2. CodeInv(bs2, c) /\ KnownIn(bs2) = KnownIn(bs)
    BY <1>1, CodeKept DEF IRInv
  <1>3. TermsInv(bs2)
    BY <1>2, FallTerms DEF IRInv
  <1>4. PhisLead(bs2)
    BY <1>1 DEF IRInv, PhisLead, KeepsNodes
  <1>5. WaitAll(fs, bs2)
    <2> SUFFICES ASSUME NEW i \in 1 .. Len(fs) PROVE Waits(fs[i], bs2)
      BY DEF WaitAll
    <2> DEFINE f == fs[i]
    <2>1. Waits(f, bs) /\ IsFrame(f, DOMAIN bs)
      BY DEF WaitAll, IsStack
    <2>. HIDE DEF f
    <2>2. Waits(f, bs2)
      BY <1>1, <1>2, <2>1 DEF Waits, IsFrame, KeepsNodes
    <2>. QED
      BY <2>2 DEF f
  <1>. QED
    BY <1>1, <1>2, <1>3, <1>4, <1>5 DEF IRInv

\* The stack of pending statements grows or shrinks.
LEMMA WaitPush ==
  ASSUME NEW fs, fs \in Seq(Range(fs)), NEW bs, WaitAll(fs, bs), NEW f, Waits(f, bs)
  PROVE  WaitAll(Append(fs, f), bs)
  <1>1. /\ Len(Append(fs, f)) = Len(fs) + 1 /\ Append(fs, f)[Len(fs) + 1] = f /\ Len(fs) \in Nat
        /\ \A i \in 1 .. Len(fs) : Append(fs, f)[i] = fs[i]
    OBVIOUS
  <1>2. ASSUME NEW i \in 1 .. Len(fs) + 1 PROVE Waits(Append(fs, f)[i], bs)
    <2>1. CASE i = Len(fs) + 1
      BY <1>1, <2>1
    <2>2. CASE i \in 1 .. Len(fs)
      BY <1>1, <2>2 DEF WaitAll
    <2>. QED
      BY <1>1, <2>1, <2>2
  <1>. QED
    BY <1>1, <1>2 DEF WaitAll

LEMMA WaitPop ==
  ASSUME NEW fs, fs \in Seq(Range(fs)), fs # <<>>, NEW bs, WaitAll(fs, bs)
  PROVE  /\ WaitAll(Front(fs), bs) /\ Waits(Last(fs), bs) /\ Last(fs) = fs[Len(fs)]
         /\ Front(fs) \in Seq(Range(Front(fs)))
  <1>1. /\ Front(fs) \in Seq(Range(fs)) /\ Len(Front(fs)) = Len(fs) - 1
        /\ \A i \in 1 .. Len(fs) - 1 : Front(fs)[i] = fs[i]
    BY FrontFacts
  <1>2. Len(fs) \in Nat /\ Len(fs) \in 1 .. Len(fs) /\ Last(fs) = fs[Len(fs)]
    BY DEF Last
  <1>3. Front(fs) \in Seq(Range(Front(fs)))
    BY <1>1 DEF Range
  <1>. QED
    BY <1>1, <1>2, <1>3 DEF WaitAll

\* The order of the blocks grows with them.
LEMMA OrderGrows ==
  ASSUME NEW D, NEW o, IsOrder(o, D),
         NEW a, NEW b, NEW c, {a, b, c} \cap D = {}, a # b, a # c, b # c
  PROVE  IsOrder(o \o <<a, b, c>>, D \cup {a, b, c})
  <1> DEFINE E == D \cup {a, b, c}
             x == Append(o, a)
             y == Append(x, b)
             z == Append(y, c)
  <1>1. o \in Seq(E) /\ Range(o) = D /\ IsInjective(o) /\ a \in E /\ b \in E /\ c \in E
    BY DEF IsOrder
  <1>2. x \in Seq(E) /\ IsInjective(x) /\ Range(x) = D \cup {a}
    BY <1>1, AppendOther
  <1>. HIDE DEF x
  <1>3. y \in Seq(E) /\ IsInjective(y) /\ Range(y) = D \cup {a, b}
    <2>1. b \notin Range(x)
      BY <1>2
    <2>. QED
      BY <1>1, <1>2, <2>1, AppendOther
  <1>. HIDE DEF y
  <1>4. z \in Seq(E) /\ IsInjective(z) /\ Range(z) = E
    <2>1. c \notin Range(y)
      BY <1>3
    <2>2. z \in Seq(E) /\ IsInjective(z) /\ Range(z) = Range(y) \cup {c}
      BY <1>1, <1>3, <2>1, AppendOther
    <2>. QED
      BY <1>3, <2>2
  <1>. HIDE DEF z
  <1>5. o \o <<a, b, c>> = z
    <2>1. <<a, b, c>> \in Seq(E)
      BY <1>1
    <2>. QED
      BY <1>1, <1>2, <1>3, <1>4, <2>1 DEF x, y, z
  <1>. QED
    BY <1>4, <1>5 DEF IsOrder

-----------------------------------------------------------------------------
(* Every step keeps the inductive invariant.                                  *)

\* What is left to show of a step, once the graph is taken care of.
IRStep == OrderInv' /\ IRInv(blocks', ctx') /\ WaitAll(frames', blocks')

LEMMA InvFacts ==
  ASSUME LoweringInv
  PROVE  /\ Shape /\ CFP!TypeOK /\ OrderInv /\ IRInv(blocks, ctx) /\ TermsInv(blocks)
         /\ IsContext(ctx, KnownIn(blocks))
         /\ cur \in DOMAIN blocks /\ IsStack(frames, DOMAIN blocks)
         /\ frames \in Seq(Range(frames))
         /\ status = "lowering" => WaitAll(frames, blocks)
  BY DEF LoweringInv, GraphInv, Shape, CFP!Inv, IRInv, CodeInv, IsStack

LEMMA OrderKept ==
  ASSUME OrderInv, order' = order, DOMAIN blocks' = DOMAIN blocks
  PROVE  OrderInv'
  BY DEF OrderInv

LEMMA SimpleIR ==
  ASSUME LoweringInv, NEW s \in Stmts, s.s \in SimpleStmts, Simple(s)
  PROVE  IRStep
  <1> DEFINE K == KnownIn(blocks)
             r == LowerSimple(ctx, s)
  <1>1. /\ r.ok /\ ctx' = r.ctx /\ status = "lowering" /\ UNCHANGED <<order, frames>>
    BY DEF Simple, Lower
  <1>2. IsSimple(s)
    BY StmtFacts, LoweringAssumption
  <1>3. Yields(ctx, K, r)
    BY <1>1, <1>2, InvFacts, SimpleFacts
  <1>4. Writes(blocks, blocks', cur, r.code) /\ KeepsTerms(blocks, blocks')
    BY SimpleStep, InvFacts
  <1>. HIDE DEF K, r
  <1>5. Extends(blocks', r.code, ctx')
    BY <1>1, <1>3, <1>4, PlainWritten DEF Yields, K
  <1>6. TermsInv(blocks')
    BY <1>4, <1>5, InvFacts, TermsStay DEF Extends
  <1>7. IRInv(blocks', ctx') /\ WaitAll(frames', blocks')
    BY <1>1, <1>5, <1>6 DEF Extends, IRInv
  <1>8. OrderInv'
    BY <1>1, <1>4, InvFacts, OrderKept DEF KeepsTerms
  <1>. QED
    BY <1>7, <1>8 DEF IRStep

LEMMA ReturnFacts ==
  ASSUME NEW c, NEW K, IsContext(c, K), NEW s, s.expr = <<>> \/ Balanced(s.expr),
         LowerReturn(c, s).ok
  PROVE  LET r == LowerReturn(c, s)
         IN  Yields(c, K, r) /\ Range(r.uses) \subseteq K \cup Results(r.code)
  <1>1. CASE s.expr = <<>>
    <2>1. /\ LowerReturn(c, s).code = <<>> /\ LowerReturn(c, s).ctx = c
          /\ LowerReturn(c, s).uses = <<>>
      BY <1>1 DEF LowerReturn
    <2>2. Range(<<>>) = {}
      BY DEF Range
    <2>. QED
      BY <2>1, <2>2, NoNode DEF Yields
  <1>2. CASE s.expr # <<>>
    <2> DEFINE e == LowerExpr(c, s.expr)
    <2>1. /\ e.ok /\ LowerReturn(c, s).code = e.code /\ LowerReturn(c, s).ctx = e.ctx
          /\ LowerReturn(c, s).uses = <<Result(e)>>
      BY <1>2 DEF LowerReturn
    <2>2. Accumulates(c, K, e, 1) /\ Result(e) \in Known(K, e)
      BY <1>2, <2>1, ExprFacts
    <2>. HIDE DEF e
    <2>3. Range(<<Result(e)>>) = {Result(e)}
      BY DEF Range
    <2>. QED
      BY <2>1, <2>2, <2>3 DEF Accumulates, Yields, Known
  <1>. QED
    BY <1>1, <1>2

LEMMA ReturnIR ==
  ASSUME LoweringInv, NEW s \in Stmts, s.s = "return", ReturnStmt(s)
  PROVE  IRStep
  <1> DEFINE K == KnownIn(blocks)
             r == LowerReturn(ctx, s)
             t == Return(r.uses)
  <1>1. /\ r.ok /\ ctx' = r.ctx /\ status = "lowering" /\ UNCHANGED <<order, frames>>
    BY DEF ReturnStmt, Lower
  <1>2. s.expr = <<>> \/ Balanced(s.expr)
    BY StmtFacts, LoweringAssumption
  <1>3. Yields(ctx, K, r) /\ Range(r.uses) \subseteq K \cup Results(r.code)
    BY <1>1, <1>2, InvFacts, ReturnFacts
  <1>4. Writes(blocks, blocks', cur, r.code) /\ Ends(blocks, blocks', cur, t)
    BY ReturnStep, InvFacts
  <1>. HIDE DEF K, r
  <1>5. Extends(blocks', r.code, ctx')
    BY <1>1, <1>3, <1>4, PlainWritten DEF Yields, K
  <1>6. t.uses = r.uses /\ t.k # "br"
    BY DEF Return, Term
  <1>. HIDE DEF t
  <1>7. TermsInv(blocks')
    BY <1>3, <1>4, <1>5, <1>6, InvFacts, TermEnds DEF Extends, K
  <1>8. IRInv(blocks', ctx') /\ WaitAll(frames', blocks')
    BY <1>1, <1>5, <1>7 DEF Extends, IRInv
  <1>9. OrderInv'
    BY <1>1, <1>4, InvFacts, OrderKept DEF Ends
  <1>. QED
    BY <1>8, <1>9 DEF IRStep

LEMMA LabelsAreNew ==
  ASSUME LoweringInv
  PROVE  /\ {CFP!IfThen, CFP!IfElse, CFP!IfJoin} \cap DOMAIN blocks = {}
         /\ {CFP!WhileCond, CFP!WhileBody, CFP!WhileExit} \cap DOMAIN blocks = {}
         /\ CFP!IfThen # CFP!IfElse /\ CFP!IfThen # CFP!IfJoin /\ CFP!IfElse # CFP!IfJoin
         /\ CFP!WhileCond # CFP!WhileBody /\ CFP!WhileCond # CFP!WhileExit
         /\ CFP!WhileBody # CFP!WhileExit
  <1>1. CFP!ControlFlowAssumption
    BY LoweringAssumption DEF CFP!ControlFlowAssumption
  <1>2. CFP!TypeOK
    BY InvFacts
  <1>. QED
    BY <1>1, <1>2, CFP!FreshLabels DEF GraphOf

LEMMA OpenIfIR ==
  ASSUME LoweringInv, More, NEW s \in Stmts, s.s = "if", OpenIf(s)
  PROVE  IRStep
  <1> DEFINE K == KnownIn(blocks)
             e == LowerExpr(ctx, s.expr)
             then == CFP!IfThen
             else == CFP!IfElse
             join == CFP!IfJoin
             labels == {then, else, join}
             t == Branch(Result(e), then, else)
             bs == [blocks EXCEPT ![cur].nodes = @ \o e.code, ![cur].term = t]
             f == [k |-> "then", then |-> then, else |-> else, join |-> join,
                   base |-> ctx.env, left |-> ctx.env]
  <1>1. /\ ResultIs(e, "bool") /\ ctx' = e.ctx /\ status = "lowering"
        /\ order' = order \o <<then, else, join>> /\ frames' = Append(frames, f)
    BY DEF OpenIf, Lower, CFP!IfThen, CFP!IfElse, CFP!IfJoin
  <1>2. e.ok /\ Result(e).typ = "bool" /\ Balanced(s.expr)
    BY <1>1, StmtFacts, LoweringAssumption DEF ResultIs
  <1>3. Accumulates(ctx, K, e, 1) /\ Result(e) \in Known(K, e)
    BY <1>2, InvFacts, ExprFacts
  <1>4. Writes(blocks, bs, cur, e.code) /\ Ends(blocks, bs, cur, t) /\ blocks' = NewBlocks(bs, labels)
    BY OpenIfStep, InvFacts
  <1>5. labels \cap DOMAIN blocks = {} /\ then # else /\ then # join /\ else # join
    BY LabelsAreNew
  <1>6. Range(t.uses) = {Result(e)} /\ t.uses[1] = Result(e)
    BY DEF Branch, Term, Range
  <1>7. /\ f.k = "then" /\ f.base = ctx.env /\ f.left = ctx.env /\ f.join = join
    OBVIOUS
  <1>. HIDE DEF K, e, t, bs, f, then, else, join
  <1>8. Extends(bs, e.code, e.ctx)
    BY <1>1, <1>3, <1>4, PlainWritten DEF Accumulates, K
  <1>9. TermsInv(bs)
    BY <1>2, <1>3, <1>4, <1>6, <1>8, InvFacts, TermEnds DEF Extends, K, Known
  <1>10. /\ IRInv(bs, e.ctx) /\ WaitAll(frames, bs) /\ DOMAIN bs = DOMAIN blocks
         /\ KnownIn(blocks) \subseteq KnownIn(bs)
    BY <1>4, <1>8, <1>9 DEF Extends, IRInv, Ends
  <1>11. Added(bs, blocks', labels)
    BY <1>4, BlocksAdded
  <1>12. IRInv(blocks', e.ctx) /\ WaitAll(frames, blocks') /\ KnownIn(blocks') = KnownIn(bs)
    <2>. HIDE DEF labels
    <2>. QED
      BY <1>5, <1>10, <1>11, InvFacts, AddedInv
  <1>13. Waits(f, blocks')
    <2>1. IsEnv(ctx.env, KnownIn(blocks'))
      BY <1>10, <1>12, InvFacts DEF IsContext, IsEnv
    <2>2. blocks'[join].nodes = <<>>
      BY <1>11 DEF Added, NewBlock
    <2>. QED
      BY <1>7, <2>1, <2>2 DEF Waits
  <1>14. WaitAll(frames', blocks')
    BY <1>1, <1>12, <1>13, InvFacts, WaitPush
  <1>15. OrderInv'
    <2>1. DOMAIN blocks' = DOMAIN blocks \cup {then, else, join}
      BY <1>10, <1>11 DEF Added
    <2>2. IsOrder(order, DOMAIN blocks)
      BY InvFacts DEF OrderInv
    <2>3. {then, else, join} \cap DOMAIN blocks = {} /\ then # else /\ then # join /\ else # join
      BY <1>5 DEF labels
    <2>. HIDE DEF labels
    <2>4. IsOrder(order', DOMAIN blocks')
      BY <1>1, <2>1, <2>2, <2>3, OrderGrows
    <2>. QED
      BY <2>4 DEF OrderInv
  <1>. QED
    BY <1>1, <1>12, <1>14, <1>15 DEF IRStep

\* The statement that ends, and those around it.
LEMMA TopWaits ==
  ASSUME LoweringInv, status = "lowering", frames # <<>>
  PROVE  LET f == Last(frames)
         IN  /\ WaitAll(Front(frames), blocks) /\ Waits(f, blocks) /\ IsFrame(f, DOMAIN blocks)
             /\ f = frames[Len(frames)]
             /\ Front(frames) \in Seq(Range(Front(frames)))
             /\ Len(frames) \in Nat \ {0} /\ Len(Front(frames)) = Len(frames) - 1
             /\ \A i \in 1 .. Len(frames) - 1 : Front(frames)[i] = frames[i]
             /\ IsStack(Front(frames), DOMAIN blocks)
  <1>1. /\ WaitAll(Front(frames), blocks) /\ Waits(Last(frames), blocks)
        /\ Last(frames) = frames[Len(frames)] /\ Front(frames) \in Seq(Range(Front(frames)))
    BY InvFacts, WaitPop
  <1>2. /\ Len(Front(frames)) = Len(frames) - 1
        /\ \A i \in 1 .. Len(frames) - 1 : Front(frames)[i] = frames[i]
    BY InvFacts, FrontFacts
  <1>3. Len(frames) \in Nat \ {0}
    BY InvFacts
  <1>4. \A i \in 1 .. Len(frames) : IsFrame(frames[i], DOMAIN blocks)
    BY InvFacts DEF IsStack
  <1>5. IsStack(Front(frames), DOMAIN blocks) /\ IsFrame(frames[Len(frames)], DOMAIN blocks)
    BY <1>1, <1>2, <1>3, <1>4 DEF IsStack
  <1>. QED
    BY <1>1, <1>2, <1>3, <1>5

LEMMA BeginElseIR ==
  ASSUME LoweringInv, NEW s \in Stmts, BeginElse(s)
  PROVE  IRStep
  <1> DEFINE f == Last(frames)
             g == [f EXCEPT !.k = "else", !.left = ctx.env]
  <1>1. /\ status = "lowering" /\ frames # <<>> /\ f.k = "then" /\ order' = order
        /\ frames' = Append(Front(frames), g) /\ ctx' = [ctx EXCEPT !.env = f.base]
    BY DEF BeginElse, InFrame, Lower
  <1>2. /\ WaitAll(Front(frames), blocks) /\ Waits(f, blocks) /\ IsFrame(f, DOMAIN blocks)
        /\ Front(frames) \in Seq(Range(Front(frames)))
    BY <1>1, TopWaits
  <1>3. FallsTo(blocks, blocks', cur, f.join)
    BY InvFacts, BeginElseStep
  <1>4. /\ g.k = "else" /\ g.base = f.base /\ g.left = ctx.env /\ g.join = f.join
    BY <1>1, <1>2 DEF IsFrame
  <1>5. /\ IsEnv(f.base, KnownIn(blocks)) /\ blocks[f.join].nodes = <<>>
        /\ f.join \in DOMAIN blocks
    BY <1>1, <1>2 DEF Waits, IsFrame
  <1>. HIDE DEF f, g
  <1>6. /\ IRInv(blocks', ctx) /\ WaitAll(frames, blocks') /\ KnownIn(blocks') = KnownIn(blocks)
        /\ KeepsNodes(blocks, blocks')
    BY <1>1, <1>3, InvFacts, FallInv
  <1>7. IRInv(blocks', ctx')
    BY <1>1, <1>5, <1>6, EnvChanged DEF IRInv
  <1>8. Waits(g, blocks')
    <2>1. IsEnv(ctx.env, KnownIn(blocks'))
      BY <1>6, InvFacts DEF IsContext, IsEnv
    <2>. QED
      BY <1>4, <1>5, <1>6, <2>1 DEF Waits, KeepsNodes
  <1>9. WaitAll(frames', blocks')
    <2>1. WaitAll(Front(frames), blocks')
      BY <1>1, <1>6, InvFacts, WaitPop
    <2>. QED
      BY <1>1, <1>2, <1>8, <2>1, WaitPush
  <1>10. OrderInv'
    BY <1>1, <1>6, InvFacts, OrderKept DEF KeepsNodes
  <1>. QED
    BY <1>7, <1>9, <1>10 DEF IRStep

LEMMA CloseIfIR ==
  ASSUME LoweringInv, NEW s \in Stmts, CloseIf(s)
  PROVE  IRStep
  <1> DEFINE K == KnownIn(blocks)
             f == Last(frames)
             bs == FallTo(blocks, cur, f.join)
             m == Merge(f, ctx.env, ctx)
  <1>1. /\ status = "lowering" /\ frames # <<>> /\ f.k = "else" /\ order' = order
        /\ frames' = Front(frames) /\ ctx' = m.ctx
    BY DEF CloseIf, InFrame, Lower
  <1>2. /\ FallsTo(blocks, bs, cur, f.join) /\ Writes(bs, blocks', f.join, m.code)
        /\ KeepsTerms(bs, blocks')
    BY InvFacts, CloseIfStep
  <1>3. /\ WaitAll(Front(frames), blocks) /\ Waits(f, blocks) /\ IsFrame(f, DOMAIN blocks)
        /\ f = frames[Len(frames)]
        /\ Front(frames) \in Seq(Range(Front(frames)))
        /\ Len(frames) \in Nat \ {0} /\ Len(Front(frames)) = Len(frames) - 1
        /\ \A i \in 1 .. Len(frames) - 1 : Front(frames)[i] = frames[i]
        /\ IsStack(Front(frames), DOMAIN blocks)
    BY <1>1, TopWaits
  <1>. HIDE DEF bs, f
  <1>4. /\ IsEnv(f.base, K) /\ IsEnv(f.left, K) /\ blocks[f.join].nodes = <<>>
        /\ f.join \in DOMAIN blocks /\ f.join[1] = "if_join"
    BY <1>1, <1>3 DEF Waits, IsFrame
  <1>5. /\ EmitsCode(ctx, K, m.code, m.ctx)
        /\ \A i \in 1 .. Len(m.code) : m.code[i].op = "phi"
    BY <1>4, InvFacts, MergeFacts
  <1>. HIDE DEF m
  <1>6. /\ IRInv(bs, ctx) /\ WaitAll(Front(frames), bs) /\ KnownIn(bs) = K
        /\ KeepsNodes(blocks, bs)
    BY <1>2, <1>3, InvFacts, FallInv
  <1>7. DOMAIN bs = DOMAIN blocks /\ \A l \in DOMAIN blocks : bs[l].nodes = blocks[l].nodes
    BY <1>6 DEF KeepsNodes
  <1>8. CodeInv(blocks', m.ctx) /\ KnownIn(blocks') = K \cup Results(m.code)
    <2>1. CodeInv(bs, ctx) /\ f.join \in DOMAIN bs
      BY <1>4, <1>6, <1>7 DEF IRInv
    <2>. HIDE DEF K
    <2>. QED
      BY <1>2, <1>5, <1>6, <2>1, CodeWritten
  <1>. HIDE DEF K
  <1>9. TermsInv(blocks')
    BY <1>2, <1>6, <1>8, TermsStay DEF IRInv
  <1>10. /\ DOMAIN blocks' = DOMAIN blocks /\ blocks'[f.join].nodes = m.code
         /\ \A l \in DOMAIN blocks \ {f.join} : blocks'[l].nodes = blocks[l].nodes
    <2>5. f.join \in DOMAIN bs
      BY <1>4, <1>7
    <2>1. /\ DOMAIN blocks' = DOMAIN bs /\ blocks'[f.join].nodes = bs[f.join].nodes \o m.code
          /\ \A l \in DOMAIN bs \ {f.join} : blocks'[l].nodes = bs[l].nodes
      BY <1>2, <2>5 DEF Writes
    <2>4. /\ DOMAIN blocks' = DOMAIN blocks /\ blocks'[f.join].nodes = <<>> \o m.code
          /\ \A l \in DOMAIN blocks \ {f.join} : blocks'[l].nodes = blocks[l].nodes
      BY <2>1, <1>4, <1>7
    <2>2. m.code \in Seq(Range(m.code))
      BY <1>5 DEF EmitsCode, IsCode
    <2>3. <<>> \o m.code = m.code
      BY <2>2
    <2>. QED
      BY <2>4, <2>3
  <1>11. PhisLead(blocks')
    <2>1. \A l \in DOMAIN blocks : PhisFirst(blocks[l].nodes)
      BY InvFacts, PhisLeadFirst DEF IRInv
    <2>2. PhisFirst(m.code)
      <3>1. Len(m.code) \in Nat
        BY <1>5 DEF EmitsCode, IsCode
      <3>2. ASSUME NEW i \in 2 .. Len(m.code) PROVE m.code[i - 1].op = "phi"
        <4>1. i - 1 \in 1 .. Len(m.code)
          BY <3>1
        <4>. QED
          BY <1>5, <4>1
      <3>. QED
        BY <3>2 DEF PhisFirst
    <2>3. \A l \in DOMAIN blocks' : PhisFirst(blocks'[l].nodes)
      BY <1>10, <2>1, <2>2
    <2>. QED
      BY <2>3, PhisLeadFirst
  <1>12. WaitAll(frames', blocks')
    <2>1. ASSUME NEW i \in 1 .. Len(frames) - 1 PROVE Waits(frames[i], blocks')
      <3> DEFINE g == frames[i]
      <3>1. i \in 1 .. Len(frames) /\ i # Len(frames) /\ Front(frames)[i] = g
        BY <1>3
      <3>2. Waits(g, blocks) /\ IsFrame(g, DOMAIN blocks)
        BY <1>3, <3>1 DEF WaitAll, IsStack
      <3>3. g.k \in {"then", "else"} => g.join # f.join
        <4>1. Len(frames) \in 1 .. Len(frames)
          BY <1>3
        <4>. QED
          BY <1>1, <1>3, <3>1, <4>1, JoinsWait DEF LoweringInv
      <3>. HIDE DEF g
      <3>4. g.k \in {"then", "else"} => blocks'[g.join].nodes = blocks[g.join].nodes
        BY <1>10, <3>2, <3>3 DEF IsFrame
      <3>5. g.k = "while" => Owned(blocks'[g.cond].nodes, g.base)
        BY <1>4, <1>10, <3>2 DEF IsFrame, Waits
      <3>6. KnownIn(blocks) \subseteq KnownIn(blocks')
        BY <1>8 DEF K
      <3>7. Waits(g, blocks')
        BY <3>2, <3>4, <3>5, <3>6, StillWaits
      <3>. QED
        BY <3>7 DEF g
    <2>. QED
      BY <1>1, <1>3, <2>1 DEF WaitAll
  <1>13. OrderInv'
    BY <1>1, <1>10, InvFacts, OrderKept
  <1>. QED
    BY <1>1, <1>8, <1>9, <1>11, <1>12, <1>13 DEF IRStep, IRInv

\* The phis of a condition block get the values of the body.
LEMMA PatchFacts ==
  ASSUME NEW K, NEW nodes, IsCode(nodes, K), NEW f, IsEnv(f.base, K), Owned(nodes, f.base),
         NEW env, IsEnv(env, K)
  PROVE  LET code == Patch(f, nodes, env)
         IN  /\ IsCode(code, K) /\ Len(code) = Len(nodes)
             /\ \A i \in 1 .. Len(nodes) : /\ code[i].res = nodes[i].res /\ code[i].op = nodes[i].op
                                            /\ code[i].args = nodes[i].args
  <1> DEFINE final(n) == LET id == CHOOSE id \in DOMAIN f.base : f.base[id] \in n.res
                         IN  IF id \in DOMAIN env THEN env[id] ELSE f.base[id]
             new(n) == [n EXCEPT !.inc[f.body] = final(n)]
             code == Patch(f, nodes, env)
  <1>1. code = [i \in DOMAIN nodes |-> IF nodes[i].op = "phi" THEN new(nodes[i]) ELSE nodes[i]]
    BY DEF Patch
  <1>2. /\ nodes \in Seq(Range(nodes)) /\ Len(nodes) \in Nat /\ DOMAIN nodes = 1 .. Len(nodes)
        /\ \A i \in 1 .. Len(nodes) : IsNode(nodes[i], K)
    BY DEF IsCode
  <1>3. ASSUME NEW i \in 1 .. Len(nodes), nodes[i].op = "phi"
        PROVE  final(nodes[i]) \in K
    <2> DEFINE id == CHOOSE id \in DOMAIN f.base : f.base[id] \in nodes[i].res
    <2>1. id \in DOMAIN f.base
      BY <1>3 DEF Owned
    <2>. QED
      BY <2>1 DEF IsEnv
  <1>4. ASSUME NEW i \in 1 .. Len(nodes), nodes[i].op = "phi"
        PROVE  IsNode(new(nodes[i]), K) /\ new(nodes[i]).res = nodes[i].res
               /\ new(nodes[i]).op = nodes[i].op /\ new(nodes[i]).args = nodes[i].args
    <2> DEFINE n == nodes[i]
               x == final(n)
               p == [n EXCEPT !.inc[f.body] = x]
    <2>1. x \in K /\ n.op = "phi" /\ IsNode(n, K)
      BY <1>2, <1>3, <1>4
    <2>2. new(nodes[i]) = p
      OBVIOUS
    <2>. HIDE DEF x, n
    <2>3. /\ DOMAIN p = {"op", "args", "res", "elem", "inc", "imm"}
          /\ p.op = n.op /\ p.args = n.args /\ p.res = n.res /\ p.inc = [n.inc EXCEPT ![f.body] = x]
      BY <2>1 DEF IsNode
    <2>. HIDE DEF p
    <2>4. Range(p.inc) \subseteq Range(n.inc) \cup {x}
      BY <2>3 DEF Range
    <2>5. Typed(p)
      BY <2>1, <2>3, UntypedNode
    <2>6. IsNode(p, K)
      BY <2>1, <2>3, <2>4, <2>5 DEF IsNode
    <2>. QED
      BY <2>2, <2>3, <2>6 DEF n
  <1>. HIDE DEF new, final
  <1>5. /\ Len(code) = Len(nodes) /\ DOMAIN code = 1 .. Len(nodes)
        /\ \A i \in 1 .. Len(nodes) :
             code[i] = IF nodes[i].op = "phi" THEN new(nodes[i]) ELSE nodes[i]
    BY <1>1, <1>2
  <1>6. code \in Seq(Range(code))
    <2>1. \A i \in 1 .. Len(nodes) : code[i] \in Range(code)
      BY <1>5 DEF Range
    <2>2. code = [i \in 1 .. Len(nodes) |-> code[i]]
      BY <1>1, <1>2
    <2>. HIDE DEF code
    <2>. QED
      BY <1>2, <1>5, <2>1, <2>2
  <1>. HIDE DEF code
  <1>7. \A i \in 1 .. Len(nodes) : /\ IsNode(code[i], K) /\ code[i].res = nodes[i].res
                                   /\ code[i].op = nodes[i].op /\ code[i].args = nodes[i].args
    BY <1>2, <1>4, <1>5
  <1>8. IsCode(code, K)
    BY <1>5, <1>6, <1>7 DEF IsCode
  <1>. QED
    BY <1>5, <1>7, <1>8 DEF code

LEMMA StepFacts ==
  ASSUME NEW K, IsContext(ctx, K), NEW f, f.step # <<>> => IsSimple(f.step[1]), LowerStep(f).ok
  PROVE  Yields(ctx, K, LowerStep(f))
  <1>1. CASE f.step = <<>>
    <2>1. LowerStep(f).code = <<>> /\ LowerStep(f).ctx = ctx
      BY <1>1 DEF LowerStep
    <2>. QED
      BY <2>1, NoNode DEF Yields
  <1>2. CASE f.step # <<>>
    <2>1. LowerStep(f) = LowerSimple(ctx, f.step[1])
      BY <1>2 DEF LowerStep
    <2>. QED
      BY <1>2, <2>1, SimpleFacts
  <1>. QED
    BY <1>1, <1>2

\* The condition block's phis are patched; nothing else changes.
LEMMA PatchInv ==
  ASSUME NEW bs, NEW c, IRInv(bs, c), NEW fs, IsStack(fs, DOMAIN bs), WaitAll(fs, bs),
         NEW f, f.k = "while", IsFrame(f, DOMAIN bs), Waits(f, bs),
         NEW env, IsEnv(env, KnownIn(bs)), NEW bs2,
         Fills(bs, bs2, f.cond, Patch(f, bs[f.cond].nodes, env)), KeepsTerms(bs, bs2)
  PROVE  IRInv(bs2, c) /\ WaitAll(fs, bs2) /\ KnownIn(bs2) = KnownIn(bs)
  <1> DEFINE nodes == bs[f.cond].nodes
             code == Patch(f, nodes, env)
             K == KnownIn(bs)
  <1>1. f.cond \in DOMAIN bs /\ f.cond[1] = "while_cond" /\ IsEnv(f.base, K) /\ Owned(nodes, f.base)
    BY DEF IsFrame, Waits
  <1>2. CodeInv(bs, c) /\ TermsInv(bs) /\ PhisLead(bs) /\ IsCode(nodes, K)
    BY <1>1 DEF IRInv, CodeInv
  <1>3. /\ IsCode(code, K) /\ Len(code) = Len(nodes)
        /\ \A i \in 1 .. Len(nodes) : code[i].res = nodes[i].res /\ code[i].op = nodes[i].op
    BY <1>1, <1>2, PatchFacts
  <1>4. Fills(bs, bs2, f.cond, code)
    OBVIOUS
  <1>. HIDE DEF code
  <1>5. CodeInv(bs2, c) /\ KnownIn(bs2) = K
    <2>. HIDE DEF nodes
    <2>1. Len(code) = Len(bs[f.cond].nodes)
          /\ \A i \in 1 .. Len(code) : code[i].res = bs[f.cond].nodes[i].res
      BY <1>3 DEF nodes
    <2>. QED
      BY <1>1, <1>2, <1>3, <1>4, <2>1, CodeChanged
  <1>6. TermsInv(bs2)
    BY <1>2, <1>5, TermsStay
  <1>7. /\ DOMAIN bs2 = DOMAIN bs /\ bs2[f.cond].nodes = code
        /\ \A l \in DOMAIN bs \ {f.cond} : bs2[l].nodes = bs[l].nodes
    BY <1>1, <1>4 DEF Fills
  <1>. HIDE DEF nodes, K
  <1>8. PhisLead(bs2)
    <2>1. \A l \in DOMAIN bs : PhisFirst(bs[l].nodes)
      BY <1>2, PhisLeadFirst
    <2>2. PhisFirst(code)
      <3>1. PhisFirst(nodes) /\ Len(nodes) \in Nat
        BY <1>1, <1>2, <2>1 DEF IsCode, nodes
      <3>2. ASSUME NEW i \in 2 .. Len(nodes), code[i].op = "phi" PROVE code[i - 1].op = "phi"
        <4>1. i \in 1 .. Len(nodes) /\ i - 1 \in 1 .. Len(nodes)
          BY <3>1
        <4>2. nodes[i].op = "phi" /\ code[i - 1].op = nodes[i - 1].op
          BY <1>3, <3>2, <4>1
        <4>. QED
          BY <3>1, <4>2 DEF PhisFirst
      <3>. QED
        BY <1>3, <3>2 DEF PhisFirst
    <2>3. \A l \in DOMAIN bs2 : PhisFirst(bs2[l].nodes)
      BY <1>7, <2>1, <2>2
    <2>. QED
      BY <2>3, PhisLeadFirst
  <1>9. \A base : Owned(nodes, base) => Owned(code, base)
    BY <1>3 DEF Owned
  <1>10. ASSUME NEW i \in 1 .. Len(fs) PROVE Waits(fs[i], bs2)
    <2> DEFINE g == fs[i]
    <2>1. Waits(g, bs) /\ IsFrame(g, DOMAIN bs)
      BY DEF WaitAll, IsStack
    <2>. HIDE DEF g
    <2>2. g.k \in {"then", "else"} => bs2[g.join].nodes = bs[g.join].nodes
      BY <1>1, <1>7, <2>1 DEF IsFrame
    <2>3. ASSUME g.k = "while" PROVE Owned(bs2[g.cond].nodes, g.base)
      <3>1. g.cond \in DOMAIN bs /\ Owned(bs[g.cond].nodes, g.base)
        BY <2>1, <2>3 DEF IsFrame, Waits
      <3>. QED
        BY <1>7, <1>9, <3>1 DEF nodes
    <2>4. KnownIn(bs) \subseteq KnownIn(bs2)
      BY <1>5 DEF K
    <2>5. Waits(g, bs2)
      BY <2>1, <2>2, <2>3, <2>4, StillWaits
    <2>. QED
      BY <2>5 DEF g
  <1>. QED
    BY <1>5, <1>6, <1>8, <1>10 DEF IRInv, WaitAll, K

\* The blocks as they are before the phis of the condition block are patched.
LEMMA LoopClosedFacts ==
  ASSUME LoweringInv, status = "lowering", frames # <<>>, NEW bs1, NEW bs2, Last(frames).k = "while",
         LowerStep(Last(frames)).ok, LoopClosed(Last(frames), bs1, bs2)
  PROVE  LET f == Last(frames)
             r == LowerStep(f)
         IN  /\ IRInv(bs2, r.ctx) /\ WaitAll(frames, bs2) /\ DOMAIN bs2 = DOMAIN blocks
             /\ IsStack(frames, DOMAIN bs2) /\ IsFrame(f, DOMAIN bs2) /\ Waits(f, bs2)
             /\ IsEnv(r.ctx.env, KnownIn(bs2)) /\ KnownIn(bs2) = KnownIn(bs1)
             /\ IRInv(bs1, r.ctx) /\ (f.step # <<>> => IsSimple(f.step[1]))
  <1> DEFINE K == KnownIn(blocks)
             f == Last(frames)
             r == LowerStep(f)
  <1>1. f.k = "while" /\ r.ok
    OBVIOUS
  <1>2. /\ IsFrame(f, DOMAIN blocks) /\ f = frames[Len(frames)]
        /\ Len(frames) \in Nat \ {0}
        /\ f.step # <<>> => IsSimple(f.step[1])
    <2>1. /\ IsFrame(f, DOMAIN blocks) /\ f = frames[Len(frames)]
          /\ Len(frames) \in Nat \ {0}
      BY TopWaits
    <2>2. f.k = "while"
      OBVIOUS
    <2>. HIDE DEF f
    <2>. QED
      BY <2>1, <2>2 DEF IsFrame
  <1>3. LoopClosed(f, bs1, bs2)
    OBVIOUS
  <1>. HIDE DEF f
  <1>4. Yields(ctx, K, r)
    BY <1>1, <1>2, InvFacts, StepFacts
  <1>5. /\ Writes(blocks, bs1, cur, r.code) /\ KeepsTerms(blocks, bs1)
        /\ FallsTo(bs1, bs2, cur, f.cond)
    BY <1>3 DEF LoopClosed
  <1>. HIDE DEF r, K
  <1>6. Extends(bs1, r.code, r.ctx)
    BY <1>4, <1>5, PlainWritten DEF Yields, K
  <1>7. IRInv(bs1, r.ctx) /\ WaitAll(frames, bs1) /\ DOMAIN bs1 = DOMAIN blocks
    <2>1. TermsInv(bs1)
      BY <1>5, <1>6, InvFacts, TermsStay DEF Extends
    <2>. QED
      BY <1>5, <1>6, <2>1 DEF Extends, IRInv, KeepsTerms
  <1>8. /\ IRInv(bs2, r.ctx) /\ WaitAll(frames, bs2) /\ KnownIn(bs2) = KnownIn(bs1)
        /\ DOMAIN bs2 = DOMAIN blocks
    <2>1. IsStack(frames, DOMAIN bs1)
      BY <1>7, InvFacts
    <2>2. /\ IRInv(bs2, r.ctx) /\ WaitAll(frames, bs2) /\ KnownIn(bs2) = KnownIn(bs1)
          /\ KeepsNodes(bs1, bs2)
      BY <1>5, <1>7, <2>1, FallInv
    <2>. QED
      BY <1>7, <2>2 DEF KeepsNodes
  <1>9. IsStack(frames, DOMAIN bs2) /\ IsFrame(f, DOMAIN bs2) /\ Waits(f, bs2)
    <2>1. Len(frames) \in 1 .. Len(frames)
      BY <1>2
    <2>. QED
      BY <1>2, <1>8, <2>1, InvFacts DEF WaitAll
  <1>10. IsEnv(r.ctx.env, KnownIn(bs2))
    BY <1>8 DEF IRInv, CodeInv, IsContext, IsEnv
  <1>. QED
    BY <1>2, <1>7, <1>8, <1>9, <1>10 DEF f, r

LEMMA CloseLoopIR ==
  ASSUME LoweringInv, NEW s \in Stmts, CloseLoop(s)
  PROVE  IRStep
  <1> DEFINE f == Last(frames)
             r == LowerStep(f)
  <1>1. /\ status = "lowering" /\ frames # <<>> /\ f.k = "while" /\ order' = order
        /\ frames' = Front(frames) /\ r.ok /\ ctx' = [r.ctx EXCEPT !.env = f.base]
    BY DEF CloseLoop, InFrame, Lower
  <1>2. PICK bs1, bs2 : LoopClosed(f, bs1, bs2)
    BY InvFacts, CloseLoopStep
  <1>3. /\ Fills(bs2, blocks', f.cond, Patch(f, bs2[f.cond].nodes, r.ctx.env))
        /\ KeepsTerms(bs2, blocks')
    BY <1>2 DEF LoopClosed
  <1>4. /\ IRInv(bs2, r.ctx) /\ WaitAll(frames, bs2) /\ DOMAIN bs2 = DOMAIN blocks
        /\ IsStack(frames, DOMAIN bs2) /\ IsFrame(f, DOMAIN bs2) /\ Waits(f, bs2)
        /\ IsEnv(r.ctx.env, KnownIn(bs2))
    BY <1>1, <1>2, LoopClosedFacts
  <1>. HIDE DEF f, r
  <1>5. /\ IRInv(blocks', r.ctx) /\ WaitAll(frames, blocks') /\ KnownIn(blocks') = KnownIn(bs2)
    BY <1>1, <1>3, <1>4, PatchInv
  <1>6. IsEnv(f.base, KnownIn(blocks'))
    BY <1>4, <1>5 DEF Waits
  <1>7. IRInv(blocks', ctx')
    BY <1>1, <1>5, <1>6, EnvChanged DEF IRInv
  <1>8. WaitAll(frames', blocks')
    BY <1>1, <1>5, InvFacts, WaitPop
  <1>9. OrderInv'
    <2>1. DOMAIN blocks' = DOMAIN blocks
      BY <1>3, <1>4 DEF KeepsTerms
    <2>. QED
      BY <1>1, <2>1, InvFacts, OrderKept
  <1>. QED
    BY <1>7, <1>8, <1>9 DEF IRStep

\* A loop opens: code before it, its condition block complete, its body empty.
LEMMA OpenIR ==
  ASSUME LoweringInv, status = "lowering", NEW c, NEW code,
         EmitsCode(ctx, KnownIn(blocks), code, c), Plain(code),
         NEW test, Balanced(test), NEW step, Open(c, code, test, step),
         NEW bs, NEW mid, LoopBlocks(c, code, test, bs, mid)
  PROVE  IRStep
  <1> DEFINE K == KnownIn(blocks)
             cond == CFP!WhileCond
             body == CFP!WhileBody
             exit == CFP!WhileExit
             labels == {cond, body, exit}
             h == Header(c, cur, body)
             e == LowerExpr(h.ctx, test)
             t == Branch(Result(e), body, exit)
             f == [k |-> "while", cond |-> cond, body |-> body, exit |-> exit,
                   base |-> h.ctx.env, step |-> step]
  <1>1. /\ ResultIs(e, "bool") /\ ctx' = e.ctx
        /\ order' = order \o <<cond, body, exit>> /\ frames' = Append(frames, f)
    BY DEF Open, Body, CFP!WhileCond, CFP!WhileBody, CFP!WhileExit
  <1>2. /\ Writes(blocks, bs, cur, code) /\ Ends(blocks, bs, cur, Jump(cond))
        /\ Added(bs, mid, labels)
        /\ Fills(mid, blocks', cond, h.code \o e.code) /\ Ends(mid, blocks', cond, t)
    BY DEF LoopBlocks
  <1>3. labels \cap DOMAIN blocks = {} /\ cond # body /\ cond # exit /\ body # exit
    BY LabelsAreNew
  <1>4. Jump(cond).k # "br" /\ Range(Jump(cond).uses) = {}
    BY DEF Jump, Term, Range
  <1>5. Range(t.uses) = {Result(e)} /\ t.uses[1] = Result(e)
    BY DEF Branch, Term, Range
  <1>6. f.k = "while" /\ f.base = h.ctx.env /\ f.cond = cond
    OBVIOUS
  <1>. HIDE DEF K, cond, body, exit, t, f
  <1>7. Extends(bs, code, c)
    <2>. HIDE DEF e, h, labels
    <2>. QED
      BY <1>2, PlainWritten
  <1>8. /\ IRInv(bs, c) /\ WaitAll(frames, bs) /\ DOMAIN bs = DOMAIN blocks
        /\ KnownIn(blocks) \subseteq KnownIn(bs)
    <2>1. TermsInv(bs)
      <3>. HIDE DEF e, h, labels
      <3>. QED
        BY <1>2, <1>4, <1>7, InvFacts, TermEnds DEF Extends
    <2>. QED
      BY <1>2, <1>7, <2>1 DEF Extends, IRInv, Ends
  <1>9. IRInv(mid, c) /\ WaitAll(frames, mid) /\ KnownIn(mid) = KnownIn(bs)
    <2>. HIDE DEF e, h, labels
    <2>. QED
      BY <1>2, <1>3, <1>8, InvFacts, AddedInv
  <1> DEFINE M == KnownIn(mid)
  <1>10. /\ EmitsCode(c, M, h.code, h.ctx)
         /\ \A i \in 1 .. Len(h.code) : h.code[i].op = "phi"
         /\ IsEnv(h.ctx.env, M \cup Results(h.code)) /\ Owned(h.code, h.ctx.env)
    <2>1. IsContext(c, M)
      BY <1>9 DEF IRInv, CodeInv
    <2>. HIDE DEF M
    <2>. QED
      BY <2>1, HeaderFacts
  <1>. HIDE DEF h
  <1> DEFINE H == M \cup Results(h.code)
  <1>11. Accumulates(h.ctx, H, e, 1) /\ Result(e) \in Known(H, e) /\ Result(e).typ = "bool"
    <2>1. IsContext(h.ctx, H) /\ e.ok /\ Result(e).typ = "bool"
      BY <1>1, <1>10 DEF EmitsCode, ResultIs
    <2>. HIDE DEF H
    <2>. QED
      BY <2>1, ExprFacts
  <1>. HIDE DEF e
  <1>12. EmitsCode(h.ctx, H, e.code, e.ctx) /\ Plain(e.code)
    BY <1>11 DEF Accumulates
  <1>13. EmitsCode(c, M, h.code \o e.code, e.ctx)
    <2>. HIDE DEF M
    <2>. QED
      BY <1>10, <1>12, EmitsBoth
  <1>14. h.code \in Seq(Range(h.code)) /\ e.code \in Seq(Range(e.code))
    BY <1>10, <1>12 DEF EmitsCode, IsCode
  <1>15. Results(h.code \o e.code) = Results(h.code) \cup Results(e.code)
    BY <1>14, ResultsOfBoth
  <1>16. DOMAIN mid = DOMAIN blocks \cup labels /\ cond \in DOMAIN mid
         /\ mid[cond].nodes = <<>> /\ \A l \in DOMAIN blocks : mid[l].nodes = bs[l].nodes
    BY <1>2, <1>3, <1>8 DEF Added, NewBlock
  <1> DEFINE new == h.code \o e.code
  <1>17. new \in Seq(Range(new))
    BY <1>13 DEF EmitsCode, IsCode
  <1>. HIDE DEF new
  <1>18. Writes(mid, blocks', cond, new)
    <2>1. Fills(mid, blocks', cond, new)
      BY <1>2 DEF new
    <2>2. <<>> \o new = new
      BY <1>17
    <2>. QED
      BY <1>16, <2>1, <2>2 DEF Fills, Writes
  <1>19. CodeInv(blocks', e.ctx) /\ KnownIn(blocks') = M \cup Results(new)
    <2>1. CodeInv(mid, c) /\ EmitsCode(c, KnownIn(mid), new, e.ctx)
      BY <1>9, <1>13 DEF IRInv, new
    <2>2. CodeInv(blocks', e.ctx) /\ KnownIn(blocks') = KnownIn(mid) \cup Results(new)
      <3>. HIDE DEF labels
      <3>. QED
        BY <1>16, <1>18, <2>1, CodeWritten
    <2>. QED
      BY <2>2
  <1>20. KnownIn(blocks') = H \cup Results(e.code)
    BY <1>15, <1>19 DEF new
  <1>21. TermsInv(blocks')
    <2>1. TermsInv(mid) /\ KnownIn(mid) \subseteq KnownIn(blocks')
      BY <1>9, <1>19 DEF IRInv
    <2>2. Range(t.uses) \subseteq KnownIn(blocks') /\ (t.k = "br" => t.uses[1].typ = "bool")
      BY <1>5, <1>11, <1>20 DEF Known
    <2>. HIDE DEF labels
    <2>. QED
      BY <1>2, <2>1, <2>2, TermEnds
  <1>22. PhisFirst(new) /\ Owned(new, f.base)
    <2>1. PhisFirst(h.code)
      <3>1. Len(h.code) \in Nat
        BY <1>14
      <3>2. ASSUME NEW i \in 2 .. Len(h.code) PROVE h.code[i - 1].op = "phi"
        <4>1. i - 1 \in 1 .. Len(h.code)
          BY <3>1
        <4>. QED
          BY <1>10, <4>1
      <3>. QED
        BY <3>2 DEF PhisFirst
    <2>. QED
      BY <1>6, <1>10, <1>12, <1>14, <2>1, PhisFirstBoth DEF new
  <1>23. DOMAIN blocks' = DOMAIN mid /\ blocks'[cond].nodes = new
         /\ \A l \in DOMAIN mid \ {cond} : blocks'[l].nodes = mid[l].nodes
    BY <1>2, <1>16 DEF Fills, new
  <1>24. PhisLead(blocks')
    <2>1. \A l \in DOMAIN mid : PhisFirst(mid[l].nodes)
      BY <1>9, PhisLeadFirst DEF IRInv
    <2>2. \A l \in DOMAIN blocks' : PhisFirst(blocks'[l].nodes)
      BY <1>22, <1>23, <2>1
    <2>. QED
      BY <2>2, PhisLeadFirst
  <1>25. WaitAll(frames, blocks')
    <2> SUFFICES ASSUME NEW i \in 1 .. Len(frames) PROVE Waits(frames[i], blocks')
      BY DEF WaitAll
    <2> DEFINE g == frames[i]
    <2>1. Waits(g, mid) /\ IsFrame(g, DOMAIN blocks)
      BY <1>9, InvFacts DEF WaitAll, IsStack
    <2>2. cond \notin DOMAIN blocks /\ DOMAIN blocks \subseteq DOMAIN mid
      BY <1>3, <1>16
    <2>3. KnownIn(mid) \subseteq KnownIn(blocks')
      BY <1>19
    <2>. HIDE DEF g
    <2>4. g.k \in {"then", "else"} => blocks'[g.join].nodes = mid[g.join].nodes
      BY <1>23, <2>1, <2>2 DEF IsFrame
    <2>5. g.k = "while" => Owned(blocks'[g.cond].nodes, g.base)
      BY <1>23, <2>1, <2>2 DEF IsFrame, Waits
    <2>6. Waits(g, blocks')
      BY <2>1, <2>3, <2>4, <2>5, StillWaits
    <2>. QED
      BY <2>6 DEF g
  <1>26. Waits(f, blocks')
    <2>1. IsEnv(f.base, KnownIn(blocks'))
      BY <1>6, <1>10, <1>20 DEF IsEnv
    <2>. QED
      BY <1>6, <1>22, <1>23, <2>1 DEF Waits
  <1>27. WaitAll(frames', blocks')
    BY <1>1, <1>25, <1>26, InvFacts, WaitPush
  <1>28. OrderInv'
    <2>1. DOMAIN blocks' = DOMAIN blocks \cup {cond, body, exit}
      BY <1>16, <1>23
    <2>2. IsOrder(order, DOMAIN blocks)
      BY InvFacts DEF OrderInv
    <2>3. {cond, body, exit} \cap DOMAIN blocks = {} /\ cond # body /\ cond # exit /\ body # exit
      BY <1>3
    <2>. HIDE DEF labels
    <2>4. IsOrder(order', DOMAIN blocks')
      BY <1>1, <2>1, <2>2, <2>3, OrderGrows
    <2>. QED
      BY <2>4 DEF OrderInv
  <1>. QED
    BY <1>1, <1>19, <1>21, <1>24, <1>27, <1>28 DEF IRStep, IRInv

LEMMA OpenWhileIR ==
  ASSUME LoweringInv, More, NEW s \in Stmts, s.s = "while", OpenWhile(s)
  PROVE  IRStep
  <1>1. status = "lowering" /\ Open(ctx, <<>>, s.expr, <<>>)
    BY DEF OpenWhile, Lower
  <1>2. EmitsCode(ctx, KnownIn(blocks), <<>>, ctx) /\ Plain(<<>>)
    BY InvFacts, NoNode
  <1>3. Balanced(s.expr)
    BY StmtFacts, LoweringAssumption
  <1>4. PICK bs, mid : LoopBlocks(ctx, <<>>, s.expr, bs, mid)
    BY InvFacts, OpenWhileStep
  <1>. QED
    BY <1>1, <1>2, <1>3, <1>4, OpenIR

LEMMA OpenForIR ==
  ASSUME LoweringInv, More, NEW s \in Stmts, s.s = "for", OpenFor(s)
  PROVE  IRStep
  <1> DEFINE a == LowerAssign(ctx, s.id, s.start)
             step == <<ForStep(s)>>
  <1>1. status = "lowering" /\ a.ok /\ Open(a.ctx, a.code, RangeTest(s), step)
    BY InvFacts, OpenForStep DEF OpenFor, Lower
  <1>2. s.id \in VarNames /\ Balanced(s.start) /\ Balanced(RangeTest(s))
    BY StmtFacts, ForFacts, LoweringAssumption
  <1>3. EmitsCode(ctx, KnownIn(blocks), a.code, a.ctx) /\ Plain(a.code)
    BY <1>1, <1>2, InvFacts, AssignFacts DEF Yields
  <1>4. PICK bs, mid : LoopBlocks(a.ctx, a.code, RangeTest(s), bs, mid)
    BY InvFacts, OpenForStep
  <1>. HIDE DEF a, step
  <1>. QED
    BY <1>1, <1>2, <1>3, <1>4, OpenIR

\* Finished functions wait for nothing.
LEMMA FinishIR ==
  ASSUME LoweringInv, Finish
  PROVE  OrderInv' /\ IRInv(blocks', ctx') /\ status' # "lowering"
  <1>1. /\ \/ blocks' = blocks
           \/ KeepsNodes(blocks, blocks') /\ Ends(blocks, blocks', cur, Return(<<>>))
        /\ UNCHANGED <<order, cur, frames, ctx>>
    BY InvFacts, FinishStep
  <1>2. status' # "lowering"
    BY DEF Finish
  <1>3. CASE blocks' = blocks
    BY <1>1, <1>2, <1>3, InvFacts, OrderKept
  <1>4. CASE KeepsNodes(blocks, blocks') /\ Ends(blocks, blocks', cur, Return(<<>>))
    <2>1. Return(<<>>).k # "br" /\ Range(Return(<<>>).uses) = {}
      BY DEF Return, Term, Range
    <2>2. CodeInv(blocks', ctx') /\ KnownIn(blocks') = KnownIn(blocks)
      BY <1>1, <1>4, InvFacts, CodeKept DEF IRInv
    <2>3. TermsInv(blocks')
      BY <1>4, <2>1, <2>2, InvFacts, TermEnds
    <2>4. PhisLead(blocks')
      BY <1>4, InvFacts DEF IRInv, PhisLead, KeepsNodes
    <2>5. OrderInv'
      BY <1>1, <1>4, InvFacts, OrderKept DEF KeepsNodes
    <2>. QED
      BY <1>2, <2>2, <2>3, <2>4, <2>5 DEF IRInv
  <1>. QED
    BY <1>1, <1>3, <1>4

LEMMA LoweringInvNext == LoweringInv /\ [Next]_vars => LoweringInv'
  <1>. SUFFICES ASSUME LoweringInv, [Next]_vars PROVE LoweringInv'
    OBVIOUS
  <1>1. GraphInv'
    BY GraphInvNext DEF LoweringInv
  <1>2. CASE UNCHANGED vars
    <2>1. UNCHANGED <<status, blocks, order, frames, ctx>>
      BY <1>2 DEF vars
    <2>2. OrderInv' /\ IRInv(blocks, ctx)' /\ (status = "lowering" => WaitAll(frames, blocks))'
      BY <2>1, InvFacts DEF OrderInv
    <2>. QED
      BY <1>1, <2>2 DEF LoweringInv
  <1>3. CASE Finish
    BY <1>1, <1>3, FinishIR DEF LoweringInv
  <1>4. ASSUME NEW s \in Stmts, Lowers(s) PROVE LoweringInv'
    <2>1. CASE s.s \in SimpleStmts /\ Simple(s)
      BY <2>1, SimpleIR, <1>1 DEF LoweringInv, IRStep
    <2>2. CASE s.s = "return" /\ ReturnStmt(s)
      BY <2>2, ReturnIR, <1>1 DEF LoweringInv, IRStep
    <2>3. CASE s.s = "if" /\ More /\ OpenIf(s)
      BY <2>3, OpenIfIR, <1>1 DEF LoweringInv, IRStep
    <2>4. CASE s.s = "while" /\ More /\ OpenWhile(s)
      BY <2>4, OpenWhileIR, <1>1 DEF LoweringInv, IRStep
    <2>5. CASE s.s = "for" /\ More /\ OpenFor(s)
      BY <2>5, OpenForIR, <1>1 DEF LoweringInv, IRStep
    <2>6. CASE BeginElse(s)
      BY <2>6, BeginElseIR, <1>1 DEF LoweringInv, IRStep
    <2>7. CASE CloseIf(s)
      BY <2>7, CloseIfIR, <1>1 DEF LoweringInv, IRStep
    <2>8. CASE CloseLoop(s)
      BY <2>8, CloseLoopIR, <1>1 DEF LoweringInv, IRStep
    <2>9. CASE Raise(s)
      <3>1. status' = "rejected" /\ UNCHANGED <<blocks, order, ctx>>
        BY <2>9 DEF Raise
      <3>. QED
        BY <1>1, <3>1, InvFacts DEF LoweringInv, OrderInv
    <2>. QED
      BY <1>4, <2>1, <2>2, <2>3, <2>4, <2>5, <2>6, <2>7, <2>8, <2>9 DEF Lowers
  <1>. QED
    BY <1>2, <1>3, <1>4 DEF Next

\* A function begins with its arguments, and no code.
LEMMA ArgFacts ==
  /\ Range(Args) \subseteq Values
  /\ \A v \in Range(Args) : v.name[2] = 0 /\ v.name[1] \in VarNames
  /\ {v.name[1] : v \in Range(Args)} = {Params[i].id : i \in DOMAIN Params}
  <1>1. Params \in Seq([id : VarNames, typ : ValueTypes])
    BY LoweringAssumption
  <1>2. ASSUME NEW i \in DOMAIN Params
        PROVE  Params[i].id \in VarNames /\ Params[i].typ \in ValueTypes
    <2> DEFINE P == [id : VarNames, typ : ValueTypes]
    <2>1. Params[i] \in P
      <3>1. Params \in Seq(P)
        BY <1>1
      <3>. HIDE DEF P
      <3>. QED
        BY <3>1
    <2>. QED
      BY <2>1
  <1>3. Range(Args) = {Value(Params[i].id, 0, Params[i].typ) : i \in DOMAIN Params}
    BY DEF Args, Range
  <1>4. \A i \in DOMAIN Params : LET v == Value(Params[i].id, 0, Params[i].typ)
                                 IN  v \in Values /\ v.name[1] = Params[i].id /\ v.name[2] = 0
    BY <1>2 DEF Value, Values
  <1>. QED
    BY <1>2, <1>3, <1>4

LEMMA ContextInit ==
  ASSUME Init
  PROVE  IsContext(ctx, Range(Args)) /\ ArgNames \subseteq Given(ctx)
  <1> DEFINE ids == {Params[i].id : i \in DOMAIN Params}
             arg(id) == CHOOSE v \in Range(Args) : v.name[1] = id
             arrays == {id \in ids : IsPtr(arg(id).typ)}
             elem(id) == CHOOSE e \in Scalars : PtrTo[e] = arg(id).typ
             c == [env |-> [id \in ids |-> arg(id)],
                   arrays |-> [id \in arrays |-> [ptr |-> arg(id), elem |-> elem(id), len |-> {}]],
                   tmp |-> 0,
                   ver |-> [id \in VarNames |-> IF id \in ids THEN 1 ELSE 0]]
  <1>1. ctx = c
    BY DEF Init
  <1>2. \A id \in ids : arg(id) \in Range(Args)
    BY ArgFacts
  <1>3. ids \subseteq VarNames
    BY ArgFacts
  <1>4. ASSUME NEW id \in arrays
        PROVE  elem(id) \in Scalars /\ PtrTo[elem(id)] = arg(id).typ
    <2>1. arg(id).typ \in Pointers
      BY DEF IsPtr
    <2>. HIDE DEF arg
    <2>2. \E e \in Scalars : PtrTo[e] = arg(id).typ
      BY <2>1 DEF Pointers
    <2>. QED
      BY <2>2
  <1>. HIDE DEF arg, elem
  <1>5. ASSUME NEW id \in DOMAIN c.arrays PROVE IsArray(c.arrays[id], Range(Args))
    BY <1>2, <1>4 DEF IsArray
  <1>6. /\ DOMAIN c = {"env", "arrays", "tmp", "ver"} /\ c.tmp \in Nat
        /\ c.ver \in [VarNames -> Nat]
        /\ DOMAIN c.env \subseteq VarNames /\ \A id \in DOMAIN c.env : c.env[id] \in Range(Args)
        /\ DOMAIN c.arrays \subseteq VarNames
    BY <1>2, <1>3
  <1>7. /\ \A id \in ids : c.ver[id] = 1
    BY <1>3
  <1>. HIDE DEF c
  <1>8. IsContext(c, Range(Args))
    BY <1>5, <1>6, ArgFacts DEF IsContext
  <1>9. ASSUME NEW v \in Range(Args) PROVE v.name \in Given(c)
    <2>1. /\ v.name \in (VarNames \cup {"%t"}) \X Nat /\ v.name[2] = 0 /\ v.name[1] \in VarNames
          /\ v.name[1] \in ids
      BY ArgFacts DEF Values
    <2>2. v.name \in VarNames \X Nat /\ v.name[2] < c.ver[v.name[1]]
      BY <1>7, <2>1
    <2>. QED
      BY <2>2 DEF Given
  <1>. QED
    BY <1>1, <1>8, <1>9 DEF ArgNames

LEMMA LoweringInvInit == Init => LoweringInv
  <1>. SUFFICES ASSUME Init PROVE LoweringInv
    OBVIOUS
  <1>1. /\ blocks = [l \in {Entry} |-> NewBlock] /\ order = <<Entry>> /\ frames = <<>>
    BY DEF Init
  <1>2. DOMAIN blocks = {Entry} /\ blocks[Entry].nodes = <<>> /\ blocks[Entry].term = NoTerm
    BY <1>1 DEF NewBlock
  <1>3. /\ Results(<<>>) = {} /\ CodeNames(<<>>) = {} /\ PhisFirst(<<>>)
        /\ \A K : IsCode(<<>>, K) /\ NamesOnce(<<>>) /\ \A N : NamesIn(<<>>, N)
    BY DEF Results, Range, CodeNames, IsCode, NamesOnce, NamesIn, PhisFirst
  <1>4. KnownIn(blocks) = Range(Args)
    BY <1>2, <1>3 DEF KnownIn
  <1>5. CodeInv(blocks, ctx)
    BY <1>2, <1>3, <1>4, ContextInit DEF CodeInv
  <1>6. TermsInv(blocks)
    <2>1. Range(NoTerm.uses) = {} /\ NoTerm.k # "br"
      BY DEF NoTerm, Term, Range
    <2>. QED
      BY <1>2, <2>1 DEF TermsInv
  <1>7. PhisLead(blocks)
    BY <1>2, <1>3, PhisLeadFirst
  <1>8. OrderInv
    <2>1. <<Entry>> \in Seq({Entry}) /\ Range(<<Entry>>) = {Entry} /\ IsInjective(<<Entry>>)
      BY DEF Range, IsInjective
    <2>. QED
      BY <1>1, <1>2, <2>1 DEF OrderInv, IsOrder
  <1>9. WaitAll(frames, blocks)
    BY <1>1 DEF WaitAll
  <1>. QED
    BY <1>5, <1>6, <1>7, <1>8, <1>9, GraphInvInit DEF LoweringInv, IRInv

\* The invariant that carries all of what follows: code, names, terminators,
\* pending statements and the graph of blocks together.
THEOREM LoweringIsSound == Spec => []LoweringInv
  BY LoweringInvInit, LoweringInvNext, PTL DEF Spec

\* Type correctness of the front end: the blocks and their order agree, and the
\* stack, the counters and the names in scope stay what they are meant to be.
THEOREM LoweringTypeCorrect == Spec => []TypeOK
  <1>1. LoweringInv => TypeOK
    <2>. SUFFICES ASSUME LoweringInv PROVE TypeOK
      OBVIOUS
    <2>1. /\ Shape /\ IsContext(ctx, KnownIn(blocks)) /\ IsStack(frames, DOMAIN blocks)
          /\ IsOrder(order, DOMAIN blocks)
      BY InvFacts DEF OrderInv
    <2>2. ASSUME NEW f \in Range(frames)
          PROVE  \/ f.k \in {"then", "else"} /\ {f.then, f.else, f.join} \subseteq DOMAIN blocks
                 \/ f.k = "while" /\ {f.cond, f.body, f.exit} \subseteq DOMAIN blocks
      <3>1. PICK i \in 1 .. Len(frames) : f = frames[i]
        BY <2>1 DEF IsStack, Range
      <3>2. IsFrame(f, DOMAIN blocks)
        BY <2>1, <3>1 DEF IsStack
      <3>. QED
        BY <3>2 DEF IsFrame
    <2>. QED
      BY <2>1, <2>2 DEF TypeOK, Shape, IsContext, IsOrder
  <1>. QED
    BY <1>1, LoweringIsSound, PTL

\* No name is given two definitions, at any moment of the lowering of any
\* program: the counters of _new_named_value and _new_temp_value keep names
\* apart across branches, loops and reassignments.
THEOREM LoweringAssignsOnce == Spec => []SingleAssignment
  <1>1. LoweringInv => SingleAssignment
    <2>. SUFFICES ASSUME LoweringInv PROVE SingleAssignment
      OBVIOUS
    <2> DEFINE sites == UNION {{<<l, i>> : i \in DOMAIN blocks[l].nodes} : l \in DOMAIN blocks}
               At(s) == {v.name : v \in blocks[s[1]].nodes[s[2]].res}
    <2>1. CodeInv(blocks, ctx)
      BY InvFacts DEF IRInv
    <2>2. ASSUME NEW s \in sites
          PROVE  /\ s[1] \in DOMAIN blocks /\ s[2] \in 1 .. Len(blocks[s[1]].nodes)
                 /\ s = <<s[1], s[2]>>
                 /\ At(s) = ResNames(blocks[s[1]].nodes[s[2]])
      <3>1. PICK l \in DOMAIN blocks : \E i \in DOMAIN blocks[l].nodes : s = <<l, i>>
        OBVIOUS
      <3>2. PICK i \in DOMAIN blocks[l].nodes : s = <<l, i>>
        BY <3>1
      <3>3. blocks[l].nodes \in Seq(Range(blocks[l].nodes))
        BY <2>1 DEF CodeInv, IsCode
      <3>4. i \in 1 .. Len(blocks[l].nodes)
        BY <3>3
      <3>. QED
        BY <3>2, <3>4 DEF ResNames
    <2>. HIDE DEF sites, At
    <2>3. ASSUME NEW s \in sites PROVE At(s) \subseteq CodeNames(blocks[s[1]].nodes)
      BY <2>2 DEF CodeNames
    <2>4. ASSUME NEW s \in sites, NEW t \in sites, s # t PROVE At(s) \cap At(t) = {}
      <3>1. CASE s[1] = t[1]
        <4>1. s[2] # t[2]
          BY <2>2, <2>4, <3>1
        <4>2. NamesOnce(blocks[s[1]].nodes)
          BY <2>1, <2>2 DEF CodeInv
        <4>. QED
          BY <2>2, <3>1, <4>1, <4>2 DEF NamesOnce
      <3>2. CASE s[1] # t[1]
        <4>1. CodeNames(blocks[s[1]].nodes) \cap CodeNames(blocks[t[1]].nodes) = {}
          BY <2>1, <2>2, <3>2 DEF CodeInv
        <4>. QED
          BY <2>3, <4>1
      <3>. QED
        BY <3>1, <3>2
    <2>5. ASSUME NEW s \in sites PROVE At(s) \cap ArgNames = {}
      <3>1. CodeNames(blocks[s[1]].nodes) \subseteq Given(ctx) \ ArgNames
        BY <2>1, <2>2, NamesOfFacts DEF CodeInv
      <3>. QED
        BY <2>3, <3>1
    <2>. QED
      BY <2>4, <2>5 DEF SingleAssignment, SingleDefinitions, ArgNames, sites, At
  <1>. QED
    BY <1>1, LoweringIsSound, PTL

\* A finished function can be printed: every block ends, in blocks that exist
\* and never in the entry; phis open their block; what is read is defined.
THEOREM LoweringIsWellFormed == Spec => []IRWellFormed
  <1>1. LoweringInv => IRWellFormed
    <2>. SUFFICES ASSUME LoweringInv, status = "done"
                  PROVE  BlocksEnd(blocks) /\ PhisLead(blocks) /\ UsesDefined(blocks, Args)
      BY DEF IRWellFormed, Done
    <2>1. CodeInv(blocks, ctx) /\ TermsInv(blocks) /\ PhisLead(blocks)
      BY InvFacts DEF IRInv
    <2>2. BlocksEnd(blocks)
      <3>1. /\ OpenIn(blocks) = {}
            /\ \A l \in DOMAIN GraphOf(blocks) :
                 GraphOf(blocks)[l] \subseteq DOMAIN GraphOf(blocks) \ {Entry}
        BY DEF LoweringInv, GraphInv, CFP!Inv, CFP!TypeOK, CFP!EntryHasNoPreds, CFP!Entry, Entry
      <3>2. DOMAIN GraphOf(blocks) = DOMAIN blocks
            /\ \A l \in DOMAIN blocks : GraphOf(blocks)[l] = Succ(blocks, l)
        BY DEF GraphOf
      <3>. QED
        BY <3>1, <3>2 DEF BlocksEnd, OpenIn
    <2>3. UsesDefined(blocks, Args)
      <3> DEFINE defined == Range(Args) \cup UNION {Defs(blocks[l]) : l \in DOMAIN blocks}
      <3>1. defined = KnownIn(blocks)
        BY DEF KnownIn, Defs, Results
      <3>2. ASSUME NEW l \in DOMAIN blocks, NEW n \in Range(blocks[l].nodes)
            PROVE  Range(n.args) \cup Range(n.inc) \subseteq KnownIn(blocks)
        <4>1. IsCode(blocks[l].nodes, KnownIn(blocks))
          BY <2>1 DEF CodeInv
        <4>2. PICK i \in 1 .. Len(blocks[l].nodes) : n = blocks[l].nodes[i]
          BY <4>1 DEF IsCode, Range
        <4>3. IsNode(n, KnownIn(blocks))
          BY <4>1, <4>2 DEF IsCode
        <4>4. n.args \in Seq(KnownIn(blocks)) /\ Range(n.inc) \subseteq KnownIn(blocks)
          BY <4>3 DEF IsNode
        <4>5. Range(n.args) \subseteq KnownIn(blocks)
          BY <4>4 DEF Range
        <4>. QED
          BY <4>4, <4>5
      <3>3. \A l \in DOMAIN blocks : Range(blocks[l].term.uses) \subseteq KnownIn(blocks)
        BY <2>1 DEF TermsInv
      <3>. QED
        BY <3>1, <3>2, <3>3 DEF UsesDefined
    <2>. QED
      BY <2>1, <2>2, <2>3
  <1>. QED
    BY <1>1, LoweringIsSound, PTL

\* Memory, casts, comparisons and calls get operands of the types they are
\* printed with, and branches get booleans, whatever is assigned to what.
THEOREM LoweringTypesMemory == Spec => []MemoryIsTyped
  <1>1. LoweringInv => MemoryIsTyped
    <2>. SUFFICES ASSUME LoweringInv PROVE MemoryIsTyped
      OBVIOUS
    <2>1. CodeInv(blocks, ctx) /\ TermsInv(blocks)
      BY InvFacts DEF IRInv
    <2>2. ASSUME NEW n \in AllNodes PROVE Typed(n)
      <3>1. PICK l \in DOMAIN blocks : n \in Range(blocks[l].nodes)
        BY DEF AllNodes
      <3>2. IsCode(blocks[l].nodes, KnownIn(blocks))
        BY <2>1 DEF CodeInv
      <3>3. PICK i \in 1 .. Len(blocks[l].nodes) : n = blocks[l].nodes[i]
        BY <3>1, <3>2 DEF IsCode, Range
      <3>. QED
        BY <3>2, <3>3 DEF IsCode, IsNode
    <2>. QED
      BY <2>1, <2>2 DEF MemoryIsTyped, Typed, TermsInv
  <1>. QED
    BY <1>1, LoweringIsSound, PTL

-----------------------------------------------------------------------------
(* Dominance.  An expression reads the names in scope and changes none.       *)

\* The accumulator a still has the scope it began with.
HasScope(a, env, arrays) ==
  /\ {"ok", "code", "ctx", "stack"} \subseteq DOMAIN a
  /\ {"env", "arrays", "tmp", "ver"} \subseteq DOMAIN a.ctx
  /\ a.ctx.env = env /\ a.ctx.arrays = arrays

LEMMA EmitScope ==
  ASSUME NEW a, NEW env, NEW arrays, HasScope(a, env, arrays)
  PROVE  /\ \A op, args, typ, elem : HasScope(Emit(a, op, args, typ, elem), env, arrays)
         /\ \A typ, i : HasScope(EmitConst(a, typ, i), env, arrays)
         /\ \A n, v, lit, const : HasScope(Push(a, n, v, lit, const), env, arrays)
         /\ \A p : HasScope(FailIf(p, a), env, arrays)
  <1>1. \A op, args, typ, elem : HasScope(Emit(a, op, args, typ, elem), env, arrays)
    BY DEF HasScope, Emit
  <1>2. \A typ, i : HasScope(EmitConst(a, typ, i), env, arrays)
    BY DEF HasScope, EmitConst
  <1>3. \A n, v, lit, const : HasScope(Push(a, n, v, lit, const), env, arrays)
    BY DEF HasScope, Push
  <1>4. \A p : HasScope(FailIf(p, a), env, arrays)
    BY DEF HasScope, FailIf
  <1>. QED
    BY <1>1, <1>2, <1>3, <1>4

LEMMA PushScope ==
  ASSUME NEW a, NEW env, NEW arrays, HasScope(a, env, arrays)
  PROVE  \A n, op, args, typ, elem, lit, const :
           HasScope(EmitPush(a, n, op, args, typ, elem, lit, const), env, arrays)
  BY EmitScope DEF EmitPush

LEMMA ToFloatScope ==
  ASSUME NEW a, NEW env, NEW arrays, HasScope(a, env, arrays), NEW i
  PROVE  HasScope(ToFloat(a, i), env, arrays)
  <1> DEFINE e == Emit(a, "cast", <<Arg(a, i).val>>, "float", "float")
             v == Fresh(a, "float")
  <1>1. HasScope(e, env, arrays)
    BY EmitScope
  <1>. HIDE DEF e
  <1>2. HasScope([e EXCEPT !.stack[Len(a.stack) - i].val = v], env, arrays)
    BY <1>1 DEF HasScope
  <1>. QED
    BY <1>2 DEF ToFloat, e

LEMMA BinaryScope ==
  ASSUME NEW a, NEW env, NEW arrays, HasScope(a, env, arrays), NEW op, NEW typ
  PROVE  /\ HasScope(EmitBinary(a, op, typ), env, arrays)
         /\ HasScope(EmitBinary(BothToFloat(a), op, typ), env, arrays)
  <1>1. HasScope(BothToFloat(a), env, arrays)
    BY ToFloatScope DEF BothToFloat
  <1>. QED
    BY <1>1, PushScope DEF EmitBinary

LEMMA TokenScope ==
  ASSUME NEW a, NEW env, NEW arrays, HasScope(a, env, arrays),
         NEW k, IsToken(k), NEW asValue \in BOOLEAN
  PROVE  HasScope(LowerToken(a, k, asValue), env, arrays)
  <1>1. CASE ~a.ok
    BY <1>1 DEF LowerToken
  <1>2. CASE a.ok /\ k.t = "const"
    <2>1. LowerToken(a, k, asValue) = LowerConst(a, k)
      BY <1>2 DEF LowerToken
    <2>2. HasScope(LowerConst(a, k), env, arrays)
      BY EmitScope DEF LowerConst
    <2>. QED
      BY <2>1, <2>2
  <1>3. CASE a.ok /\ k.t = "name"
    <2>1. LowerToken(a, k, asValue) = LowerName(a, k)
      BY <1>3 DEF LowerToken
    <2>2. HasScope(LowerName(a, k), env, arrays)
      BY EmitScope DEF LowerName
    <2>. QED
      BY <2>1, <2>2
  <1>4. CASE a.ok /\ k.t = "element"
    <2>1. LowerToken(a, k, asValue) = LowerElement(a, k)
      BY <1>4 DEF LowerToken
    <2> DEFINE array == a.ctx.arrays[k.id]
               ptr == Emit(a, "gep", <<array.ptr, Arg(a, 0).val>>, PtrTo[array.elem], array.elem)
               e == EmitPush(ptr, 1, "load", <<Fresh(a, PtrTo[array.elem])>>,
                             array.elem, array.elem, {}, FALSE)
               p == Arg(a, 0).val.typ # "int" \/ ~InStaticBounds(array, Arg(a, 0))
    <2>2. HasScope(ptr, env, arrays)
      BY EmitScope
    <2>3. HasScope(e, env, arrays)
      <3>. HIDE DEF ptr, array
      <3>. QED
        BY <2>2, PushScope
    <2>4. LowerElement(a, k) = FailIf(TRUE, a) \/ LowerElement(a, k) = FailIf(p, e)
      BY DEF LowerElement
    <2>. HIDE DEF p, e
    <2>. QED
      BY <2>1, <2>3, <2>4, EmitScope
  <1>5. CASE a.ok /\ k.t = "binop"
    <2>1. LowerToken(a, k, asValue) = LowerBinOp(a, k)
      BY <1>5 DEF LowerToken
    <2>2. HasScope(LowerBinOp(a, k), env, arrays)
      BY EmitScope, BinaryScope DEF LowerBinOp
    <2>. QED
      BY <2>1, <2>2
  <1>6. CASE a.ok /\ k.t = "compare"
    <2>1. LowerToken(a, k, asValue) = LowerCompare(a, k)
      BY <1>6 DEF LowerToken
    <2>2. HasScope(LowerCompare(a, k), env, arrays)
      BY EmitScope, BinaryScope DEF LowerCompare
    <2>. QED
      BY <2>1, <2>2
  <1>7. CASE a.ok /\ k.t = "neg"
    <2>1. LowerToken(a, k, asValue) = LowerNeg(a, k)
      BY <1>7 DEF LowerToken
    <2>2. \A typ : HasScope(EmitConst(a, typ, 0), env, arrays)
      BY EmitScope
    <2>3. HasScope(LowerNeg(a, k), env, arrays)
      BY <2>2, PushScope DEF LowerNeg
    <2>. QED
      BY <2>1, <2>3
  <1>8. CASE a.ok /\ k.t = "call"
    <2>1. LowerToken(a, k, asValue) = LowerCall(a, k, asValue)
      BY <1>8 DEF LowerToken
    <2> DEFINE sig == Sigs[k.id]
               args == [i \in 1 .. k.n |-> Arg(a, k.n - i).val]
               b == [a EXCEPT !.code = Append(@, Node("call", args, {}, k.id))]
               x == Push(EmitConst(b, "int", 0), k.n, Fresh(a, "int"), {}, FALSE)
               y == EmitPush(a, k.n, "call", args, sig.ret, k.id, {}, FALSE)
               p == [i \in 1 .. k.n |-> args[i].typ] # sig.args \/ (sig.ret = "void" /\ asValue)
    <2>2. \/ LowerCall(a, k, asValue) = FailIf(TRUE, a)
          \/ LowerCall(a, k, asValue) = FailIf(p, x)
          \/ LowerCall(a, k, asValue) = FailIf(p, y)
      BY DEF LowerCall
    <2>3. HasScope(y, env, arrays)
      BY PushScope
    <2>4. HasScope(b, env, arrays)
      <3>. HIDE DEF args
      <3>. QED
        BY DEF HasScope
    <2>. HIDE DEF b, p, y, args
    <2>5. HasScope(x, env, arrays)
      <3>1. HasScope(EmitConst(b, "int", 0), env, arrays)
        BY <2>4, EmitScope
      <3>. QED
        BY <3>1, EmitScope
    <2>. HIDE DEF x
    <2>. QED
      BY <2>1, <2>2, <2>3, <2>5, EmitScope
  <1>. QED
    BY <1>1, <1>2, <1>3, <1>4, <1>5, <1>6, <1>7, <1>8 DEF IsToken
LEMMA TokensScope ==
  ASSUME NEW c, DOMAIN c = {"env", "arrays", "tmp", "ver"}, NEW expr, Balanced(expr),
         NEW asValue \in BOOLEAN
  PROVE  HasScope(LowerTokens(c, expr, asValue), c.env, c.arrays)
  <1> DEFINE p == <<c, expr, asValue>>
             a == Tokens!Fold(p)
             S == {i \in 0 .. Len(expr) : HasScope(a[i], c.env, c.arrays)}
  <1>1. PICK d : Balances(expr, d)
    BY DEF Balanced
  <1>2. Len(expr) \in Nat
    BY DEF Balanced
  <1>3. LowerTokens(c, expr, asValue) = a[Len(expr)]
    BY DEF LowerTokens, Tokens!Fold, TokensN, TokensBase, TokensOp
  <1>4. /\ a[0] = NoCode(c)
        /\ \A i \in 1 .. Len(expr) : a[i] = LowerToken(a[i - 1], expr[i], asValue \/ i < Len(expr))
    <2>. HIDE DEF a
    <2>1. TokensN(p) \in Nat /\ TokensN(p) = Len(expr)
      BY <1>2 DEF TokensN
    <2>2. /\ a[0] = TokensBase(p)
          /\ \A i \in 1 .. TokensN(p) : a[i] = TokensOp(p, a[i - 1], i)
      BY <2>1, Tokens!FoldDef DEF a
    <2>. QED
      BY <2>1, <2>2 DEF TokensBase, TokensOp
  <1>. HIDE DEF a
  <1>5. 0 \in S
    BY <1>2, <1>4 DEF NoCode, HasScope
  <1>6. \A i \in 0 .. Len(expr) - 1 : i \in S => i + 1 \in S
    <2> SUFFICES ASSUME NEW i \in 0 .. Len(expr) - 1, i \in S
                 PROVE  HasScope(a[i + 1], c.env, c.arrays)
      BY <1>2
    <2> DEFINE k == expr[i + 1]
               v == asValue \/ i + 1 < Len(expr)
    <2>1. i + 1 \in 1 .. Len(expr) /\ (i + 1) - 1 = i
      BY <1>2
    <2>2. a[i + 1] = LowerToken(a[i], k, v)
      BY <1>4, <2>1
    <2>3. IsToken(k) /\ v \in BOOLEAN /\ HasScope(a[i], c.env, c.arrays)
      BY <1>1, <2>1 DEF Balances
    <2>. HIDE DEF k, v
    <2>. QED
      BY <2>2, <2>3, TokenScope
  <1>7. Len(expr) \in S
    <2>. HIDE DEF S
    <2>1. \A i \in 0 .. Len(expr) : i \in S
      BY <1>2, <1>5, <1>6, Tokens!Induction
    <2>. QED
      BY <1>2, <2>1
  <1>. QED
    BY <1>3, <1>7

LEMMA ExprScope ==
  ASSUME NEW c, DOMAIN c = {"env", "arrays", "tmp", "ver"}, NEW expr, Balanced(expr)
  PROVE  HasScope(LowerExpr(c, expr), c.env, c.arrays)
  BY TokensScope DEF LowerExpr

-----------------------------------------------------------------------------
(* What a statement does to the scope: only an assignment to a name that is   *)
(* not bound adds one, and only an allocation touches the arrays.             *)

SameScope(c, c2) == DOMAIN c2.env = DOMAIN c.env /\ c2.arrays = c.arrays
ScopeNames(c) == DOMAIN c.env \cup DOMAIN c.arrays

LEMMA BindScope ==
  ASSUME NEW c, {"env", "arrays", "tmp", "ver"} \subseteq DOMAIN c, NEW id, NEW v
  PROVE  /\ DOMAIN Bind(c, id, v).env = DOMAIN c.env \cup {id}
         /\ Bind(c, id, v).arrays = c.arrays
  <1>1. Bind(c, id, v).env = Put(c.env, id, v) /\ Bind(c, id, v).arrays = c.arrays
    BY DEF Bind
  <1>. QED
    BY <1>1 DEF Put

LEMMA AssignScope ==
  ASSUME NEW c, DOMAIN c = {"env", "arrays", "tmp", "ver"}, NEW id, NEW expr, Balanced(expr),
         LowerAssign(c, id, expr).ok
  PROVE  LET r == LowerAssign(c, id, expr)
         IN  /\ id \notin DOMAIN c.arrays /\ r.ctx.arrays = c.arrays
             /\ DOMAIN r.ctx.env = DOMAIN c.env \cup {id}
  <1> DEFINE e == LowerExpr(c, expr)
             r == LowerAssign(c, id, expr)
             v == NewNamed(e.ctx, id, Result(e).typ)
             n == Node("id", <<Result(e), Result(e)>>, {v}, "none")
  <1>1. e.ok /\ id \notin DOMAIN c.arrays
    BY DEF LowerAssign, BindResult, FailIf
  <1>2. r = [e EXCEPT !.code = Append(@, n), !.ctx = Bind(@, id, v)]
    BY <1>1 DEF LowerAssign, BindResult
  <1>3. HasScope(e, c.env, c.arrays)
    BY ExprScope
  <1>. HIDE DEF e, r, n, v
  <1>4. r.ctx = Bind(e.ctx, id, v)
    BY <1>2, <1>3 DEF HasScope
  <1>. QED
    BY <1>1, <1>3, <1>4, BindScope DEF HasScope, r

LEMMA AugScope ==
  ASSUME NEW c, DOMAIN c = {"env", "arrays", "tmp", "ver"}, NEW s, Balanced(s.expr),
         LowerAugAssign(c, s).ok
  PROVE  SameScope(c, LowerAugAssign(c, s).ctx)
  <1> DEFINE e == LowerExpr(c, s.expr)
             r == LowerAugAssign(c, s)
             v == NewNamed(e.ctx, s.id, MergeTypes(c.env[s.id].typ, Result(e).typ))
             n == Node(s.op, <<c.env[s.id], Result(e)>>, {v}, "none")
             p == s.id \notin DOMAIN c.env \/ ~e.ok
             q == c.env[s.id].typ # Result(e).typ /\ (IsPtr(c.env[s.id].typ) \/ IsPtr(Result(e).typ))
             y == [e EXCEPT !.code = Append(@, n), !.ctx = Bind(@, s.id, v)]
  <1>1. r = IF p THEN FailIf(TRUE, e) ELSE IF q THEN FailIf(TRUE, e) ELSE y
    BY DEF LowerAugAssign, Augment
  <1>2. HasScope(e, c.env, c.arrays)
    BY ExprScope
  <1>3. ~FailIf(TRUE, e).ok /\ r.ok
    BY <1>2 DEF FailIf, HasScope
  <1>4. ~p /\ r = y
    <2>. HIDE DEF p, q, y, r
    <2>. QED
      BY <1>1, <1>3
  <1>. HIDE DEF e, r, n, v, q
  <1>5. r.ctx = Bind(e.ctx, s.id, v)
    BY <1>2, <1>4 DEF HasScope
  <1>6. /\ DOMAIN r.ctx.env = DOMAIN c.env \cup {s.id} /\ s.id \in DOMAIN c.env
        /\ r.ctx.arrays = c.arrays
    BY <1>2, <1>4, <1>5, BindScope DEF HasScope
  <1>. QED
    BY <1>6 DEF r, SameScope

LEMMA AllocScope ==
  ASSUME NEW c, DOMAIN c = {"env", "arrays", "tmp", "ver"}, NEW s, Balanced(s.expr),
         LowerAlloc(c, s).ok
  PROVE  ScopeNames(LowerAlloc(c, s).ctx) = ScopeNames(c) \cup {s.id}
  <1> DEFINE e == LowerExpr(c, s.expr)
             r == LowerAlloc(c, s)
             ptr == NewNamed(e.ctx, s.id, PtrTo[s.elem])
             array == [ptr |-> ptr, elem |-> s.elem, len |-> Arg(e, 0).lit]
             n == Node("alloca", <<Result(e)>>, {ptr}, s.elem)
             y == [e EXCEPT !.code = Append(@, n),
                            !.ctx.ver[s.id] = @ + 1,
                            !.ctx.arrays = Put(@, s.id, array),
                            !.ctx.env = [id \in DOMAIN @ \ {s.id} |-> @[id]]]
             p == ~e.ok \/ ~AllowedLength(c, s.expr) \/ s.init # 0
             q == Result(e).typ # "int"
  <1>1. r = IF p THEN FailIf(TRUE, e) ELSE FailIf(q, y)
    BY DEF LowerAlloc, AllocArray
  <1>2. HasScope(e, c.env, c.arrays)
    BY ExprScope
  <1>3. ~p /\ r = FailIf(q, y) /\ r.ok
    <2>1. ~FailIf(TRUE, e).ok /\ r.ok
      BY <1>2 DEF FailIf, HasScope
    <2>. HIDE DEF p, q, y, r
    <2>. QED
      BY <1>1, <2>1
  <1>4. r = y
    <2>1. q \in BOOLEAN
      OBVIOUS
    <2>2. "ok" \in DOMAIN y
      BY <1>2 DEF HasScope
    <2>. HIDE DEF q, y, r
    <2>. QED
      BY <1>3, <2>1, <2>2, FailIfFacts
  <1>. HIDE DEF e, r, n, array, q
  <1>5. /\ r.ctx.arrays = Put(e.ctx.arrays, s.id, array)
        /\ r.ctx.env = [id \in DOMAIN e.ctx.env \ {s.id} |-> e.ctx.env[id]]
    BY <1>2, <1>4 DEF HasScope
  <1>. HIDE DEF y
  <1>6. /\ DOMAIN r.ctx.arrays = DOMAIN c.arrays \cup {s.id}
        /\ DOMAIN r.ctx.env = DOMAIN c.env \ {s.id}
    BY <1>2, <1>5 DEF HasScope, Put
  <1>. QED
    BY <1>6 DEF ScopeNames, r

LEMMA StoreScope ==
  ASSUME NEW c, NEW K, IsContext(c, K), NEW s, Balanced(s.index), Balanced(s.expr),
         LowerStore(c, s).ok
  PROVE  SameScope(c, LowerStore(c, s).ctx)
  <1> DEFINE i == LowerExpr(c, s.index)
             e == LowerExpr(i.ctx, s.expr)
             r == LowerStore(c, s)
             x == Result(i)
             y == Result(e)
             array == c.arrays[s.id]
             typ == PtrTo[array.elem]
             both == [e EXCEPT !.code = i.code \o @]
             v == Fresh(e, typ)
             ptr == Emit(both, "gep", <<array.ptr, x>>, typ, array.elem)
             store == Node("store", <<v, y>>, {}, array.elem)
             z == [ptr EXCEPT !.code = Append(@, store)]
             p == s.id \notin DOMAIN c.arrays \/ ~i.ok \/ ~e.ok
             q == \/ x.typ # "int" \/ ~InStaticBounds(array, Arg(i, 0))
                  \/ y.typ # array.elem
  <1>1. r = IF p THEN FailIf(TRUE, i) ELSE FailIf(q, z)
    BY DEF LowerStore, StoreElement
  <1>2. DOMAIN c = {"env", "arrays", "tmp", "ver"}
    BY DEF IsContext
  <1>3. HasScope(i, c.env, c.arrays)
    BY <1>2, ExprScope
  <1>4. ~p /\ r = FailIf(q, z) /\ r.ok
    <2>1. ~FailIf(TRUE, i).ok /\ r.ok
      BY <1>3 DEF FailIf, HasScope
    <2>. HIDE DEF p, q, z, r
    <2>. QED
      BY <1>1, <2>1
  <1>5. HasScope(e, c.env, c.arrays)
    <2>0. IsContext(i.ctx, Known(K, i))
      BY <1>4, ExprFacts
    <2>1. DOMAIN i.ctx = {"env", "arrays", "tmp", "ver"}
      BY <2>0 DEF IsContext
    <2>. HIDE DEF i
    <2>. QED
      BY <1>3, <2>1, ExprScope DEF HasScope
  <1>6. HasScope(both, c.env, c.arrays)
    <2>. HIDE DEF e, i
    <2>. QED
      BY <1>5 DEF HasScope
  <1>7. HasScope(ptr, c.env, c.arrays)
    <2>. HIDE DEF both, typ, array, i
    <2>. QED
      BY <1>6, EmitScope
  <1>8. HasScope(z, c.env, c.arrays)
    <2>. HIDE DEF ptr, store
    <2>. QED
      BY <1>7 DEF HasScope
  <1>. HIDE DEF z, q
  <1>9. HasScope(r, c.env, c.arrays)
    <2>. HIDE DEF r
    <2>. QED
      BY <1>4, <1>8, EmitScope
  <1>. QED
    BY <1>9 DEF HasScope, SameScope

LEMMA SimpleScope ==
  ASSUME NEW c, NEW K, IsContext(c, K), NEW s, IsSimple(s), LowerSimple(c, s).ok
  PROVE  LET c2 == LowerSimple(c, s).ctx
         IN  /\ s.s \notin {"assign", "alloc"} => SameScope(c, c2)
             /\ s.s = "assign" => /\ s.id \notin DOMAIN c.arrays /\ c2.arrays = c.arrays
                                  /\ DOMAIN c2.env = DOMAIN c.env \cup {s.id}
             /\ ScopeNames(c) \subseteq ScopeNames(c2)
  <1>0. DOMAIN c = {"env", "arrays", "tmp", "ver"}
    BY DEF IsContext
  <1>1. CASE s.s = "expr"
    <2>1. LowerSimple(c, s) = LowerTokens(c, s.expr, FALSE)
      BY <1>1 DEF LowerSimple
    <2>2. SameScope(c, LowerTokens(c, s.expr, FALSE).ctx)
      BY <1>0, <1>1, TokensScope DEF IsSimple, HasScope, SameScope
    <2>. QED
      BY <1>1, <2>1, <2>2 DEF SameScope, ScopeNames
  <1>2. CASE s.s = "assign"
    <2>1. LowerSimple(c, s) = LowerAssign(c, s.id, s.expr)
      BY <1>2 DEF LowerSimple
    <2>2. Balanced(s.expr)
      BY <1>2 DEF IsSimple
    <2>. QED
      BY <1>0, <1>2, <2>1, <2>2, AssignScope DEF ScopeNames
  <1>3. CASE s.s = "aug"
    <2>1. LowerSimple(c, s) = LowerAugAssign(c, s)
      BY <1>3 DEF LowerSimple
    <2>2. Balanced(s.expr)
      BY <1>3 DEF IsSimple
    <2>3. SameScope(c, LowerAugAssign(c, s).ctx)
      BY <1>0, <2>1, <2>2, AugScope
    <2>. QED
      BY <1>3, <2>1, <2>3 DEF SameScope, ScopeNames
  <1>4. CASE s.s = "alloc"
    <2>1. LowerSimple(c, s) = LowerAlloc(c, s)
      BY <1>4 DEF LowerSimple
    <2>2. Balanced(s.expr)
      BY <1>4 DEF IsSimple
    <2>. QED
      BY <1>0, <1>4, <2>1, <2>2, AllocScope
  <1>5. CASE s.s = "store"
    <2>1. LowerSimple(c, s) = LowerStore(c, s)
      BY <1>5 DEF LowerSimple
    <2>2. Balanced(s.expr) /\ Balanced(s.index)
      BY <1>5 DEF IsSimple
    <2>3. SameScope(c, LowerStore(c, s).ctx)
      BY <2>1, <2>2, StoreScope
    <2>. QED
      BY <1>5, <2>1, <2>3 DEF SameScope, ScopeNames
  <1>. QED
    BY <1>1, <1>2, <1>3, <1>4, <1>5 DEF IsSimple

-----------------------------------------------------------------------------
(* Which values are defined where.  V maps the label of a block to values that *)
(* every path to the block defines: those are what its nodes may read, beside *)
(* each other's results, and an edge leads only to blocks that expect no more. *)

Avail(bs, V, l) == V[l] \cup Results(bs[l].nodes)

ScopedAt(bs, V, l) ==
  /\ Range(Args) \subseteq V[l] /\ V[l] \cap Results(bs[l].nodes) = {}
  /\ ReadsEarlier(bs[l].nodes, V[l])
  /\ Range(bs[l].term.uses) \subseteq Avail(bs, V, l)
  /\ \A m \in Range(bs[l].term.to) : V[m] \subseteq Avail(bs, V, l)

Scoped(bs, V) ==
  /\ Entry \in DOMAIN bs /\ V[Entry] \subseteq Range(Args)
  /\ \A l \in DOMAIN bs : ScopedAt(bs, V, l)

Sees(env, arrays, S) ==
  /\ \A id \in DOMAIN env : env[id] \in S
  /\ \A id \in DOMAIN arrays : arrays[id].ptr \in S

\* What a pending statement will go on with, and the block it will do so in:
\* the environment is over the names in scope, and defined where it is needed.
IsIf(f) == f.k \in {"then", "else"}
EnvOf(f) == IF f.k = "else" THEN f.left ELSE f.base
NextOf(f) == IF f.k = "then" THEN f.else ELSE IF f.k = "else" THEN f.join ELSE f.exit

FrameSees(f, bs, V, c) ==
  /\ V[NextOf(f)] \subseteq KnownIn(bs)
  /\ DOMAIN EnvOf(f) = DOMAIN c.env /\ DOMAIN f.base = DOMAIN c.env
  /\ Sees(EnvOf(f), c.arrays, V[NextOf(f)])
  /\ IsIf(f) => f.join \in DOMAIN bs /\ bs[f.join].nodes = <<>> /\ bs[f.join].term = NoTerm
  /\ f.k = "then" => V[f.join] = Values
  /\ f.k = "while" /\ f.step # <<>> => f.step[1].s = "assign"

\* What the pending loops' conditions expect when they are jumped back to.
Carries(fs, V, S) == \A j \in 1 .. Len(fs) : fs[j].k = "while" => V[fs[j].cond] \subseteq S

Nested(fs, V) ==
  \A i, j \in 1 .. Len(fs) : j < i /\ fs[j].k = "while" => V[fs[j].cond] \subseteq V[NextOf(fs[i])]

Layout(V, bs, fs, c, l) ==
  /\ Scoped(bs, V)
  /\ l \in DOMAIN bs /\ V[l] \subseteq KnownIn(bs)
  /\ \A i \in 1 .. Len(fs) : FrameSees(fs[i], bs, V, c)
  /\ Carries(fs, V, Avail(bs, V, l)) /\ Nested(fs, V)

\* No pending if joins in l.
JoinsNot(fs, l) == \A i \in 1 .. Len(fs) : IsIf(fs[i]) => fs[i].join # l

LEMMA BlockStaysScoped ==
  ASSUME NEW bs, NEW bs2, NEW V, NEW V2, NEW l, ScopedAt(bs, V, l),
         bs2[l].nodes = bs[l].nodes, bs2[l].term = bs[l].term, V2[l] = V[l],
         \A m \in Range(bs[l].term.to) : V2[m] \subseteq V[m]
  PROVE  ScopedAt(bs2, V2, l)
  <1>1. Avail(bs2, V2, l) = Avail(bs, V, l)
    BY DEF Avail
  <1>2. \A m \in Range(bs2[l].term.to) : V2[m] \subseteq Avail(bs2, V2, l)
    BY <1>1 DEF ScopedAt
  <1>. QED
    BY <1>1, <1>2 DEF ScopedAt

LEMMA EmptyScoped ==
  ASSUME NEW bs, NEW V, NEW m, bs[m].nodes = <<>>, bs[m].term = NoTerm, Range(Args) \subseteq V[m]
  PROVE  ScopedAt(bs, V, m)
  <1>1. Range(<<>>) = {}
    BY DEF Range
  <1>2. Results(<<>>) = {}
    BY <1>1 DEF Results
  <1>3. ReadsEarlier(<<>>, V[m])
    BY DEF ReadsEarlier
  <1>4. NoTerm.uses = <<>> /\ NoTerm.to = <<>>
    BY DEF NoTerm, Term
  <1>. QED
    BY <1>1, <1>2, <1>3, <1>4 DEF ScopedAt

\* A frame is not disturbed where its blocks are left alone.
LEMMA FrameStays ==
  ASSUME NEW f, NEW bs, NEW bs2, NEW V, NEW V2, NEW c, NEW c2, FrameSees(f, bs, V, c),
         DOMAIN bs \subseteq DOMAIN bs2, KnownIn(bs) \subseteq KnownIn(bs2),
         V2[NextOf(f)] = V[NextOf(f)], SameScope(c, c2),
         IsIf(f) => /\ bs2[f.join].nodes = bs[f.join].nodes /\ bs2[f.join].term = bs[f.join].term
                    /\ V2[f.join] = V[f.join]
  PROVE  FrameSees(f, bs2, V2, c2)
  <1>1. f.k = "then" => IsIf(f)
    BY DEF IsIf
  <1>. HIDE DEF IsIf
  <1>. QED
    BY <1>1 DEF FrameSees, SameScope

LEMMA AvailIsKnown ==
  ASSUME NEW bs, NEW V, NEW l \in DOMAIN bs, V[l] \subseteq KnownIn(bs)
  PROVE  Avail(bs, V, l) \subseteq KnownIn(bs)
  BY DEF Avail, KnownIn

\* The scope is well-typed, and seen from l.
LEMMA ContextSeen ==
  ASSUME NEW bs, NEW c, IsContext(c, KnownIn(bs)), NEW S, S \subseteq KnownIn(bs),
         Sees(c.env, c.arrays, S)
  PROVE  IsContext(c, S)
  <1>1. S \subseteq Values
    BY DEF IsContext
  <1>2. \A id \in DOMAIN c.arrays : IsArray(c.arrays[id], S)
    BY DEF IsContext, IsArray, Sees
  <1>. QED
    BY <1>1, <1>2 DEF IsContext, Sees

LEMMA SeenContext ==
  ASSUME NEW c, NEW S, IsContext(c, S)
  PROVE  Sees(c.env, c.arrays, S)
  BY DEF IsContext, IsArray, Sees

\* Results are new.
LEMMA FreshResults ==
  ASSUME NEW bs, NEW c, CodeInv(bs, c), NEW K, NEW code, NEW c2, EmitsCode(c, K, code, c2)
  PROVE  KnownIn(bs) \cap Results(code) = {}
  <1> SUFFICES ASSUME NEW v, v \in KnownIn(bs), v \in Results(code) PROVE FALSE
    OBVIOUS
  <1>1. v.name \notin Given(c)
    <2>1. /\ code \in Seq(Range(code))
          /\ \A i \in 1 .. Len(code) : ResNames(code[i]) \subseteq Given(c2) \ Given(c)
      BY DEF EmitsCode, IsCode, NamesIn
    <2>2. PICK i \in 1 .. Len(code) : v \in code[i].res
      BY <2>1 DEF Results, Range
    <2>. QED
      BY <2>1, <2>2 DEF ResNames
  <1>2. CASE v \in Range(Args)
    BY <1>1, <1>2 DEF CodeInv, ArgNames
  <1>3. CASE \E l \in DOMAIN bs : v \in Results(bs[l].nodes)
    <2>1. PICK l \in DOMAIN bs : v \in Results(bs[l].nodes)
      BY <1>3
    <2> DEFINE nodes == bs[l].nodes
    <2>2. /\ nodes \in Seq(Range(nodes))
          /\ \A i \in 1 .. Len(nodes) : ResNames(nodes[i]) \subseteq Given(c)
      BY DEF CodeInv, IsCode, NamesIn
    <2>3. PICK i \in 1 .. Len(nodes) : v \in nodes[i].res
      <3>. HIDE DEF nodes
      <3>1. v \in Results(nodes)
        BY <2>1 DEF nodes
      <3>. QED
        BY <2>2, <3>1 DEF Results, Range
    <2>. QED
      BY <1>1, <2>2, <2>3 DEF ResNames
  <1>. QED
    BY <1>2, <1>3 DEF KnownIn

\* Nodes are appended to the block that is written.
LEMMA AppendLayout ==
  ASSUME NEW V, NEW bs, NEW fs, NEW c, NEW l, Layout(V, bs, fs, c, l), NEW c0, CodeInv(bs, c0),
         NEW code, IsCode(code, KnownIn(bs) \cup Results(code)),
         ReadsEarlier(code, Avail(bs, V, l)), KnownIn(bs) \cap Results(code) = {},
         NEW bs2, Writes(bs, bs2, l, code), KeepsTerms(bs, bs2),
         NEW c2, fs # <<>> => SameScope(c, c2), fs \in Seq(Range(fs)), JoinsNot(fs, l)
  PROVE  /\ Layout(V, bs2, fs, c2, l)
         /\ Avail(bs2, V, l) = Avail(bs, V, l) \cup Results(code)
  <1> DEFINE nodes == bs[l].nodes
             A == Avail(bs, V, l)
  <1>1. l \in DOMAIN bs /\ V[l] \subseteq KnownIn(bs)
    BY DEF Layout
  <1>2. nodes \in Seq(Range(nodes)) /\ IsCode(nodes, KnownIn(bs))
    BY <1>1 DEF CodeInv, IsCode
  <1>3. code \in Seq(Range(code))
    BY DEF IsCode
  <1>4. /\ DOMAIN bs2 = DOMAIN bs /\ bs2[l].nodes = nodes \o code
        /\ \A m \in DOMAIN bs : bs2[m].term = bs[m].term
        /\ \A m \in DOMAIN bs \ {l} : bs2[m].nodes = bs[m].nodes
    BY <1>1 DEF Writes, KeepsTerms
  <1>5. Results(nodes \o code) = Results(nodes) \cup Results(code)
    BY <1>2, <1>3, ResultsOfBoth
  <1>6. Avail(bs2, V, l) = A \cup Results(code)
    BY <1>4, <1>5 DEF Avail
  <1>7. KnownIn(bs) \subseteq KnownIn(bs2)
    <2>1. \A m \in DOMAIN bs : Results(bs[m].nodes) \subseteq Results(bs2[m].nodes)
      BY <1>4, <1>5
    <2>. QED
      BY <1>4, <2>1 DEF KnownIn
  <1>8. ScopedAt(bs, V, l) /\ ScopedAt(bs2, V, l)
    <2>1. ScopedAt(bs, V, l)
      BY <1>1 DEF Layout, Scoped
    <2>2. V[l] \cap Results(bs2[l].nodes) = {}
      BY <1>1, <1>4, <1>5, <2>1 DEF ScopedAt
    <2>3. ReadsEarlier(nodes \o code, V[l])
      <3> DEFINE L == KnownIn(bs) \cup Results(code)
      <3>1. IsCode(nodes, L) /\ IsCode(code, L)
        BY <1>2, CodeMonotone
      <3>2. ReadsEarlier(nodes, V[l]) /\ ReadsEarlier(code, V[l] \cup Results(nodes))
        BY <2>1 DEF ScopedAt, Avail
      <3>. HIDE DEF L, nodes
      <3>. QED
        BY <3>1, <3>2, EarlierInBoth
    <2>. QED
      BY <1>1, <1>4, <1>6, <2>1, <2>2, <2>3 DEF ScopedAt
  <1>9. Scoped(bs2, V)
    <2>1. ASSUME NEW m \in DOMAIN bs2, m # l PROVE ScopedAt(bs2, V, m)
      BY <1>4, <2>1, BlockStaysScoped DEF Layout, Scoped
    <2>. QED
      BY <1>4, <1>8, <2>1 DEF Layout, Scoped
  <1>10. ASSUME NEW i \in 1 .. Len(fs) PROVE FrameSees(fs[i], bs2, V, c2)
    <2>1. SameScope(c, c2)
      BY <1>10
    <2>2. FrameSees(fs[i], bs, V, c)
      BY DEF Layout
    <2>3. IsIf(fs[i]) => /\ bs2[fs[i].join].nodes = bs[fs[i].join].nodes
                         /\ bs2[fs[i].join].term = bs[fs[i].join].term
      BY <1>4, <2>2 DEF JoinsNot, FrameSees
    <2>. QED
      BY <1>4, <1>7, <2>1, <2>2, <2>3, FrameStays
  <1>11. Carries(fs, V, Avail(bs2, V, l)) /\ Nested(fs, V)
    BY <1>6 DEF Layout, Carries
  <1>. QED
    BY <1>1, <1>4, <1>6, <1>7, <1>9, <1>10, <1>11 DEF Layout

\* The block that is written gets its terminator.
LEMMA EndLayout ==
  ASSUME NEW V, NEW bs, NEW fs, NEW c, NEW l, Layout(V, bs, fs, c, l),
         NEW bs2, KeepsNodes(bs, bs2), NEW t, Ends(bs, bs2, l, t),
         Range(t.uses) \subseteq Avail(bs, V, l),
         \A m \in Range(t.to) : V[m] \subseteq Avail(bs, V, l), JoinsNot(fs, l)
  PROVE  Layout(V, bs2, fs, c, l) /\ Avail(bs2, V, l) = Avail(bs, V, l)
  <1>1. /\ DOMAIN bs2 = DOMAIN bs /\ l \in DOMAIN bs /\ bs2[l].term = t
        /\ \A m \in DOMAIN bs : bs2[m].nodes = bs[m].nodes
        /\ \A m \in DOMAIN bs \ {l} : bs2[m].term = bs[m].term
    BY DEF Layout, KeepsNodes, Ends
  <1>2. Avail(bs2, V, l) = Avail(bs, V, l)
    BY <1>1 DEF Avail
  <1>3. KnownIn(bs2) = KnownIn(bs)
    BY <1>1 DEF KnownIn
  <1>4. Scoped(bs2, V)
    <2>1. ASSUME NEW m \in DOMAIN bs2, m # l PROVE ScopedAt(bs2, V, m)
      BY <1>1, <2>1, BlockStaysScoped DEF Layout, Scoped
    <2>2. ScopedAt(bs, V, l)
      BY <1>1 DEF Layout, Scoped
    <2>3. ScopedAt(bs2, V, l)
      BY <1>1, <1>2, <2>2 DEF ScopedAt
    <2>. QED
      BY <1>1, <2>1, <2>3 DEF Layout, Scoped
  <1>5. ASSUME NEW i \in 1 .. Len(fs) PROVE FrameSees(fs[i], bs2, V, c)
    <2>1. FrameSees(fs[i], bs, V, c)
      BY DEF Layout
    <2>2. IsIf(fs[i]) => /\ bs2[fs[i].join].nodes = bs[fs[i].join].nodes
                         /\ bs2[fs[i].join].term = bs[fs[i].join].term
      BY <1>1, <2>1 DEF JoinsNot, FrameSees
    <2>3. SameScope(c, c)
      BY DEF SameScope
    <2>. QED
      BY <1>1, <1>3, <2>1, <2>2, <2>3, FrameStays
  <1>. QED
    BY <1>1, <1>2, <1>3, <1>4, <1>5 DEF Layout

\* New blocks are empty, and expect at least the arguments.
LEMMA AddLayout ==
  ASSUME NEW V, NEW bs, NEW fs, NEW c, NEW l, Layout(V, bs, fs, c, l),
         NEW labels, NEW bs2, Added(bs, bs2, labels), labels \cap DOMAIN bs = {},
         \A x \in labels : Range(Args) \subseteq V[x]
  PROVE  Layout(V, bs2, fs, c, l) /\ Avail(bs2, V, l) = Avail(bs, V, l)
  <1>1. /\ DOMAIN bs2 = DOMAIN bs \cup labels /\ \A m \in DOMAIN bs : bs2[m] = bs[m]
        /\ \A m \in labels : bs2[m] = NewBlock
    BY DEF Added
  <1>2. l \in DOMAIN bs /\ Avail(bs2, V, l) = Avail(bs, V, l)
    BY <1>1 DEF Avail, Layout
  <1>3. KnownIn(bs) \subseteq KnownIn(bs2)
    BY <1>1 DEF KnownIn
  <1>4. ASSUME NEW m \in labels PROVE ScopedAt(bs2, V, m)
    <2>1. bs2[m].nodes = <<>> /\ bs2[m].term = NoTerm
      BY <1>1 DEF NewBlock
    <2>. QED
      BY <2>1, EmptyScoped
  <1>5. ASSUME NEW m \in DOMAIN bs PROVE ScopedAt(bs2, V, m)
    BY <1>1, <1>5, BlockStaysScoped DEF Layout, Scoped
  <1>6. Scoped(bs2, V)
    BY <1>1, <1>4, <1>5 DEF Layout, Scoped
  <1>7. ASSUME NEW i \in 1 .. Len(fs) PROVE FrameSees(fs[i], bs2, V, c)
    <2>1. FrameSees(fs[i], bs, V, c) /\ SameScope(c, c)
      BY DEF Layout, SameScope
    <2>2. IsIf(fs[i]) => bs2[fs[i].join] = bs[fs[i].join]
      BY <1>1, <2>1 DEF FrameSees
    <2>. QED
      BY <1>1, <1>3, <2>1, <2>2, FrameStays
  <1>. QED
    BY <1>1, <1>2, <1>3, <1>6, <1>7 DEF Layout

\* No pending statement goes on in j, joins in j or jumps back to j.
Avoids(fs, j) ==
  \A i \in 1 .. Len(fs) : /\ NextOf(fs[i]) # j
                          /\ IsIf(fs[i]) => fs[i].join # j
                          /\ fs[i].k = "while" => fs[i].cond # j

Closed(bs) == \A m \in DOMAIN bs : Range(bs[m].term.to) \subseteq DOMAIN bs

\* A block that is still empty may come to expect less, and it does not matter
\* what a block expects that does not exist.
LEMMA NarrowLayout ==
  ASSUME NEW V, NEW bs, NEW fs, NEW c, NEW l, Layout(V, bs, fs, c, l), Closed(bs),
         NEW j, l # j, Avoids(fs, j), j # Entry,
         NEW V2, \A m \in DOMAIN bs \ {j} : V2[m] = V[m],
         j \in DOMAIN bs => /\ bs[j].nodes = <<>> /\ bs[j].term = NoTerm
                            /\ Range(Args) \subseteq V2[j] /\ V2[j] \subseteq V[j],
         \A i \in 1 .. Len(fs) : NextOf(fs[i]) \in DOMAIN bs
                                 /\ (fs[i].k = "while" => fs[i].cond \in DOMAIN bs)
  PROVE  Layout(V2, bs, fs, c, l) /\ Avail(bs, V2, l) = Avail(bs, V, l)
  <1>1. l \in DOMAIN bs /\ Avail(bs, V2, l) = Avail(bs, V, l) /\ V2[l] = V[l]
    BY DEF Avail, Layout
  <1>2. \A m \in DOMAIN bs : V2[m] \subseteq V[m]
    OBVIOUS
  <1>3. ASSUME NEW m \in DOMAIN bs PROVE ScopedAt(bs, V2, m)
    <2>1. ScopedAt(bs, V, m)
      BY DEF Layout, Scoped
    <2>2. CASE m # j
      <3>1. \A n \in Range(bs[m].term.to) : V2[n] \subseteq V[n]
        BY <1>2 DEF Closed
      <3>. QED
        BY <2>1, <2>2, <3>1, BlockStaysScoped
    <2>3. CASE m = j
      BY <2>3, EmptyScoped
    <2>. QED
      BY <2>2, <2>3
  <1>4. Scoped(bs, V2)
    BY <1>3 DEF Layout, Scoped
  <1>5. \A i \in 1 .. Len(fs) : /\ V2[NextOf(fs[i])] = V[NextOf(fs[i])]
                                /\ fs[i].k = "while" => V2[fs[i].cond] = V[fs[i].cond]
    BY DEF Avoids
  <1>6. ASSUME NEW i \in 1 .. Len(fs) PROVE FrameSees(fs[i], bs, V2, c)
    <2>1. FrameSees(fs[i], bs, V, c) /\ SameScope(c, c)
      BY DEF Layout, SameScope
    <2>2. IsIf(fs[i]) => V2[fs[i].join] = V[fs[i].join]
      BY <2>1 DEF FrameSees, Avoids
    <2>. QED
      BY <1>5, <2>1, <2>2, FrameStays
  <1>7. Carries(fs, V2, Avail(bs, V2, l))
    BY <1>1, <1>5 DEF Layout, Carries
  <1>8. Nested(fs, V2)
    BY <1>5 DEF Layout, Nested
  <1>. QED
    BY <1>1, <1>4, <1>6, <1>7, <1>8 DEF Layout

\* Lowering goes on in another block, with an environment over the same names.
LEMMA MoveLayout ==
  ASSUME NEW V, NEW bs, NEW fs, NEW c, NEW l, Layout(V, bs, fs, c, l),
         NEW m \in DOMAIN bs, V[m] \subseteq KnownIn(bs), Carries(fs, V, Avail(bs, V, m)),
         NEW c2, SameScope(c, c2)
  PROVE  Layout(V, bs, fs, c2, m)
  <1>1. ASSUME NEW i \in 1 .. Len(fs) PROVE FrameSees(fs[i], bs, V, c2)
    <2>1. FrameSees(fs[i], bs, V, c)
      BY DEF Layout
    <2>. QED
      BY <2>1, FrameStays
  <1>. QED
    BY <1>1 DEF Layout

LEMMA PushLayout ==
  ASSUME NEW V, NEW bs, NEW fs, NEW c, NEW l, Layout(V, bs, fs, c, l), fs \in Seq(Range(fs)),
         NEW f, FrameSees(f, bs, V, c), f.k = "while" => V[f.cond] \subseteq Avail(bs, V, l),
         Carries(fs, V, V[NextOf(f)])
  PROVE  Layout(V, bs, Append(fs, f), c, l)
  <1> DEFINE gs == Append(fs, f)
             n == Len(fs)
  <1>1. n \in Nat /\ Len(gs) = n + 1 /\ gs[n + 1] = f /\ \A i \in 1 .. n : gs[i] = fs[i]
    OBVIOUS
  <1>. HIDE DEF gs, n
  <1>2. \A i \in 1 .. n + 1 : i = n + 1 \/ i \in 1 .. n
    BY <1>1
  <1>3. \A i \in 1 .. n + 1 : FrameSees(gs[i], bs, V, c)
    BY <1>1, <1>2 DEF Layout, n
  <1>4. Carries(gs, V, Avail(bs, V, l))
    BY <1>1, <1>2 DEF Layout, Carries, n
  <1>5. Nested(gs, V)
    <2> SUFFICES ASSUME NEW i \in 1 .. n + 1, NEW j \in 1 .. n + 1, j < i, gs[j].k = "while"
                 PROVE  V[gs[j].cond] \subseteq V[NextOf(gs[i])]
      BY <1>1 DEF Nested
    <2>1. j \in 1 .. n /\ gs[j] = fs[j]
      BY <1>1
    <2>2. CASE i = n + 1
      BY <1>1, <2>1, <2>2 DEF Carries, n
    <2>3. CASE i \in 1 .. n
      BY <1>1, <2>1, <2>3 DEF Layout, Nested, n
    <2>. QED
      BY <1>2, <2>2, <2>3
  <1>. QED
    BY <1>1, <1>3, <1>4, <1>5 DEF Layout, gs

LEMMA PopLayout ==
  ASSUME NEW V, NEW bs, NEW fs, NEW c, NEW l, Layout(V, bs, fs, c, l), fs \in Seq(Range(fs)),
         fs # <<>>
  PROVE  LET f == Last(fs)
         IN  /\ Layout(V, bs, Front(fs), c, l) /\ FrameSees(f, bs, V, c)
             /\ f.k = "while" => V[f.cond] \subseteq Avail(bs, V, l)
             /\ Carries(Front(fs), V, V[NextOf(f)])
             /\ f = fs[Len(fs)] /\ Len(Front(fs)) = Len(fs) - 1 /\ Len(fs) \in Nat \ {0}
             /\ Front(fs) \in Seq(Range(Front(fs)))
             /\ \A i \in 1 .. Len(fs) - 1 : Front(fs)[i] = fs[i]
  <1> DEFINE gs == Front(fs)
             n == Len(fs)
             f == Last(fs)
  <1>1. gs \in Seq(Range(fs)) /\ Len(gs) = n - 1 /\ \A i \in 1 .. n - 1 : gs[i] = fs[i]
    BY FrontFacts
  <1>2. n \in Nat \ {0} /\ f = fs[n]
    BY DEF Last
  <1>3. gs \in Seq(Range(gs))
    <2>. HIDE DEF gs, n
    <2>1. DOMAIN gs = 1 .. Len(gs) /\ Len(gs) \in Nat
      BY <1>1
    <2>2. \A i \in 1 .. Len(gs) : gs[i] \in Range(gs)
      BY <2>1 DEF Range
    <2>3. gs = [i \in 1 .. Len(gs) |-> gs[i]]
      BY <1>1, SeqIsFunction
    <2>. QED
      BY <2>1, <2>2, <2>3
  <1>. HIDE DEF gs, n, f
  <1>4. n \in 1 .. n /\ \A i \in 1 .. n - 1 : i \in 1 .. n /\ i < n
    BY <1>2
  <1>5. FrameSees(f, bs, V, c) /\ \A i \in 1 .. n - 1 : FrameSees(gs[i], bs, V, c)
    BY <1>1, <1>2, <1>4 DEF Layout, n
  <1>6. Carries(gs, V, Avail(bs, V, l)) /\ (f.k = "while" => V[f.cond] \subseteq Avail(bs, V, l))
    BY <1>1, <1>2, <1>4 DEF Layout, Carries, n
  <1>7. Carries(gs, V, V[NextOf(f)])
    BY <1>1, <1>2, <1>4 DEF Layout, Nested, Carries, n
  <1>8. Nested(gs, V)
    BY <1>1, <1>2, <1>4 DEF Layout, Nested, n
  <1>9. Layout(V, bs, gs, c, l)
    BY <1>1, <1>5, <1>6, <1>8 DEF Layout
  <1>. QED
    BY <1>1, <1>2, <1>3, <1>5, <1>6, <1>7, <1>9 DEF gs, n, f

\* Phis that get a value for one more edge read and define what they did.
LEMMA PatchLayout ==
  ASSUME NEW V, NEW bs, NEW fs, NEW c, NEW l, Layout(V, bs, fs, c, l),
         NEW m \in DOMAIN bs, NEW code, IsCode(bs[m].nodes, KnownIn(bs)),
         code \in Seq(Range(code)), Len(code) = Len(bs[m].nodes),
         \A i \in 1 .. Len(code) : /\ code[i].res = bs[m].nodes[i].res
                                   /\ code[i].args = bs[m].nodes[i].args,
         NEW bs2, Fills(bs, bs2, m, code), KeepsTerms(bs, bs2), JoinsNot(fs, m)
  PROVE  Layout(V, bs2, fs, c, l) /\ \A x \in DOMAIN bs : Avail(bs2, V, x) = Avail(bs, V, x)
  <1> DEFINE nodes == bs[m].nodes
  <1>1. nodes \in Seq(Range(nodes))
    BY DEF IsCode
  <1>2. /\ DOMAIN bs2 = DOMAIN bs /\ bs2[m].nodes = code
        /\ \A x \in DOMAIN bs : bs2[x].term = bs[x].term
        /\ \A x \in DOMAIN bs \ {m} : bs2[x].nodes = bs[x].nodes
    BY DEF Fills, KeepsTerms
  <1>3. Results(code) = Results(nodes)
    <2>. HIDE DEF nodes
    <2>1. /\ Range(code) = {code[i] : i \in 1 .. Len(code)}
          /\ Range(nodes) = {nodes[i] : i \in 1 .. Len(nodes)}
      BY <1>1 DEF Range
    <2>2. Len(code) = Len(nodes) /\ \A i \in 1 .. Len(code) : code[i].res = nodes[i].res
      BY DEF nodes
    <2>3. ASSUME NEW v PROVE v \in Results(code) <=> v \in Results(nodes)
      <3>1. v \in Results(code) <=> \E i \in 1 .. Len(code) : v \in code[i].res
        BY <2>1 DEF Results
      <3>2. v \in Results(nodes) <=> \E i \in 1 .. Len(nodes) : v \in nodes[i].res
        BY <2>1 DEF Results
      <3>. QED
        BY <2>2, <3>1, <3>2
    <2>. QED
      BY <2>3
  <1>4. \A K : ReadsEarlier(nodes, K) => ReadsEarlier(code, K)
    <2>1. Len(code) = Len(nodes) /\ Len(code) \in Nat
          /\ \A i \in 1 .. Len(code) : code[i].res = nodes[i].res /\ code[i].args = nodes[i].args
      BY <1>1
    <2>. HIDE DEF nodes
    <2> TAKE K
    <2> HAVE ReadsEarlier(nodes, K)
    <2> SUFFICES ASSUME NEW i \in 1 .. Len(code), NEW v \in Range(code[i].args), v \notin K
                 PROVE  \E j \in 1 .. i - 1 : v \in code[j].res
      BY DEF ReadsEarlier
    <2>2. PICK j \in 1 .. i - 1 : v \in nodes[j].res
      BY <2>1 DEF ReadsEarlier
    <2>3. j \in 1 .. Len(code)
      BY <2>1
    <2>. QED
      BY <2>1, <2>2, <2>3
  <1>5. \A x \in DOMAIN bs : Results(bs2[x].nodes) = Results(bs[x].nodes)
    BY <1>2, <1>3
  <1>6. \A x \in DOMAIN bs : Avail(bs2, V, x) = Avail(bs, V, x)
    BY <1>5 DEF Avail
  <1>7. KnownIn(bs2) = KnownIn(bs)
    BY <1>2, <1>5 DEF KnownIn
  <1>. HIDE DEF nodes
  <1>8. ASSUME NEW x \in DOMAIN bs PROVE ScopedAt(bs2, V, x)
    <2>1. ScopedAt(bs, V, x)
      BY DEF Layout, Scoped
    <2>2. ReadsEarlier(bs2[x].nodes, V[x])
      BY <1>2, <1>4, <2>1 DEF ScopedAt, nodes
    <2>. QED
      BY <1>2, <1>5, <1>6, <2>1, <2>2 DEF ScopedAt
  <1>9. Scoped(bs2, V)
    BY <1>2, <1>8 DEF Layout, Scoped
  <1>10. ASSUME NEW i \in 1 .. Len(fs) PROVE FrameSees(fs[i], bs2, V, c)
    <2>1. FrameSees(fs[i], bs, V, c) /\ SameScope(c, c)
      BY DEF Layout, SameScope
    <2>2. IsIf(fs[i]) => /\ bs2[fs[i].join].nodes = bs[fs[i].join].nodes
                         /\ bs2[fs[i].join].term = bs[fs[i].join].term
      BY <1>2, <2>1 DEF JoinsNot, FrameSees
    <2>. QED
      BY <1>2, <1>7, <2>1, <2>2, FrameStays
  <1>. QED
    BY <1>2, <1>6, <1>7, <1>9, <1>10 DEF Layout

-----------------------------------------------------------------------------
(* Where a statement stands in the program. *)

LEMMA CountGrows ==
  ASSUME NEW T, NEW q \in Seq(T), NEW s \in T, NEW kinds
  PROVE  LET q2 == Append(q, s)
             n == Len(q)
         IN  /\ \A i \in 1 .. n + 1 : Before(q2, i, kinds) = Before(q, i, kinds)
             /\ Before(q, n + 1, kinds) \in Nat
             /\ Before(q2, n + 2, kinds) =
                  Before(q, n + 1, kinds) + (IF s.s \in kinds THEN 1 ELSE 0)
  <1> DEFINE q2 == Append(q, s)
             n == Len(q)
             At(x, i) == {j \in 1 .. i - 1 : x[j].s \in kinds}
  <1>1. n \in Nat /\ q2[n + 1] = s /\ \A i \in 1 .. n : q2[i] = q[i]
    OBVIOUS
  <1>. HIDE DEF q2, n
  <1>2. \A i \in 1 .. n + 1 : At(q2, i) = At(q, i)
    <2> TAKE i \in 1 .. n + 1
    <2>1. \A j \in 1 .. i - 1 : q2[j] = q[j]
      BY <1>1
    <2>. QED
      BY <2>1
  <1>3. IsFiniteSet(At(q, n + 1))
    <2>1. At(q, n + 1) \subseteq 1 .. n /\ IsFiniteSet(1 .. n)
      BY <1>1, FS_Interval
    <2>. QED
      BY <2>1, FS_Subset
  <1>4. At(q2, n + 2) = At(q, n + 1) \cup (IF s.s \in kinds THEN {n + 1} ELSE {})
    <2>1. (n + 2) - 1 = n + 1 /\ (n + 1) - 1 = n
      BY <1>1
    <2>2. \A j \in 1 .. n + 1 : j = n + 1 \/ j \in 1 .. n
      BY <1>1
    <2>. QED
      BY <1>1, <2>1, <2>2
  <1>5. n + 1 \notin At(q, n + 1)
    BY <1>1
  <1>6. Cardinality(At(q, n + 1)) \in Nat
    BY <1>3, FS_CardinalityType
  <1>7. Cardinality(At(q2, n + 2)) = Cardinality(At(q, n + 1)) + (IF s.s \in kinds THEN 1 ELSE 0)
    <2>1. CASE s.s \in kinds
      <3>1. At(q2, n + 2) = At(q, n + 1) \cup {n + 1}
        BY <1>4, <2>1
      <3>. HIDE DEF At
      <3>2. Cardinality(At(q2, n + 2)) = Cardinality(At(q, n + 1)) + 1
        BY <1>3, <1>5, <3>1, FS_AddElement
      <3>. QED
        BY <2>1, <3>2
    <2>2. CASE s.s \notin kinds
      <3>1. At(q2, n + 2) = At(q, n + 1)
        BY <1>4, <2>2
      <3>. HIDE DEF At
      <3>. QED
        BY <1>6, <2>2, <3>1
    <2>. QED
      BY <2>1, <2>2
  <1>. QED
    BY <1>2, <1>6, <1>7 DEF Before, q2, n

LEMMA DepthFacts ==
  ASSUME src \in Seq(Stmts), NEW s \in Stmts, src' = Append(src, s)
  PROVE  /\ \A i \in 1 .. Len(src) + 1 : Depth(src', i) = Depth(src, i)
         /\ Depth(src, Len(src) + 1) \in Int
         /\ s.s \in Opening => Depth(src', Len(src') + 1) = Depth(src, Len(src) + 1) + 1
         /\ s.s = "end" => Depth(src', Len(src') + 1) = Depth(src, Len(src) + 1) - 1
         /\ s.s \notin Opening /\ s.s # "end" => Depth(src', Len(src') + 1) = Depth(src, Len(src) + 1)
  <1> DEFINE n == Len(src)
             opened == Before(src, n + 1, Opening)
             ended == Before(src, n + 1, {"end"})
  <1>1. n \in Nat /\ Len(src') + 1 = n + 2
    OBVIOUS
  <1>2. \A i \in 1 .. n + 1 : Before(src', i, Opening) = Before(src, i, Opening)
    BY CountGrows
  <1>3. \A i \in 1 .. n + 1 : Before(src', i, {"end"}) = Before(src, i, {"end"})
    BY CountGrows
  <1>4. opened \in Nat /\ ended \in Nat
    BY CountGrows
  <1>5. /\ Before(src', n + 2, Opening) = opened + (IF s.s \in Opening THEN 1 ELSE 0)
        /\ Before(src', n + 2, {"end"}) = ended + (IF s.s \in {"end"} THEN 1 ELSE 0)
    BY CountGrows
  <1>6. Depth(src, n + 1) = opened - ended
    BY DEF Depth
  <1>7. Depth(src', Len(src') + 1) = Before(src', n + 2, Opening) - Before(src', n + 2, {"end"})
    BY <1>1 DEF Depth
  <1>8. \A i \in 1 .. n + 1 : Depth(src', i) = Depth(src, i)
    BY <1>2, <1>3 DEF Depth
  <1>9. s.s \in Opening => s.s # "end"
    BY DEF Opening
  <1>. HIDE DEF opened, ended
  <1>. QED
    BY <1>4, <1>5, <1>6, <1>7, <1>8, <1>9 DEF n

\* The names a program binds before its ifs and loops.
Binds(s) == s.s \in {"assign", "for"}
BoundEarly(id) ==
  \/ id \in {p.id : p \in Range(Params)}
  \/ \E j \in DOMAIN src : Depth(src, j) = 0 /\ Binds(src[j]) /\ src[j].id = id

Bound == \A id : BoundEarly(id) => id \in ScopeNames(ctx)

LEMMA HoistedFacts ==
  ASSUME src \in Seq(Stmts), NEW s \in Stmts, src' = Append(src, s), Hoisted'
  PROVE  /\ Hoisted
         /\ Depth(src, Len(src) + 1) > 0 =>
              s.s # "alloc" /\ (Binds(s) => BoundEarly(s.id))
         /\ \A id : BoundEarly(id)' => BoundEarly(id) \/ (Binds(s) /\ s.id = id)
  <1> DEFINE n == Len(src)
  <1>1. /\ n \in Nat /\ DOMAIN src = 1 .. n /\ DOMAIN src' = 1 .. n + 1
        /\ src'[n + 1] = s /\ \A i \in 1 .. n : src'[i] = src[i]
    OBVIOUS
  <1>2. \A i \in 1 .. n + 1 : Depth(src', i) = Depth(src, i)
    BY DepthFacts
  <1>. HIDE DEF n
  <1>3. \A i \in 1 .. n : i \in 1 .. n + 1 /\ \A j \in 1 .. i - 1 : j \in 1 .. n
    BY <1>1
  <1>4. ASSUME NEW i \in 1 .. n + 1, Depth(src, i) > 0
        PROVE  /\ src'[i].s # "alloc"
               /\ src'[i].s \in {"assign", "for"} =>
                    \/ src'[i].id \in {p.id : p \in Range(Params)}
                    \/ \E j \in 1 .. i - 1 : /\ Depth(src, j) = 0
                                             /\ src[j].s \in {"assign", "for"}
                                             /\ src[j].id = src'[i].id
    <2>1. Depth(src', i) > 0 /\ i \in DOMAIN src'
      BY <1>1, <1>2, <1>4
    <2>2. /\ src'[i].s # "alloc"
          /\ src'[i].s \in {"assign", "for"} =>
               \/ src'[i].id \in {p.id : p \in Range(Params)}
               \/ \E j \in 1 .. i - 1 : /\ Depth(src', j) = 0
                                        /\ src'[j].s \in {"assign", "for"}
                                        /\ src'[j].id = src'[i].id
      BY <2>1 DEF Hoisted
    <2>3. \A j \in 1 .. i - 1 : Depth(src', j) = Depth(src, j) /\ src'[j] = src[j]
      BY <1>1, <1>2
    <2>. QED
      BY <2>2, <2>3
  <1>5. Hoisted
    BY <1>1, <1>3, <1>4 DEF Hoisted
  <1>6. ASSUME Depth(src, n + 1) > 0 PROVE s.s # "alloc" /\ (Binds(s) => BoundEarly(s.id))
    <2>1. n + 1 \in 1 .. n + 1 /\ (n + 1) - 1 = n
      BY <1>1
    <2>. QED
      BY <1>1, <1>4, <1>6, <2>1 DEF Binds, BoundEarly
  <1>7. ASSUME NEW id, BoundEarly(id)' PROVE BoundEarly(id) \/ (Binds(s) /\ s.id = id)
    <2>1. CASE id \in {p.id : p \in Range(Params)}
      BY <2>1 DEF BoundEarly
    <2>2. CASE \E j \in DOMAIN src' : Depth(src', j) = 0 /\ Binds(src'[j]) /\ src'[j].id = id
      <3>1. PICK j \in 1 .. n + 1 : Depth(src', j) = 0 /\ Binds(src'[j]) /\ src'[j].id = id
        BY <1>1, <2>2
      <3>2. j \in 1 .. n \/ j = n + 1
        BY <1>1
      <3>. QED
        BY <1>1, <1>2, <3>1, <3>2 DEF BoundEarly
    <2>. QED
      BY <1>7, <2>1, <2>2 DEF BoundEarly
  <1>. QED
    BY <1>5, <1>6, <1>7 DEF n

LEMMA BoundStays ==
  ASSUME src \in Seq(Stmts), NEW s \in Stmts, src' = Append(src, s), Hoisted', Bound,
         ScopeNames(ctx) \subseteq ScopeNames(ctx'), Binds(s) => s.id \in ScopeNames(ctx')
  PROVE  Bound'
  BY HoistedFacts DEF Bound

-----------------------------------------------------------------------------
(* What the block graph says of the labels that pending statements hold.      *)

LEMMA HeldFacts ==
  ASSUME GraphInv, status = "lowering", NEW i \in 1 .. Len(frames)
  PROVE  LET f == frames[i]
         IN  /\ NextOf(f) \in DOMAIN blocks /\ NextOf(f) # cur
             /\ IsIf(f) => f.join \in DOMAIN blocks /\ f.join # cur /\ f.join[1] = "if_join"
             /\ f.k = "then" => f.join # NextOf(f)
             /\ f.k = "while" => f.cond \in DOMAIN blocks /\ f.cond[1] = "while_cond"
             /\ \A j \in 1 .. Len(frames) : j # i =>
                  /\ NextOf(frames[j]) # NextOf(f)
                  /\ IsIf(f) => f.join # NextOf(frames[j])
                  /\ IsIf(f) /\ IsIf(frames[j]) => f.join # frames[j].join
  <1>1. /\ \A j \in 1 .. Len(frames) : Stack[j] = Abstract(frames[j])
        /\ \A j \in 1 .. Len(frames) : IsFrame(frames[j], DOMAIN blocks)
        /\ Len(Stack) = Len(frames)
    BY StackFacts DEF GraphInv, Shape, IsStack
  <1>2. cur \notin CFP!Held /\ CFP!Disjoint(Stack)
    BY DEF GraphInv, CFP!Inv, CFP!HeldOnce
  <1>3. ASSUME NEW j \in 1 .. Len(frames)
        PROVE  /\ NextOf(frames[j]) \in CFP!HeldBy(Stack[j])
               /\ IsIf(frames[j]) => frames[j].join \in CFP!HeldBy(Stack[j])
               /\ frames[j].k = "then" => frames[j].join # NextOf(frames[j])
    <2> DEFINE f == frames[j]
    <2>1. Stack[j] = Abstract(f) /\ f.k \in {"then", "else", "while"}
      BY <1>1 DEF IsFrame
    <2>0. Stack[j].k = "then" => Stack[j].to # Stack[j].next
      BY <1>1, <1>2 DEF CFP!Disjoint
    <2>. HIDE DEF f
    <2>2. CASE f.k = "then"
      <3>1. Abstract(f) = [k |-> "then", to |-> f.join, next |-> f.else]
        BY <2>2 DEF Abstract
      <3>. QED
        BY <2>0, <2>1, <2>2, <3>1 DEF CFP!HeldBy, NextOf, f
    <2>3. CASE f.k = "else"
      <3>1. Abstract(f) = [k |-> "else", to |-> f.join, next |-> f.join]
        BY <2>3 DEF Abstract
      <3>. QED
        BY <2>1, <2>3, <3>1 DEF CFP!HeldBy, NextOf, f
    <2>4. CASE f.k = "while"
      <3>1. Abstract(f) = [k |-> "while", to |-> f.cond, next |-> f.exit]
        BY <2>4 DEF Abstract
      <3>. QED
        BY <2>1, <2>4, <3>1 DEF CFP!HeldBy, NextOf, IsIf, f
    <2>. QED
      BY <2>1, <2>2, <2>3, <2>4
  <1>4. \A j \in 1 .. Len(frames) : CFP!HeldBy(Stack[j]) \subseteq CFP!Held
    BY <1>1 DEF CFP!Held, CFP!HeldOf
  <1>5. ASSUME NEW j \in 1 .. Len(frames), j # i
        PROVE  CFP!HeldBy(Stack[i]) \cap CFP!HeldBy(Stack[j]) = {}
    BY <1>1, <1>2, <1>5 DEF CFP!Disjoint
  <1>6. LET f == frames[i]
        IN  /\ NextOf(f) \in DOMAIN blocks
            /\ IsIf(f) => f.join \in DOMAIN blocks /\ f.join[1] = "if_join"
            /\ f.k = "while" => f.cond \in DOMAIN blocks /\ f.cond[1] = "while_cond"
    <2> DEFINE f == frames[i]
    <2>1. IsFrame(f, DOMAIN blocks)
      BY <1>1
    <2>. HIDE DEF f
    <2>2. /\ NextOf(f) \in DOMAIN blocks
          /\ IsIf(f) => f.join \in DOMAIN blocks /\ f.join[1] = "if_join"
          /\ f.k = "while" => f.cond \in DOMAIN blocks /\ f.cond[1] = "while_cond"
      BY <2>1 DEF IsFrame, NextOf, IsIf
    <2>. QED
      BY <2>2 DEF f
  <1>. QED
    BY <1>2, <1>3, <1>4, <1>5, <1>6

LEMMA LabelFacts ==
  ASSUME GraphInv, status = "lowering"
  PROVE  /\ Closed(blocks) /\ JoinsNot(frames, cur)
         /\ \A l : l \notin DOMAIN blocks => Avoids(frames, l) /\ JoinsNot(frames, l)
         /\ \A i \in 1 .. Len(frames) : /\ NextOf(frames[i]) \in DOMAIN blocks
                                        /\ frames[i].k = "while" => frames[i].cond \in DOMAIN blocks
  <1>1. Closed(blocks)
    <2>1. GraphOf(blocks) \in [DOMAIN GraphOf(blocks) -> SUBSET DOMAIN GraphOf(blocks)]
      BY DEF GraphInv, CFP!Inv, CFP!TypeOK
    <2>. QED
      BY <2>1 DEF GraphOf, Succ, Closed
  <1>. QED
    BY <1>1, HeldFacts DEF JoinsNot, Avoids

\* A block falls through to m, which expects no more, or has ended.
LEMMA FallLayout ==
  ASSUME NEW V, NEW bs, NEW fs, NEW c, NEW l, Layout(V, bs, fs, c, l),
         NEW m, bs[l].term.k = "none" => V[m] \subseteq Avail(bs, V, l),
         NEW bs2, FallsTo(bs, bs2, l, m), JoinsNot(fs, l)
  PROVE  /\ Layout(V, bs2, fs, c, l)
         /\ \A x \in DOMAIN bs : Avail(bs2, V, x) = Avail(bs, V, x)
  <1>1. DOMAIN bs2 = DOMAIN bs /\ KeepsNodes(bs, bs2)
        /\ \A x \in DOMAIN bs : Avail(bs2, V, x) = Avail(bs, V, x)
    BY DEF FallsTo, KeepsNodes, Avail
  <1>2. CASE bs[l].term.k = "none"
    <2>1. Ends(bs, bs2, l, Jump(m))
      BY <1>2 DEF FallsTo
    <2>2. Range(Jump(m).uses) = {} /\ Range(Jump(m).to) = {m}
      <3>1. Range(<<>>) = {}
        BY DEF Range
      <3>. QED
        BY <3>1, TermFacts
    <2>. QED
      BY <1>1, <1>2, <2>1, <2>2, EndLayout
  <1>3. CASE bs[l].term.k # "none"
    <2>1. KeepsTerms(bs, bs2)
      BY <1>3 DEF FallsTo
    <2>2. \A x \in DOMAIN bs : bs2[x].nodes = bs[x].nodes /\ bs2[x].term = bs[x].term
      BY <1>1, <2>1 DEF KeepsNodes, KeepsTerms
    <2>3. KnownIn(bs2) = KnownIn(bs)
      BY <1>1, <2>2 DEF KnownIn
    <2>4. Scoped(bs2, V)
      BY <1>1, <2>2, BlockStaysScoped DEF Layout, Scoped
    <2>5. ASSUME NEW i \in 1 .. Len(fs) PROVE FrameSees(fs[i], bs2, V, c)
      <3>1. FrameSees(fs[i], bs, V, c) /\ SameScope(c, c)
        BY DEF Layout, SameScope
      <3>2. IsIf(fs[i]) => /\ bs2[fs[i].join].nodes = bs[fs[i].join].nodes
                           /\ bs2[fs[i].join].term = bs[fs[i].join].term
        BY <2>2, <3>1 DEF FrameSees
      <3>. QED
        BY <1>1, <2>3, <3>1, <3>2, FrameStays
    <2>6. l \in DOMAIN bs /\ Avail(bs2, V, l) = Avail(bs, V, l)
      BY <1>1 DEF Layout
    <2>7. Layout(V, bs2, fs, c, l)
      BY <1>1, <2>3, <2>4, <2>5, <2>6 DEF Layout
    <2>. QED
      BY <1>1, <2>7
  <1>. QED
    BY <1>2, <1>3

\* What is expected of blocks to come does not matter yet.
LEMMA AgreeLayout ==
  ASSUME NEW V, NEW bs, NEW fs, NEW c, NEW l, Layout(V, bs, fs, c, l), Closed(bs),
         NEW V2, \A m \in DOMAIN bs : V2[m] = V[m],
         \A i \in 1 .. Len(fs) : NextOf(fs[i]) \in DOMAIN bs
                                 /\ (fs[i].k = "while" => fs[i].cond \in DOMAIN bs)
  PROVE  Layout(V2, bs, fs, c, l) /\ \A x \in DOMAIN bs : Avail(bs, V2, x) = Avail(bs, V, x)
  <1>1. l \in DOMAIN bs /\ V2[l] = V[l] /\ \A x \in DOMAIN bs : Avail(bs, V2, x) = Avail(bs, V, x)
    BY DEF Avail, Layout
  <1>2. ASSUME NEW m \in DOMAIN bs PROVE ScopedAt(bs, V2, m)
    <2>1. ScopedAt(bs, V, m)
      BY DEF Layout, Scoped
    <2>2. \A n \in Range(bs[m].term.to) : V2[n] \subseteq V[n]
      BY DEF Closed
    <2>. QED
      BY <2>1, <2>2, BlockStaysScoped
  <1>3. Scoped(bs, V2)
    BY <1>2 DEF Layout, Scoped
  <1>4. ASSUME NEW i \in 1 .. Len(fs) PROVE FrameSees(fs[i], bs, V2, c)
    <2>1. FrameSees(fs[i], bs, V, c) /\ SameScope(c, c)
      BY DEF Layout, SameScope
    <2>2. IsIf(fs[i]) => V2[fs[i].join] = V[fs[i].join]
      BY <2>1 DEF FrameSees
    <2>. QED
      BY <2>1, <2>2, FrameStays
  <1>5. Carries(fs, V2, Avail(bs, V2, l)) /\ Nested(fs, V2)
    BY <1>1 DEF Layout, Carries, Nested
  <1>. QED
    BY <1>1, <1>3, <1>4, <1>5 DEF Layout

-----------------------------------------------------------------------------
(* The lowering keeps a layout that shows the names in scope.                 *)

LaidOut(V, bs, fs, c, l) == Layout(V, bs, fs, c, l) /\ Sees(c.env, c.arrays, Avail(bs, V, l))

\* The inductive invariant.
DominanceInv ==
  /\ status = "lowering" =>
       /\ Depth(src, Len(src) + 1) = Len(frames)
       /\ Hoisted => Bound /\ \E V : LaidOut(V, blocks, frames, ctx, cur)
  /\ Done /\ Hoisted => \E V : Scoped(blocks, V)

\* What a step keeps of it.  The current block, and those that others follow,
\* expect what they did.
KeepsScope(bs, V, W, l) == \A m \in DOMAIN bs : m = l \/ Range(bs[m].term.to) # {} => W[m] = V[m]

DominanceStep(V) ==
  Bound' /\ \E W : LaidOut(W, blocks', frames', ctx', cur') /\ KeepsScope(blocks, V, W, cur)

LEMMA Unmoved == \A V : KeepsScope(blocks, V, V, cur)
  BY DEF KeepsScope

LEMMA NoEdges == Range(NoTerm.to) = {} /\ Range(NoTerm.uses) = {}
  BY DEF NoTerm, Term, Range

LEMMA LaidOutFacts ==
  ASSUME LoweringInv, status = "lowering", NEW V, LaidOut(V, blocks, frames, ctx, cur)
  PROVE  /\ Avail(blocks, V, cur) \subseteq KnownIn(blocks)
         /\ IsContext(ctx, Avail(blocks, V, cur))
         /\ CodeInv(blocks, ctx) /\ JoinsNot(frames, cur) /\ frames \in Seq(Range(frames))
         /\ IsContext(ctx, KnownIn(blocks))
  <1>1. CodeInv(blocks, ctx) /\ IsContext(ctx, KnownIn(blocks)) /\ frames \in Seq(Range(frames))
    BY InvFacts DEF IRInv
  <1>2. Avail(blocks, V, cur) \subseteq KnownIn(blocks)
    BY AvailIsKnown DEF LaidOut, Layout
  <1>3. JoinsNot(frames, cur)
    BY LabelFacts DEF LoweringInv
  <1>. QED
    BY <1>1, <1>2, <1>3, ContextSeen DEF LaidOut

\* Code that reads what the current block may read is added to it.
LEMMA CodeLayout ==
  ASSUME LoweringInv, status = "lowering", NEW V, LaidOut(V, blocks, frames, ctx, cur),
         NEW code, NEW c2, EmitsCode(ctx, Avail(blocks, V, cur), code, c2),
         EmitsCode(ctx, KnownIn(blocks), code, c2), frames # <<>> => SameScope(ctx, c2),
         NEW bs2, Writes(blocks, bs2, cur, code), KeepsTerms(blocks, bs2)
  PROVE  /\ LaidOut(V, bs2, frames, c2, cur)
         /\ Avail(bs2, V, cur) = Avail(blocks, V, cur) \cup Results(code)
  <1> DEFINE A == Avail(blocks, V, cur)
  <1>1. CodeInv(blocks, ctx) /\ JoinsNot(frames, cur) /\ frames \in Seq(Range(frames))
    BY LaidOutFacts
  <1>2. /\ IsCode(code, KnownIn(blocks) \cup Results(code)) /\ ReadsEarlier(code, A)
        /\ IsContext(c2, A \cup Results(code))
    BY DEF EmitsCode
  <1>3. KnownIn(blocks) \cap Results(code) = {}
    BY <1>1, FreshResults
  <1>4. Layout(V, bs2, frames, c2, cur) /\ Avail(bs2, V, cur) = A \cup Results(code)
    BY <1>1, <1>2, <1>3, AppendLayout DEF LaidOut
  <1>5. Sees(c2.env, c2.arrays, Avail(bs2, V, cur))
    BY <1>2, <1>4, SeenContext
  <1>. QED
    BY <1>4, <1>5 DEF LaidOut

\* Inside of ifs and loops nothing is allocated, and what is bound was bound before.
LEMMA InsideFacts ==
  ASSUME LoweringInv, DominanceInv, NEW s \in Stmts, Lower(s), Hoisted'
  PROVE  /\ Hoisted /\ Bound /\ status = "lowering"
         /\ \E V : LaidOut(V, blocks, frames, ctx, cur)
         /\ src \in Seq(Stmts) /\ src' = Append(src, s)
         /\ frames # <<>> => s.s # "alloc" /\ (Binds(s) => s.id \in ScopeNames(ctx))
  <1>1. src \in Seq(Stmts) /\ src' = Append(src, s) /\ status = "lowering"
    BY InvFacts DEF Lower, Shape
  <1>2. Hoisted /\ (Depth(src, Len(src) + 1) > 0 =>
                      s.s # "alloc" /\ (Binds(s) => BoundEarly(s.id)))
    BY <1>1, HoistedFacts
  <1>3. Bound /\ Depth(src, Len(src) + 1) = Len(frames)
        /\ \E V : LaidOut(V, blocks, frames, ctx, cur)
    BY <1>1, <1>2 DEF DominanceInv
  <1>4. frames # <<>> => Len(frames) > 0
    BY InvFacts
  <1>. QED
    BY <1>1, <1>2, <1>3, <1>4 DEF Bound

LEMMA SimpleDominance ==
  ASSUME LoweringInv, DominanceInv, NEW s \in Stmts, s.s \in SimpleStmts, Simple(s), Hoisted',
         NEW V, LaidOut(V, blocks, frames, ctx, cur)
  PROVE  DominanceStep(V)
  <1> DEFINE r == LowerSimple(ctx, s)
  <1>1. /\ Lower(s) /\ r.ok /\ ctx' = r.ctx /\ UNCHANGED <<frames, cur>>
    BY DEF Simple
  <1>2. /\ Bound /\ status = "lowering" /\ src \in Seq(Stmts) /\ src' = Append(src, s)
        /\ frames # <<>> => s.s # "alloc" /\ (Binds(s) => s.id \in ScopeNames(ctx))
    BY <1>1, InsideFacts
  <1>3. LaidOut(V, blocks, frames, ctx, cur)
    OBVIOUS
  <1> DEFINE A == Avail(blocks, V, cur)
  <1>4. IsSimple(s) /\ IsContext(ctx, A) /\ IsContext(ctx, KnownIn(blocks))
    BY <1>2, <1>3, StmtFacts, LoweringAssumption, LaidOutFacts
  <1>. HIDE DEF A
  <1>5. EmitsCode(ctx, A, r.code, ctx') /\ EmitsCode(ctx, KnownIn(blocks), r.code, ctx')
    BY <1>1, <1>4, SimpleFacts DEF Yields
  <1>6. /\ s.s \notin {"assign", "alloc"} => SameScope(ctx, ctx')
        /\ s.s = "assign" => /\ s.id \notin DOMAIN ctx.arrays /\ ctx'.arrays = ctx.arrays
                             /\ DOMAIN ctx'.env = DOMAIN ctx.env \cup {s.id}
        /\ ScopeNames(ctx) \subseteq ScopeNames(ctx')
    BY <1>1, <1>4, SimpleScope
  <1>7. Writes(blocks, blocks', cur, r.code) /\ KeepsTerms(blocks, blocks')
    BY SimpleStep, InvFacts
  <1>. HIDE DEF r
  <1>8. frames # <<>> => SameScope(ctx, ctx')
    BY <1>2, <1>6 DEF Binds, ScopeNames, SameScope
  <1>9. LaidOut(V, blocks', frames, ctx', cur)
    BY <1>2, <1>3, <1>5, <1>7, <1>8, CodeLayout DEF A
  <1>10. Binds(s) => s.id \in ScopeNames(ctx')
    BY <1>6 DEF Binds, ScopeNames, SimpleStmts
  <1>11. Bound'
    BY <1>2, <1>6, <1>10, BoundStays
  <1>. QED
    BY <1>1, <1>9, <1>11, Unmoved DEF DominanceStep

LEMMA ReturnDominance ==
  ASSUME LoweringInv, DominanceInv, NEW s \in Stmts, s.s = "return", ReturnStmt(s), Hoisted',
         NEW V, LaidOut(V, blocks, frames, ctx, cur)
  PROVE  DominanceStep(V)
  <1> DEFINE r == LowerReturn(ctx, s)
             bs == [blocks EXCEPT ![cur].nodes = @ \o r.code]
             t == Return(r.uses)
  <1>1. /\ Lower(s) /\ r.ok /\ ctx' = r.ctx /\ UNCHANGED <<frames, cur>>
        /\ blocks' = [blocks EXCEPT ![cur].nodes = @ \o r.code, ![cur].term = t]
    BY DEF ReturnStmt
  <1>2. /\ Bound /\ status = "lowering" /\ src \in Seq(Stmts) /\ src' = Append(src, s)
    BY <1>1, InsideFacts
  <1>3. LaidOut(V, blocks, frames, ctx, cur)
    OBVIOUS
  <1> DEFINE A == Avail(blocks, V, cur)
  <1>4. /\ s.expr = <<>> \/ Balanced(s.expr)
        /\ IsContext(ctx, A) /\ IsContext(ctx, KnownIn(blocks))
        /\ DOMAIN ctx = {"env", "arrays", "tmp", "ver"} /\ JoinsNot(frames, cur)
    BY <1>2, <1>3, StmtFacts, LoweringAssumption, LaidOutFacts DEF IsContext
  <1>. HIDE DEF A
  <1>5. /\ EmitsCode(ctx, A, r.code, ctx') /\ EmitsCode(ctx, KnownIn(blocks), r.code, ctx')
        /\ Range(r.uses) \subseteq A \cup Results(r.code)
    BY <1>1, <1>4, ReturnFacts DEF Yields
  <1>6. SameScope(ctx, ctx')
    <2>1. CASE s.expr = <<>>
      BY <1>1, <2>1 DEF LowerReturn, SameScope
    <2>2. CASE s.expr # <<>>
      <3>1. r.ctx = LowerExpr(ctx, s.expr).ctx
        BY <2>2 DEF LowerReturn
      <3>. QED
        BY <1>1, <1>4, <2>2, <3>1, ExprScope DEF HasScope, SameScope
    <2>. QED
      BY <2>1, <2>2
  <1>. HIDE DEF r
  <1>7. AreBlocks(blocks) /\ cur \in DOMAIN blocks
    BY InvFacts DEF Shape
  <1>8. Writes(blocks, bs, cur, r.code) /\ KeepsTerms(blocks, bs) /\ AreBlocks(bs)
    BY <1>7, WriteEffect
  <1>9. Writes(blocks, blocks', cur, r.code) /\ Ends(blocks, blocks', cur, t)
    <2>1. t.k # "none"
      BY TermFacts
    <2>. HIDE DEF t
    <2>. QED
      BY <1>1, <1>7, <2>1, EndEffect
  <1>. HIDE DEF bs
  <1>10. KeepsNodes(bs, blocks') /\ Ends(bs, blocks', cur, t)
    BY <1>8, <1>9 DEF Writes, KeepsTerms, KeepsNodes, Ends
  <1>11. LaidOut(V, bs, frames, ctx', cur) /\ Avail(bs, V, cur) = A \cup Results(r.code)
    BY <1>2, <1>3, <1>5, <1>6, <1>8, CodeLayout DEF A
  <1>12. t.uses = r.uses /\ Range(t.to) = {}
    BY TermFacts
  <1>. HIDE DEF t
  <1>13. Layout(V, blocks', frames, ctx', cur) /\ Avail(blocks', V, cur) = Avail(bs, V, cur)
    BY <1>4, <1>5, <1>10, <1>11, <1>12, EndLayout DEF LaidOut
  <1>14. LaidOut(V, blocks', frames, ctx', cur)
    BY <1>11, <1>13 DEF LaidOut
  <1>15. Bound'
    <2>1. ScopeNames(ctx) \subseteq ScopeNames(ctx') /\ ~Binds(s)
      BY <1>6 DEF SameScope, ScopeNames, Binds
    <2>. QED
      BY <1>2, <2>1, BoundStays
  <1>. QED
    BY <1>1, <1>14, <1>15, Unmoved DEF DominanceStep

LEMMA SeesMore ==
  ASSUME NEW env, NEW arrays, NEW S, NEW T, Sees(env, arrays, S), S \subseteq T
  PROVE  Sees(env, arrays, T)
  BY DEF Sees

LEMMA CarriesMore ==
  ASSUME NEW fs, NEW V, NEW S, NEW T, Carries(fs, V, S), S \subseteq T
  PROVE  Carries(fs, V, T)
  BY DEF Carries

LEMMA ArgsAvailable ==
  ASSUME NEW V, NEW bs, NEW fs, NEW c, NEW l, Layout(V, bs, fs, c, l)
  PROVE  Range(Args) \subseteq V[l] /\ Range(Args) \subseteq Avail(bs, V, l)
  BY DEF Layout, Scoped, ScopedAt, Avail

\* Nodes and a terminator are added to the current block.
LEMMA BlockLayout ==
  ASSUME LoweringInv, status = "lowering", NEW V, LaidOut(V, blocks, frames, ctx, cur),
         NEW code, NEW c2, EmitsCode(ctx, Avail(blocks, V, cur), code, c2),
         EmitsCode(ctx, KnownIn(blocks), code, c2), frames # <<>> => SameScope(ctx, c2),
         NEW t, Range(t.uses) \subseteq Avail(blocks, V, cur) \cup Results(code),
         \A m \in Range(t.to) : V[m] \subseteq Avail(blocks, V, cur) \cup Results(code),
         NEW bs, Writes(blocks, bs, cur, code), Ends(blocks, bs, cur, t)
  PROVE  /\ LaidOut(V, bs, frames, c2, cur)
         /\ Avail(bs, V, cur) = Avail(blocks, V, cur) \cup Results(code)
  <1> DEFINE mid == [blocks EXCEPT ![cur].nodes = @ \o code]
             A == Avail(blocks, V, cur)
  <1>1. AreBlocks(blocks) /\ cur \in DOMAIN blocks
    BY InvFacts DEF Shape
  <1>2. Writes(blocks, mid, cur, code) /\ KeepsTerms(blocks, mid)
    BY <1>1, WriteEffect
  <1>. HIDE DEF mid
  <1>3. KeepsNodes(mid, bs) /\ Ends(mid, bs, cur, t)
    BY <1>2 DEF Writes, KeepsTerms, KeepsNodes, Ends
  <1>4. LaidOut(V, mid, frames, c2, cur) /\ Avail(mid, V, cur) = A \cup Results(code)
    BY <1>2, CodeLayout
  <1>. HIDE DEF A
  <1>5. Layout(V, bs, frames, c2, cur) /\ Avail(bs, V, cur) = Avail(mid, V, cur)
    <2>1. JoinsNot(frames, cur)
      BY LaidOutFacts
    <2>2. /\ Range(t.uses) \subseteq Avail(mid, V, cur)
          /\ \A m \in Range(t.to) : V[m] \subseteq Avail(mid, V, cur)
      BY <1>4 DEF A
    <2>. QED
      BY <1>3, <1>4, <2>1, <2>2, EndLayout DEF LaidOut
  <1>. QED
    BY <1>4, <1>5 DEF LaidOut, A

LEMMA OpenIfDominance ==
  ASSUME LoweringInv, DominanceInv, More, NEW s \in Stmts, s.s = "if", OpenIf(s), Hoisted',
         NEW V, LaidOut(V, blocks, frames, ctx, cur)
  PROVE  DominanceStep(V)
  <1> DEFINE e == LowerExpr(ctx, s.expr)
             then == CFP!IfThen
             else == CFP!IfElse
             join == CFP!IfJoin
             labels == {then, else, join}
             t == Branch(Result(e), then, else)
             bs == [blocks EXCEPT ![cur].nodes = @ \o e.code, ![cur].term = t]
             f == [k |-> "then", then |-> then, else |-> else, join |-> join,
                   base |-> ctx.env, left |-> ctx.env]
  <1>1. /\ Lower(s) /\ ResultIs(e, "bool") /\ ctx' = e.ctx
        /\ cur' = then /\ frames' = Append(frames, f)
    BY DEF OpenIf, CFP!IfThen, CFP!IfElse, CFP!IfJoin
  <1>2. /\ Bound /\ status = "lowering" /\ src \in Seq(Stmts) /\ src' = Append(src, s)
    BY <1>1, InsideFacts
  <1>3. LaidOut(V, blocks, frames, ctx, cur)
    OBVIOUS
  <1>4. e.ok /\ Balanced(s.expr)
    BY <1>1, StmtFacts, LoweringAssumption DEF ResultIs
  <1>5. Writes(blocks, bs, cur, e.code) /\ Ends(blocks, bs, cur, t) /\ blocks' = NewBlocks(bs, labels)
    BY OpenIfStep, InvFacts
  <1>6. labels \cap DOMAIN blocks = {} /\ then # else /\ then # join /\ else # join
    BY LabelsAreNew
  <1>7. Range(t.uses) = {Result(e)} /\ Range(t.to) = {then, else}
    BY DEF Branch, Term, Range
  <1>8. /\ f.k = "then" /\ f.base = ctx.env /\ f.left = ctx.env /\ f.join = join /\ f.else = else
    OBVIOUS
  <1>. HIDE DEF then, else, join
  <1> DEFINE A == Avail(blocks, V, cur)
             A2 == A \cup Results(e.code)
             V2 == [m \in DOMAIN blocks \cup labels |->
                      IF m = join THEN Values ELSE IF m \in labels THEN A2 ELSE V[m]]
  <1>9. /\ V2[then] = A2 /\ V2[else] = A2 /\ V2[join] = Values
        /\ \A m \in DOMAIN blocks : V2[m] = V[m]
    BY <1>6
  <1>. HIDE DEF V2, t, f, bs
  <1>10. /\ IsContext(ctx, A) /\ IsContext(ctx, KnownIn(blocks)) /\ cur \in DOMAIN blocks
         /\ DOMAIN ctx = {"env", "arrays", "tmp", "ver"}
         /\ frames \in Seq(Range(frames))
    BY <1>2, <1>3, LaidOutFacts, InvFacts DEF IsContext
  <1>11. LaidOut(V2, blocks, frames, ctx, cur) /\ Avail(blocks, V2, cur) = A
    <2>1. Layout(V2, blocks, frames, ctx, cur) /\ \A x \in DOMAIN blocks : Avail(blocks, V2, x) = Avail(blocks, V, x)
      BY <1>2, <1>3, <1>9, LabelFacts, AgreeLayout DEF LaidOut, LoweringInv
    <2>. QED
      BY <1>3, <1>10, <2>1 DEF LaidOut
  <1>. HIDE DEF A
  <1>12. /\ EmitsCode(ctx, A, e.code, e.ctx) /\ EmitsCode(ctx, KnownIn(blocks), e.code, e.ctx)
         /\ Result(e) \in A2
    BY <1>4, <1>10, ExprFacts DEF Accumulates, Known
  <1>13. e.ctx.env = ctx.env /\ e.ctx.arrays = ctx.arrays /\ SameScope(ctx, e.ctx)
    BY <1>4, <1>10, ExprScope DEF HasScope, SameScope
  <1>. HIDE DEF e
  <1>14. LaidOut(V2, bs, frames, e.ctx, cur) /\ Avail(bs, V2, cur) = A2
    BY <1>2, <1>5, <1>7, <1>9, <1>11, <1>12, <1>13, BlockLayout
  <1>. HIDE DEF A2
  <1>15. Added(bs, blocks', labels) /\ DOMAIN bs = DOMAIN blocks
    BY <1>5, BlocksAdded DEF Ends
  <1>16. Layout(V2, blocks', frames, e.ctx, cur) /\ Avail(blocks', V2, cur) = A2
    <2>1. Range(Args) \subseteq A2
      BY <1>14, ArgsAvailable DEF LaidOut
    <2>2. \A x \in labels : Range(Args) \subseteq V2[x]
      BY <1>9, <2>1, ArgFacts
    <2>. HIDE DEF labels
    <2>. QED
      BY <1>6, <1>14, <1>15, <2>2, AddLayout DEF LaidOut
  <1>17. /\ then \in DOMAIN blocks' /\ blocks'[join].nodes = <<>> /\ blocks'[join].term = NoTerm
         /\ join \in DOMAIN blocks'
    BY <1>15 DEF Added, NewBlock
  <1>18. A2 \subseteq KnownIn(blocks') /\ A2 \subseteq Avail(blocks', V2, then)
    BY <1>9, <1>16, AvailIsKnown DEF Layout, Avail
  <1>19. Carries(frames, V2, A2)
    BY <1>16 DEF Layout
  <1>20. Layout(V2, blocks', frames, e.ctx, then)
    <2>1. Carries(frames, V2, Avail(blocks', V2, then))
      BY <1>18, <1>19, CarriesMore
    <2>2. SameScope(e.ctx, e.ctx)
      BY DEF SameScope
    <2>. QED
      BY <1>9, <1>16, <1>17, <1>18, <2>1, <2>2, MoveLayout
  <1>21. Sees(ctx.env, ctx.arrays, A2)
    BY <1>13, <1>14 DEF LaidOut
  <1>22. FrameSees(f, blocks', V2, e.ctx)
    <2>1. NextOf(f) = else /\ EnvOf(f) = ctx.env /\ IsIf(f) /\ f.k # "while"
      BY <1>8 DEF NextOf, EnvOf, IsIf
    <2>. QED
      BY <1>8, <1>9, <1>13, <1>17, <1>18, <1>21, <2>1 DEF FrameSees
  <1>23. Layout(V2, blocks', frames', ctx', cur')
    <2>1. NextOf(f) = else /\ f.k # "while"
      BY <1>8 DEF NextOf
    <2>. QED
      BY <1>1, <1>9, <1>10, <1>19, <1>20, <1>22, <2>1, PushLayout
  <1>24. LaidOut(V2, blocks', frames', ctx', cur')
    BY <1>1, <1>13, <1>18, <1>21, <1>23, SeesMore DEF LaidOut
  <1>25. Bound'
    <2>1. ScopeNames(ctx) \subseteq ScopeNames(ctx') /\ ~Binds(s)
      BY <1>1, <1>13 DEF SameScope, ScopeNames, Binds
    <2>. QED
      BY <1>2, <2>1, BoundStays
  <1>26. KeepsScope(blocks, V, V2, cur)
    BY <1>9 DEF KeepsScope
  <1>. QED
    BY <1>24, <1>25, <1>26 DEF DominanceStep

\* The innermost pending statement, seen from those around it.
LEMMA TopLayout ==
  ASSUME LoweringInv, status = "lowering", frames # <<>>,
         NEW V, LaidOut(V, blocks, frames, ctx, cur)
  PROVE  LET f == Last(frames)
             gs == Front(frames)
         IN  /\ Layout(V, blocks, gs, ctx, cur) /\ FrameSees(f, blocks, V, ctx)
             /\ f.k = "while" => V[f.cond] \subseteq Avail(blocks, V, cur)
             /\ Carries(gs, V, V[NextOf(f)]) /\ gs \in Seq(Range(gs))
             /\ NextOf(f) \in DOMAIN blocks /\ NextOf(f) # cur
             /\ IsIf(f) => /\ f.join \in DOMAIN blocks /\ f.join # cur /\ f.join # Entry
                           /\ Avoids(gs, f.join) /\ JoinsNot(gs, f.join)
             /\ f.k = "then" => f.join # NextOf(f)
             /\ f.k = "while" => f.cond \in DOMAIN blocks /\ JoinsNot(gs, f.cond)
             /\ JoinsNot(gs, cur)
             /\ \A i \in 1 .. Len(gs) : /\ NextOf(gs[i]) \in DOMAIN blocks
                                        /\ gs[i].k = "while" => gs[i].cond \in DOMAIN blocks
  <1> DEFINE f == Last(frames)
             gs == Front(frames)
             n == Len(frames)
  <1>1. /\ Layout(V, blocks, gs, ctx, cur) /\ FrameSees(f, blocks, V, ctx)
        /\ f.k = "while" => V[f.cond] \subseteq Avail(blocks, V, cur)
        /\ Carries(gs, V, V[NextOf(f)]) /\ gs \in Seq(Range(gs))
        /\ f = frames[n] /\ Len(gs) = n - 1 /\ n \in Nat \ {0}
        /\ \A i \in 1 .. n - 1 : gs[i] = frames[i]
    <2>1. Layout(V, blocks, frames, ctx, cur) /\ frames \in Seq(Range(frames))
      BY InvFacts DEF LaidOut
    <2>2. Layout(V, blocks, gs, ctx, cur) /\ FrameSees(f, blocks, V, ctx)
      BY <2>1, PopLayout
    <2>3. (f.k = "while" => V[f.cond] \subseteq Avail(blocks, V, cur)) /\ Carries(gs, V, V[NextOf(f)])
      BY <2>1, PopLayout
    <2>4. gs \in Seq(Range(gs)) /\ f = frames[n] /\ Len(gs) = n - 1 /\ n \in Nat \ {0}
          /\ \A i \in 1 .. n - 1 : gs[i] = frames[i]
      BY TopWaits
    <2>. QED
      BY <2>2, <2>3, <2>4
  <1>. HIDE DEF f, gs, n
  <1>2. n \in 1 .. n /\ \A i \in 1 .. Len(gs) : i \in 1 .. n /\ i # n /\ gs[i] = frames[i]
    BY <1>1
  <1>3. GraphInv
    BY DEF LoweringInv
  <1>4. /\ NextOf(f) \in DOMAIN blocks /\ NextOf(f) # cur
        /\ IsIf(f) => f.join \in DOMAIN blocks /\ f.join # cur /\ f.join[1] = "if_join"
        /\ f.k = "then" => f.join # NextOf(f)
        /\ f.k = "while" => f.cond \in DOMAIN blocks /\ f.cond[1] = "while_cond"
    BY <1>1, <1>2, <1>3, HeldFacts DEF n
  <1>5. ASSUME NEW i \in 1 .. Len(gs)
        PROVE  /\ NextOf(gs[i]) \in DOMAIN blocks
               /\ IsIf(gs[i]) => gs[i].join # cur /\ gs[i].join[1] = "if_join"
               /\ gs[i].k = "while" => gs[i].cond \in DOMAIN blocks /\ gs[i].cond[1] = "while_cond"
               /\ IsIf(f) => f.join # NextOf(gs[i])
               /\ IsIf(f) /\ IsIf(gs[i]) => f.join # gs[i].join
    <2>1. i \in 1 .. Len(frames) /\ i # n /\ gs[i] = frames[i] /\ f = frames[n]
          /\ n \in 1 .. Len(frames)
      BY <1>1, <1>2 DEF n
    <2>. QED
      BY <1>3, <2>1, HeldFacts
  <1>6. IsIf(f) => f.join # Entry /\ Avoids(gs, f.join) /\ JoinsNot(gs, f.join)
    BY <1>4, <1>5 DEF Avoids, JoinsNot, Entry
  <1>7. JoinsNot(gs, cur) /\ (f.k = "while" => JoinsNot(gs, f.cond))
    BY <1>4, <1>5 DEF JoinsNot
  <1>. QED
    BY <1>1, <1>4, <1>5, <1>6, <1>7 DEF f, gs

LEMMA FallBlocks ==
  ASSUME NEW bs, NEW bs2, NEW l, NEW m, FallsTo(bs, bs2, l, m)
  PROVE  /\ DOMAIN bs2 = DOMAIN bs /\ KeepsNodes(bs, bs2) /\ KnownIn(bs2) = KnownIn(bs)
         /\ \A x \in DOMAIN bs : bs2[x].nodes = bs[x].nodes /\ (x # l => bs2[x].term = bs[x].term)
  <1>1. DOMAIN bs2 = DOMAIN bs /\ KeepsNodes(bs, bs2)
        /\ \A x \in DOMAIN bs : bs2[x].nodes = bs[x].nodes
    BY DEF FallsTo, KeepsNodes
  <1>2. \A x \in DOMAIN bs : x # l => bs2[x].term = bs[x].term
    BY DEF FallsTo, Ends, KeepsTerms
  <1>3. KnownIn(bs2) = KnownIn(bs)
    BY <1>1 DEF KnownIn
  <1>. QED
    BY <1>1, <1>2, <1>3

LEMMA BeginElseDominance ==
  ASSUME LoweringInv, DominanceInv, NEW s \in Stmts, s.s = "else", BeginElse(s), Hoisted',
         NEW V, LaidOut(V, blocks, frames, ctx, cur)
  PROVE  DominanceStep(V)
  <1> DEFINE f == Last(frames)
             gs == Front(frames)
             g == [f EXCEPT !.k = "else", !.left = ctx.env]
  <1>1. /\ Lower(s) /\ frames # <<>> /\ f.k = "then"
        /\ blocks' = FallTo(blocks, cur, f.join) /\ cur' = f.else
        /\ frames' = Append(gs, g) /\ ctx' = [ctx EXCEPT !.env = f.base]
    BY DEF BeginElse, InFrame
  <1>2. /\ Bound /\ status = "lowering" /\ src \in Seq(Stmts) /\ src' = Append(src, s)
    BY <1>1, InsideFacts
  <1>3. LaidOut(V, blocks, frames, ctx, cur)
    OBVIOUS
  <1>4. FallsTo(blocks, blocks', cur, f.join) /\ AreBlocks(blocks) /\ cur \in DOMAIN blocks
    BY InvFacts, BeginElseStep DEF Shape
  <1>5. /\ Layout(V, blocks, gs, ctx, cur) /\ FrameSees(f, blocks, V, ctx)
        /\ Carries(gs, V, V[NextOf(f)]) /\ gs \in Seq(Range(gs))
        /\ NextOf(f) \in DOMAIN blocks
        /\ IsIf(f) => /\ f.join \in DOMAIN blocks /\ f.join # cur /\ f.join # Entry
                      /\ Avoids(gs, f.join)
        /\ f.join # NextOf(f) /\ JoinsNot(gs, cur)
        /\ \A i \in 1 .. Len(gs) : /\ NextOf(gs[i]) \in DOMAIN blocks
                                   /\ gs[i].k = "while" => gs[i].cond \in DOMAIN blocks
    BY <1>1, <1>2, <1>3, TopLayout
  <1>6. NextOf(f) = f.else /\ EnvOf(f) = f.base /\ IsIf(f)
    BY <1>1 DEF NextOf, EnvOf, IsIf
  <1>7. /\ g.k = "else" /\ g.base = f.base /\ g.left = ctx.env /\ g.join = f.join
    <2>1. IsFrame(f, DOMAIN blocks)
      BY <1>1, <1>2, TopWaits
    <2>. QED
      BY <1>1, <2>1 DEF IsFrame
  <1> DEFINE A == Avail(blocks, V, cur)
             K == KnownIn(blocks)
             S == IF blocks[cur].term.k = "none" THEN A ELSE K
             V2 == [m \in DOMAIN blocks |-> IF m = f.join THEN S ELSE V[m]]
  <1>8. A \subseteq K /\ K \subseteq Values /\ A \subseteq S /\ S \subseteq K
        /\ DOMAIN ctx = {"env", "arrays", "tmp", "ver"} /\ Closed(blocks)
    BY <1>2, <1>3, LaidOutFacts, LabelFacts DEF IsContext, LoweringInv
  <1>9. V2[f.join] = S /\ V2[f.else] = V[f.else] /\ \A m \in DOMAIN blocks \ {f.join} : V2[m] = V[m]
    BY <1>5, <1>6
  <1>10. Sees(ctx.env, ctx.arrays, A) /\ Sees(f.base, ctx.arrays, V[f.else])
         /\ V[f.else] \subseteq K /\ DOMAIN f.base = DOMAIN ctx.env
         /\ blocks[f.join].nodes = <<>> /\ blocks[f.join].term = NoTerm /\ V[f.join] = Values
    BY <1>1, <1>3, <1>5, <1>6 DEF LaidOut, FrameSees
  <1>. HIDE DEF f, gs, g, V2
  <1>11. blocks[cur].term.k = "none" => S = A
    OBVIOUS
  <1>. HIDE DEF S
  <1>12. Range(Args) \subseteq S
    <2>1. Range(Args) \subseteq A
      BY <1>5, ArgsAvailable
    <2>. QED
      BY <1>8, <2>1
  <1>13. Layout(V2, blocks, gs, ctx, cur) /\ Avail(blocks, V2, cur) = A
    BY <1>5, <1>6, <1>8, <1>9, <1>10, <1>12, NarrowLayout
  <1>. HIDE DEF A, K
  <1>14. Layout(V2, blocks', gs, ctx, cur)
    BY <1>4, <1>5, <1>9, <1>11, <1>13, FallLayout
  <1>15. /\ DOMAIN blocks' = DOMAIN blocks /\ KnownIn(blocks') = K
         /\ blocks'[f.join].nodes = <<>> /\ blocks'[f.join].term = NoTerm
    BY <1>4, <1>5, <1>6, <1>10, FallBlocks DEF K
  <1>16. SameScope(ctx, ctx') /\ ctx'.env = f.base /\ ctx'.arrays = ctx.arrays
    BY <1>1, <1>8, <1>10 DEF SameScope
  <1>17. Carries(gs, V2, V2[f.else])
    <2>1. \A i \in 1 .. Len(gs) : gs[i].k = "while" => V2[gs[i].cond] = V[gs[i].cond]
      BY <1>5, <1>6, <1>9 DEF Avoids
    <2>. QED
      BY <1>5, <1>6, <1>9, <2>1 DEF Carries
  <1>18. V2[f.else] \subseteq Avail(blocks', V2, f.else)
    BY DEF Avail
  <1>19. Layout(V2, blocks', gs, ctx', f.else)
    <2>1. Carries(gs, V2, Avail(blocks', V2, f.else))
      BY <1>17, <1>18, CarriesMore
    <2>. QED
      BY <1>5, <1>6, <1>9, <1>10, <1>14, <1>15, <1>16, <2>1, MoveLayout
  <1>20. Sees(ctx'.env, ctx'.arrays, Avail(blocks', V2, f.else))
    BY <1>9, <1>10, <1>16, <1>18, SeesMore
  <1>21. NextOf(g) = f.join /\ EnvOf(g) = ctx.env /\ IsIf(g) /\ g.k # "while" /\ g.k # "then"
    BY <1>7 DEF NextOf, EnvOf, IsIf
  <1>22. FrameSees(g, blocks', V2, ctx')
    <2>1. Sees(ctx.env, ctx'.arrays, S)
      BY <1>8, <1>10, <1>16, SeesMore
    <2>. QED
      BY <1>5, <1>6, <1>7, <1>8, <1>9, <1>10, <1>15, <1>16, <1>21, <2>1 DEF FrameSees, SameScope
  <1>23. Carries(gs, V2, S)
    BY <1>8, <1>13, CarriesMore DEF Layout
  <1>24. Layout(V2, blocks', frames', ctx', cur')
    BY <1>1, <1>5, <1>9, <1>19, <1>21, <1>22, <1>23, PushLayout
  <1>25. LaidOut(V2, blocks', frames', ctx', cur')
    BY <1>1, <1>20, <1>24 DEF LaidOut
  <1>26. Bound'
    <2>1. ScopeNames(ctx) \subseteq ScopeNames(ctx') /\ ~Binds(s)
      BY <1>16 DEF SameScope, ScopeNames, Binds
    <2>. QED
      BY <1>1, <1>2, <2>1, BoundStays
  <1>27. KeepsScope(blocks, V, V2, cur)
    BY <1>5, <1>6, <1>9, <1>10, NoEdges DEF KeepsScope
  <1>. QED
    BY <1>25, <1>26, <1>27 DEF DominanceStep

\* A value that a block defines has a name that no argument has.
LEMMA DefinedIn ==
  ASSUME NEW bs, NEW c, CodeInv(bs, c), NEW l \in DOMAIN bs, NEW v \in Results(bs[l].nodes)
  PROVE  /\ v.name \in CodeNames(bs[l].nodes) /\ v.name \notin ArgNames
         /\ \E i \in 1 .. Len(bs[l].nodes) : v \in bs[l].nodes[i].res
  <1> DEFINE nodes == bs[l].nodes
  <1>1. /\ nodes \in Seq(Range(nodes)) /\ v \in Results(nodes)
        /\ \A i \in 1 .. Len(nodes) : ResNames(nodes[i]) \subseteq Given(c) \ ArgNames
    BY DEF CodeInv, IsCode, NamesIn
  <1>. HIDE DEF nodes
  <1>2. PICK i \in 1 .. Len(nodes) : v \in nodes[i].res
    BY <1>1 DEF Results, Range
  <1>3. v.name \in ResNames(nodes[i])
    BY <1>2 DEF ResNames
  <1>. QED
    BY <1>1, <1>2, <1>3 DEF CodeNames, nodes

\* Names tell values apart, except for the parameters' own.
LEMMA UniqueNames ==
  ASSUME NEW bs, NEW c, CodeInv(bs, c), NEW v \in KnownIn(bs), NEW w \in KnownIn(bs),
         v.name = w.name
  PROVE  v = w \/ {v, w} \subseteq Range(Args)
  <1>1. CASE v \in Range(Args)
    <2>1. v.name \in ArgNames
      BY <1>1 DEF ArgNames
    <2>2. \A l \in DOMAIN bs : w \notin Results(bs[l].nodes)
      BY <2>1, DefinedIn
    <2>. QED
      BY <1>1, <2>2 DEF KnownIn
  <1>2. CASE w \in Range(Args)
    <2>1. w.name \in ArgNames
      BY <1>2 DEF ArgNames
    <2>2. \A l \in DOMAIN bs : v \notin Results(bs[l].nodes)
      BY <2>1, DefinedIn
    <2>. QED
      BY <1>2, <2>2 DEF KnownIn
  <1>3. CASE v \notin Range(Args) /\ w \notin Range(Args)
    <2>1. PICK l \in DOMAIN bs : v \in Results(bs[l].nodes)
      BY <1>3 DEF KnownIn
    <2>2. PICK m \in DOMAIN bs : w \in Results(bs[m].nodes)
      BY <1>3 DEF KnownIn
    <2>3. v.name \in CodeNames(bs[l].nodes) /\ w.name \in CodeNames(bs[m].nodes)
      BY <2>1, <2>2, DefinedIn
    <2>4. l = m
      BY <2>3 DEF CodeInv
    <2>5. PICK i \in 1 .. Len(bs[l].nodes) : v \in bs[l].nodes[i].res
      BY <2>1, DefinedIn
    <2>6. PICK j \in 1 .. Len(bs[l].nodes) : w \in bs[l].nodes[j].res
      BY <2>2, <2>4, DefinedIn
    <2>7. i = j
      <3>1. v.name \in ResNames(bs[l].nodes[i]) /\ w.name \in ResNames(bs[l].nodes[j])
        BY <2>5, <2>6 DEF ResNames
      <3>. QED
        BY <3>1 DEF CodeInv, NamesOnce
    <2>8. \A x, y \in bs[l].nodes[i].res : x = y
      BY DEF CodeInv, IsCode, IsNode
    <2>. QED
      BY <2>5, <2>6, <2>7, <2>8
  <1>. QED
    BY <1>1, <1>2, <1>3

\* Where an if joins, a name has a phi's value, or the value that both sides see.
LEMMA MergeSeen ==
  ASSUME NEW bs, NEW c, CodeInv(bs, c), NEW f, IsEnv(f.base, KnownIn(bs)), IsEnv(f.left, KnownIn(bs)),
         DOMAIN f.base = DOMAIN c.env, DOMAIN f.left = DOMAIN c.env,
         NEW S, Range(Args) \subseteq S, \A id \in DOMAIN c.arrays : c.arrays[id].ptr \in S,
         \A id \in DOMAIN c.env : f.left[id] = c.env[id] => c.env[id] \in S
  PROVE  LET m == Merge(f, c.env, c)
         IN  SameScope(c, m.ctx) /\ Sees(m.ctx.env, m.ctx.arrays, S \cup Results(m.code))
  <1> DEFINE m == Merge(f, c.env, c)
             K == KnownIn(bs)
  <1>1. /\ IsContext(c, K) /\ DOMAIN c.env \subseteq VarNames
        /\ \A id \in DOMAIN c.env : c.env[id] \in K
    BY DEF CodeInv, IsContext
  <1>. HIDE DEF K
  <1>2. /\ m.ctx.arrays = c.arrays
        /\ \A id \in DOMAIN m.ctx.env : \/ m.ctx.env[id] \in Results(m.code)
                                        \/ Unsplit(f, c.env, id, m.ctx.env[id])
        /\ DOMAIN m.ctx.env =
             {id \in VarNames : SideOf(f.left, f.base, id) \cup SideOf(c.env, f.base, id) # {}}
    BY <1>1, MergeFacts DEF K
  <1>. HIDE DEF m
  <1>3. \A id : id \in DOMAIN c.env => /\ SideOf(f.left, f.base, id) = {f.left[id]}
                                       /\ SideOf(c.env, f.base, id) = {c.env[id]}
    BY DEF SideOf
  <1>4. \A id : id \notin DOMAIN c.env => /\ SideOf(f.left, f.base, id) = {}
                                          /\ SideOf(c.env, f.base, id) = {}
    BY DEF SideOf
  <1>5. DOMAIN m.ctx.env = DOMAIN c.env
    BY <1>1, <1>2, <1>3, <1>4
  <1>6. ASSUME NEW id \in DOMAIN c.env, Unsplit(f, c.env, id, m.ctx.env[id])
        PROVE  m.ctx.env[id] \in S
    <2>1. /\ SideOf(f.left, f.base, id) = {f.left[id]} /\ SideOf(c.env, f.base, id) = {c.env[id]}
          /\ f.left[id] \in K /\ c.env[id] \in K
      BY <1>1, <1>3 DEF IsEnv, K
    <2>2. /\ (CHOOSE x \in {f.left[id]} : TRUE).name = (CHOOSE x \in {c.env[id]} : TRUE).name
          /\ m.ctx.env[id] = CHOOSE x \in {f.left[id]} \cup {c.env[id]} : TRUE
      BY <1>6, <2>1 DEF Unsplit
    <2>3. f.left[id].name = c.env[id].name /\ m.ctx.env[id] \in {f.left[id], c.env[id]}
      BY <2>2
    <2>4. f.left[id] = c.env[id] \/ {f.left[id], c.env[id]} \subseteq Range(Args)
      BY <2>1, <2>3, UniqueNames DEF K
    <2>. QED
      BY <2>3, <2>4
  <1>7. Sees(m.ctx.env, m.ctx.arrays, S \cup Results(m.code))
    BY <1>2, <1>5, <1>6 DEF Sees
  <1>. QED
    BY <1>2, <1>5, <1>7 DEF SameScope, m

LEMMA CloseIfDominance ==
  ASSUME LoweringInv, DominanceInv, NEW s \in Stmts, s.s = "end", CloseIf(s), Hoisted',
         NEW V, LaidOut(V, blocks, frames, ctx, cur)
  PROVE  DominanceStep(V)
  <1> DEFINE f == Last(frames)
             gs == Front(frames)
             m == Merge(f, ctx.env, ctx)
             bs == FallTo(blocks, cur, f.join)
  <1>1. /\ Lower(s) /\ frames # <<>> /\ f.k = "else" /\ cur' = f.join
        /\ frames' = gs /\ ctx' = m.ctx
    BY DEF CloseIf, InFrame
  <1>2. /\ Bound /\ status = "lowering" /\ src \in Seq(Stmts) /\ src' = Append(src, s)
    BY <1>1, InsideFacts
  <1>3. LaidOut(V, blocks, frames, ctx, cur)
    OBVIOUS
  <1>4. /\ FallsTo(blocks, bs, cur, f.join) /\ Writes(bs, blocks', f.join, m.code)
        /\ KeepsTerms(bs, blocks') /\ AreBlocks(blocks) /\ cur \in DOMAIN blocks
    BY InvFacts, CloseIfStep DEF Shape
  <1>. HIDE DEF bs
  <1>5. /\ Layout(V, blocks, gs, ctx, cur) /\ FrameSees(f, blocks, V, ctx)
        /\ Carries(gs, V, V[NextOf(f)]) /\ gs \in Seq(Range(gs))
        /\ IsIf(f) => /\ f.join \in DOMAIN blocks /\ f.join # cur /\ f.join # Entry
                      /\ Avoids(gs, f.join) /\ JoinsNot(gs, f.join)
        /\ JoinsNot(gs, cur)
        /\ \A i \in 1 .. Len(gs) : /\ NextOf(gs[i]) \in DOMAIN blocks
                                   /\ gs[i].k = "while" => gs[i].cond \in DOMAIN blocks
    BY <1>1, <1>2, <1>3, TopLayout
  <1>6. NextOf(f) = f.join /\ EnvOf(f) = f.left /\ IsIf(f)
    BY <1>1 DEF NextOf, EnvOf, IsIf
  <1>7. Waits(f, blocks) /\ WaitAll(gs, blocks) /\ IsStack(gs, DOMAIN blocks)
    BY <1>1, <1>2, TopWaits
  <1>8. IsEnv(f.base, KnownIn(blocks)) /\ IsEnv(f.left, KnownIn(blocks))
    BY <1>1, <1>7 DEF Waits
  <1>9. /\ EmitsCode(ctx, KnownIn(blocks), m.code, m.ctx)
        /\ \A i \in 1 .. Len(m.code) : m.code[i].args = <<>>
    <2>1. IsContext(ctx, KnownIn(blocks))
      BY InvFacts
    <2>. HIDE DEF f
    <2>2. /\ EmitsCode(ctx, KnownIn(blocks), m.code, m.ctx)
          /\ \A i \in 1 .. Len(m.code) : m.code[i].op = "phi" /\ m.code[i].args = <<>>
      BY <1>8, <2>1, MergeFacts
    <2>. HIDE DEF m
    <2>. QED
      BY <2>2
  <1> DEFINE A == Avail(blocks, V, cur)
             K == KnownIn(blocks)
             S == IF blocks[cur].term.k = "none" THEN V[f.join] \cap A ELSE V[f.join]
             V2 == [x \in DOMAIN blocks |-> IF x = f.join THEN S ELSE V[x]]
  <1>10. Closed(blocks) /\ S \subseteq V[f.join] /\ (blocks[cur].term.k = "none" => S \subseteq A)
    BY <1>2, LabelFacts DEF LoweringInv
  <1>11. V2[f.join] = S /\ \A x \in DOMAIN blocks \ {f.join} : V2[x] = V[x]
    BY <1>5, <1>6
  <1>12. /\ Sees(ctx.env, ctx.arrays, A) /\ Sees(f.left, ctx.arrays, V[f.join])
         /\ V[f.join] \subseteq K /\ DOMAIN f.base = DOMAIN ctx.env /\ DOMAIN f.left = DOMAIN ctx.env
         /\ blocks[f.join].nodes = <<>> /\ blocks[f.join].term = NoTerm
    BY <1>1, <1>3, <1>5, <1>6 DEF LaidOut, FrameSees
  <1>13. /\ Range(Args) \subseteq S
         /\ \A id \in DOMAIN ctx.arrays : ctx.arrays[id].ptr \in S
         /\ \A id \in DOMAIN ctx.env : f.left[id] = ctx.env[id] => ctx.env[id] \in S
    <2>1. Range(Args) \subseteq A
      BY <1>5, ArgsAvailable
    <2>2. Range(Args) \subseteq V[f.join]
      BY <1>5, <1>6 DEF Layout, Scoped, ScopedAt
    <2>. HIDE DEF A
    <2>. QED
      BY <1>12, <2>1, <2>2 DEF Sees
  <1>. HIDE DEF f, gs, V2, S
  <1>14. SameScope(ctx, m.ctx) /\ Sees(m.ctx.env, m.ctx.arrays, S \cup Results(m.code))
    BY <1>8, <1>12, <1>13, InvFacts, MergeSeen DEF IRInv
  <1>. HIDE DEF m
  <1>15. Layout(V2, blocks, gs, ctx, cur) /\ Avail(blocks, V2, cur) = A
    BY <1>5, <1>6, <1>10, <1>11, <1>12, <1>13, NarrowLayout
  <1>. HIDE DEF A
  <1>16. Layout(V2, bs, gs, ctx, cur)
    BY <1>4, <1>5, <1>10, <1>11, <1>15, FallLayout
  <1>17. /\ IRInv(bs, ctx) /\ KnownIn(bs) = K
    BY <1>4, <1>7, InvFacts, FallInv
  <1>18. /\ DOMAIN bs = DOMAIN blocks /\ bs[f.join].nodes = <<>>
    BY <1>4, <1>5, <1>6, <1>12, FallBlocks
  <1>. HIDE DEF K
  <1>19. Avail(bs, V2, f.join) = S
    <2>1. Results(<<>>) = {}
      BY DEF Results, Range
    <2>. QED
      BY <1>11, <1>18, <2>1 DEF Avail
  <1>20. Layout(V2, bs, gs, ctx, f.join)
    <2>1. \A i \in 1 .. Len(gs) : gs[i].k = "while" => V2[gs[i].cond] = V[gs[i].cond]
      BY <1>5, <1>6, <1>11 DEF Avoids
    <2>2. Carries(gs, V2, Avail(bs, V2, f.join))
      <3>1. Carries(gs, V, A) /\ Carries(gs, V, V[f.join])
        BY <1>5, <1>6 DEF Layout, A
      <3>2. Carries(gs, V, S)
        BY <3>1 DEF Carries, S
      <3>. QED
        BY <1>19, <2>1, <3>2 DEF Carries
    <2>3. SameScope(ctx, ctx)
      BY DEF SameScope
    <2>. QED
      BY <1>5, <1>6, <1>10, <1>11, <1>12, <1>16, <1>17, <1>18, <2>2, <2>3, MoveLayout DEF K
  <1>21. ReadsEarlier(m.code, S)
    <2>1. Range(<<>>) = {}
      BY DEF Range
    <2>. QED
      BY <1>9, <2>1 DEF ReadsEarlier
  <1>22. /\ Layout(V2, blocks', gs, m.ctx, f.join)
         /\ Avail(blocks', V2, f.join) = S \cup Results(m.code)
    <2>1. CodeInv(bs, ctx) /\ EmitsCode(ctx, KnownIn(bs), m.code, m.ctx)
      BY <1>9, <1>17 DEF IRInv, K
    <2>2. KnownIn(bs) \cap Results(m.code) = {} /\ IsCode(m.code, KnownIn(bs) \cup Results(m.code))
      BY <2>1, FreshResults DEF EmitsCode
    <2>. QED
      BY <1>4, <1>5, <1>6, <1>14, <1>19, <1>20, <1>21, <2>1, <2>2, AppendLayout
  <1>23. LaidOut(V2, blocks', frames', ctx', cur')
    BY <1>1, <1>14, <1>22 DEF LaidOut
  <1>24. Bound'
    <2>1. ScopeNames(ctx) \subseteq ScopeNames(ctx') /\ ~Binds(s)
      BY <1>1, <1>14 DEF SameScope, ScopeNames, Binds
    <2>. QED
      BY <1>1, <1>2, <2>1, BoundStays
  <1>25. KeepsScope(blocks, V, V2, cur)
    BY <1>5, <1>6, <1>11, <1>12, NoEdges DEF KeepsScope
  <1>. QED
    BY <1>23, <1>24, <1>25 DEF DominanceStep

\* A loop's step assigns, and leaves the arrays alone.
LEMMA StepScope ==
  ASSUME NEW K, IsContext(ctx, K), NEW f, LowerStep(f).ok,
         f.step # <<>> => IsSimple(f.step[1]) /\ f.step[1].s = "assign"
  PROVE  LowerStep(f).ctx.arrays = ctx.arrays
  <1>1. CASE f.step = <<>>
    BY <1>1 DEF LowerStep
  <1>2. CASE f.step # <<>>
    <2>1. LowerStep(f) = LowerSimple(ctx, f.step[1])
      BY <1>2 DEF LowerStep
    <2>. QED
      BY <1>2, <2>1, SimpleScope
  <1>. QED
    BY <1>1, <1>2

LEMMA CloseLoopDominance ==
  ASSUME LoweringInv, DominanceInv, NEW s \in Stmts, s.s = "end", CloseLoop(s), Hoisted',
         NEW V, LaidOut(V, blocks, frames, ctx, cur)
  PROVE  DominanceStep(V)
  <1> DEFINE f == Last(frames)
             gs == Front(frames)
             r == LowerStep(f)
  <1>1. /\ Lower(s) /\ frames # <<>> /\ f.k = "while" /\ cur' = f.exit
        /\ frames' = gs /\ r.ok /\ ctx' = [r.ctx EXCEPT !.env = f.base]
    BY DEF CloseLoop, InFrame
  <1>2. /\ Bound /\ status = "lowering" /\ src \in Seq(Stmts) /\ src' = Append(src, s)
    BY <1>1, InsideFacts
  <1>3. LaidOut(V, blocks, frames, ctx, cur)
    OBVIOUS
  <1>4. PICK bs1, bs2 : LoopClosed(f, bs1, bs2)
    BY InvFacts, CloseLoopStep
  <1>5. /\ Writes(blocks, bs1, cur, r.code) /\ KeepsTerms(blocks, bs1)
        /\ FallsTo(bs1, bs2, cur, f.cond)
        /\ Fills(bs2, blocks', f.cond, Patch(f, bs2[f.cond].nodes, r.ctx.env))
        /\ KeepsTerms(bs2, blocks')
    BY <1>4 DEF LoopClosed
  <1>6. /\ IRInv(bs2, r.ctx) /\ DOMAIN bs2 = DOMAIN blocks /\ Waits(f, bs2)
        /\ IsEnv(r.ctx.env, KnownIn(bs2)) /\ KnownIn(bs2) = KnownIn(bs1)
        /\ IRInv(bs1, r.ctx) /\ (f.step # <<>> => IsSimple(f.step[1]))
    BY <1>1, <1>2, <1>4, LoopClosedFacts
  <1>7. /\ Layout(V, blocks, gs, ctx, cur) /\ FrameSees(f, blocks, V, ctx)
        /\ V[f.cond] \subseteq Avail(blocks, V, cur)
        /\ Carries(gs, V, V[NextOf(f)]) /\ gs \in Seq(Range(gs))
        /\ NextOf(f) \in DOMAIN blocks
        /\ f.cond \in DOMAIN blocks /\ JoinsNot(gs, f.cond) /\ JoinsNot(gs, cur)
    BY <1>1, <1>2, <1>3, TopLayout
  <1>8. NextOf(f) = f.exit /\ EnvOf(f) = f.base
    BY <1>1 DEF NextOf, EnvOf
  <1>9. /\ V[f.exit] \subseteq KnownIn(blocks) /\ DOMAIN f.base = DOMAIN ctx.env
        /\ Sees(f.base, ctx.arrays, V[f.exit])
        /\ f.step # <<>> => f.step[1].s = "assign"
    BY <1>1, <1>7, <1>8 DEF FrameSees
  <1> DEFINE A == Avail(blocks, V, cur)
  <1>10. IsContext(ctx, A) /\ IsContext(ctx, KnownIn(blocks)) /\ CodeInv(blocks, ctx)
         /\ cur \in DOMAIN blocks
    BY <1>2, <1>3, LaidOutFacts, InvFacts
  <1>. HIDE DEF A
  <1>11. EmitsCode(ctx, A, r.code, r.ctx) /\ EmitsCode(ctx, KnownIn(blocks), r.code, r.ctx)
    BY <1>1, <1>6, <1>10, StepFacts DEF Yields
  <1>12. r.ctx.arrays = ctx.arrays
    BY <1>1, <1>6, <1>9, <1>10, StepScope
  <1>. HIDE DEF f, gs, r
  <1>13. Layout(V, bs1, gs, ctx, cur) /\ Avail(bs1, V, cur) = A \cup Results(r.code)
    <2>1. KnownIn(blocks) \cap Results(r.code) = {}
      BY <1>10, <1>11, FreshResults
    <2>2. IsCode(r.code, KnownIn(blocks) \cup Results(r.code)) /\ ReadsEarlier(r.code, A)
      BY <1>11 DEF EmitsCode
    <2>3. SameScope(ctx, ctx)
      BY DEF SameScope
    <2>. QED
      BY <1>5, <1>7, <1>10, <2>1, <2>2, <2>3, AppendLayout DEF A
  <1>14. KnownIn(bs1) = KnownIn(blocks) \cup Results(r.code)
    BY <1>5, <1>10, <1>11, CodeWritten
  <1>15. Layout(V, bs2, gs, ctx, cur)
    <2>1. V[f.cond] \subseteq Avail(bs1, V, cur)
      BY <1>7, <1>13 DEF A
    <2>. QED
      BY <1>5, <1>7, <1>13, <2>1, FallLayout
  <1> DEFINE code == Patch(f, bs2[f.cond].nodes, r.ctx.env)
  <1>16. /\ IsCode(bs2[f.cond].nodes, KnownIn(bs2)) /\ IsCode(code, KnownIn(bs2))
         /\ f.cond \in DOMAIN bs2 /\ CodeInv(bs2, r.ctx) /\ code \in Seq(Range(code))
         /\ Len(code) = Len(bs2[f.cond].nodes)
         /\ \A i \in 1 .. Len(code) : /\ code[i].res = bs2[f.cond].nodes[i].res
                                      /\ code[i].args = bs2[f.cond].nodes[i].args
    <2>1. /\ IsCode(bs2[f.cond].nodes, KnownIn(bs2)) /\ IsEnv(f.base, KnownIn(bs2))
          /\ Owned(bs2[f.cond].nodes, f.base)
      BY <1>1, <1>6, <1>7 DEF IRInv, CodeInv, Waits
    <2>2. /\ IsCode(code, KnownIn(bs2)) /\ Len(code) = Len(bs2[f.cond].nodes)
          /\ \A i \in 1 .. Len(bs2[f.cond].nodes) : /\ code[i].res = bs2[f.cond].nodes[i].res
                                                   /\ code[i].args = bs2[f.cond].nodes[i].args
      BY <1>6, <2>1, PatchFacts
    <2>3. code \in Seq(Range(code))
      BY <2>2 DEF IsCode
    <2>4. f.cond \in DOMAIN bs2 /\ CodeInv(bs2, r.ctx)
      BY <1>6, <1>7 DEF IRInv
    <2>. HIDE DEF code
    <2>. QED
      BY <2>1, <2>2, <2>3, <2>4
  <1>17. Fills(bs2, blocks', f.cond, code)
    BY <1>5
  <1>. HIDE DEF code
  <1>18. Layout(V, blocks', gs, ctx, cur)
    BY <1>5, <1>7, <1>15, <1>16, <1>17, PatchLayout
  <1>19. KnownIn(blocks) \subseteq KnownIn(blocks') /\ f.exit \in DOMAIN blocks'
    <2>1. KnownIn(blocks') = KnownIn(bs2)
      BY <1>16, <1>17, CodeChanged
    <2>2. DOMAIN blocks' = DOMAIN blocks
      BY <1>5, <1>6 DEF KeepsTerms
    <2>. QED
      BY <1>6, <1>7, <1>8, <1>14, <2>1, <2>2
  <1>20. SameScope(ctx, ctx') /\ ctx'.env = f.base /\ ctx'.arrays = ctx.arrays
    <2>1. DOMAIN r.ctx = {"env", "arrays", "tmp", "ver"}
      BY <1>6 DEF IRInv, CodeInv, IsContext
    <2>. QED
      BY <1>1, <1>9, <1>12, <2>1 DEF SameScope
  <1>21. V[f.exit] \subseteq Avail(blocks', V, f.exit)
    BY DEF Avail
  <1>22. Layout(V, blocks', frames', ctx', cur')
    <2>1. Carries(gs, V, Avail(blocks', V, f.exit))
      BY <1>7, <1>8, <1>21, CarriesMore
    <2>. QED
      BY <1>1, <1>9, <1>18, <1>19, <1>20, <2>1, MoveLayout
  <1>23. LaidOut(V, blocks', frames', ctx', cur')
    BY <1>1, <1>9, <1>20, <1>21, <1>22, SeesMore DEF LaidOut
  <1>24. Bound'
    <2>1. ScopeNames(ctx) \subseteq ScopeNames(ctx') /\ ~Binds(s)
      BY <1>20 DEF SameScope, ScopeNames, Binds
    <2>. QED
      BY <1>1, <1>2, <2>1, BoundStays
  <1>. QED
    BY <1>23, <1>24, Unmoved DEF DominanceStep

\* The code of a condition block: the phis, and the test.
LEMMA LoopCode ==
  ASSUME NEW c, NEW K, IsContext(c, K), NEW pre, NEW body, NEW test, Balanced(test),
         LowerExpr(Header(c, pre, body).ctx, test).ok
  PROVE  LET h == Header(c, pre, body)
             e == LowerExpr(h.ctx, test)
             new == h.code \o e.code
         IN  /\ EmitsCode(c, K, new, e.ctx) /\ Result(e) \in K \cup Results(new)
             /\ SameScope(c, e.ctx) /\ e.ctx.env = h.ctx.env
  <1> DEFINE h == Header(c, pre, body)
             e == LowerExpr(h.ctx, test)
             H == K \cup Results(h.code)
  <1>1. EmitsCode(c, K, h.code, h.ctx)
    BY HeaderFacts
  <1>2. SameScope(c, h.ctx)
    <2>1. DOMAIN c = {"env", "arrays", "tmp", "ver"}
      BY DEF IsContext
    <2>. QED
      BY <2>1 DEF Header, SameScope
  <1>. HIDE DEF h
  <1>3. IsContext(h.ctx, H) /\ e.ok
    BY <1>1 DEF EmitsCode, h
  <1>4. DOMAIN h.ctx = {"env", "arrays", "tmp", "ver"}
    BY <1>3 DEF IsContext
  <1>. HIDE DEF H
  <1>5. Accumulates(h.ctx, H, e, 1) /\ Result(e) \in Known(H, e)
    BY <1>3, ExprFacts
  <1>6. e.ctx.env = h.ctx.env /\ e.ctx.arrays = h.ctx.arrays
    BY <1>4, ExprScope DEF HasScope
  <1>. HIDE DEF e
  <1>7. EmitsCode(h.ctx, H, e.code, e.ctx) /\ Result(e) \in H \cup Results(e.code)
    BY <1>5 DEF Accumulates, Known
  <1>8. EmitsCode(c, K, h.code \o e.code, e.ctx)
    BY <1>1, <1>7, EmitsBoth DEF H
  <1>9. Results(h.code \o e.code) = Results(h.code) \cup Results(e.code)
    <2>1. h.code \in Seq(Range(h.code)) /\ e.code \in Seq(Range(e.code))
      BY <1>1, <1>7 DEF EmitsCode, IsCode
    <2>. QED
      BY <2>1, ResultsOfBoth
  <1>10. Result(e) \in K \cup Results(h.code \o e.code)
    BY <1>7, <1>9 DEF H
  <1>11. SameScope(c, e.ctx)
    BY <1>2, <1>6 DEF SameScope
  <1>. QED
    BY <1>6, <1>8, <1>10, <1>11 DEF h, e

\* The blocks of a loop: what the code before it defines is there in the condition
\* block, and what that defines is there in the body and after the loop.
LEMMA OpenDominance ==
  ASSUME LoweringInv, status = "lowering", NEW V, LaidOut(V, blocks, frames, ctx, cur),
         NEW c, NEW code, EmitsCode(ctx, Avail(blocks, V, cur), code, c),
         EmitsCode(ctx, KnownIn(blocks), code, c), frames # <<>> => SameScope(ctx, c),
         NEW test, Balanced(test), NEW step, step # <<>> => step[1].s = "assign",
         Open(c, code, test, step), NEW bs, NEW mid, LoopBlocks(c, code, test, bs, mid)
  PROVE  /\ SameScope(c, ctx')
         /\ \E W : LaidOut(W, blocks', frames', ctx', cur') /\ KeepsScope(blocks, V, W, cur)
  <1> DEFINE cond == CFP!WhileCond
             body == CFP!WhileBody
             exit == CFP!WhileExit
             labels == {cond, body, exit}
             h == Header(c, cur, body)
             e == LowerExpr(h.ctx, test)
             new == h.code \o e.code
             t == Branch(Result(e), body, exit)
             f == [k |-> "while", cond |-> cond, body |-> body, exit |-> exit,
                   base |-> h.ctx.env, step |-> step]
             A == Avail(blocks, V, cur)
             A1 == A \cup Results(code)
             B == A1 \cup Results(new)
             V2 == [m \in DOMAIN blocks \cup labels |->
                      IF m = cond THEN A1 ELSE IF m \in labels THEN B ELSE V[m]]
  <1>1. /\ e.ok /\ ctx' = e.ctx /\ cur' = body /\ frames' = Append(frames, f)
    BY DEF Open, Body, ResultIs, CFP!WhileCond, CFP!WhileBody, CFP!WhileExit
  <1>2. /\ Writes(blocks, bs, cur, code) /\ Ends(blocks, bs, cur, Jump(cond))
        /\ Added(bs, mid, labels)
        /\ Fills(mid, blocks', cond, new) /\ Ends(mid, blocks', cond, t)
    BY DEF LoopBlocks
  <1>3. labels \cap DOMAIN blocks = {} /\ cond # body /\ cond # exit /\ body # exit
    BY LabelsAreNew
  <1>4. Range(t.uses) = {Result(e)} /\ Range(t.to) = {body, exit}
    BY DEF Branch, Term, Range
  <1>5. Range(Jump(cond).uses) = {} /\ Range(Jump(cond).to) = {cond}
    <2>1. Range(<<>>) = {}
      BY DEF Range
    <2>. QED
      BY <2>1, TermFacts
  <1>6. f.k = "while" /\ f.base = h.ctx.env /\ f.cond = cond /\ f.exit = exit /\ f.step = step
    OBVIOUS
  <1>. HIDE DEF cond, body, exit
  <1>7. /\ V2[cond] = A1 /\ V2[body] = B /\ V2[exit] = B
        /\ \A m \in DOMAIN blocks : V2[m] = V[m]
    BY <1>3
  <1>8. A1 \subseteq B
    OBVIOUS
  <1>. HIDE DEF V2, t, f, B, A1, A
  <1>9. /\ frames \in Seq(Range(frames)) /\ CodeInv(blocks, ctx) /\ cur \in DOMAIN blocks
    BY LaidOutFacts, InvFacts
  <1>10. /\ CodeInv(mid, c) /\ IsContext(c, KnownIn(mid)) /\ IsContext(c, A1)
         /\ DOMAIN bs = DOMAIN blocks
    <2>. HIDE DEF labels, e, h, new
    <2>1. CodeInv(bs, c) /\ DOMAIN bs = DOMAIN blocks
      BY <1>2, <1>9, CodeWritten DEF Writes
    <2>2. CodeInv(mid, c)
      BY <1>2, <1>3, <2>1, CodeAdded
    <2>3. IsContext(c, A \cup Results(code))
      BY DEF EmitsCode, A
    <2>. QED
      BY <2>1, <2>2, <2>3 DEF CodeInv, A1
  <1>11. /\ EmitsCode(c, A1, new, e.ctx) /\ EmitsCode(c, KnownIn(mid), new, e.ctx)
         /\ Result(e) \in B /\ SameScope(c, e.ctx) /\ e.ctx.env = h.ctx.env
    BY <1>1, <1>10, LoopCode DEF B
  <1>. HIDE DEF e, h, new
  <1>12. LaidOut(V2, blocks, frames, ctx, cur) /\ Avail(blocks, V2, cur) = A
    <2>1. Layout(V2, blocks, frames, ctx, cur) /\ \A x \in DOMAIN blocks : Avail(blocks, V2, x) = Avail(blocks, V, x)
      BY <1>7, LabelFacts, AgreeLayout DEF LaidOut, LoweringInv
    <2>. QED
      BY <1>9, <2>1 DEF LaidOut, A
  <1>13. LaidOut(V2, bs, frames, c, cur) /\ Avail(bs, V2, cur) = A1
    <2>1. \A m \in Range(Jump(cond).to) : V2[m] \subseteq Avail(blocks, V2, cur) \cup Results(code)
      BY <1>5, <1>7, <1>12 DEF A1
    <2>2. Range(Jump(cond).uses) \subseteq Avail(blocks, V2, cur) \cup Results(code)
      BY <1>5
    <2>3. EmitsCode(ctx, Avail(blocks, V2, cur), code, c)
      BY <1>12 DEF A
    <2>. QED
      BY <1>2, <1>12, <2>1, <2>2, <2>3, BlockLayout DEF A1
  <1>14. Layout(V2, mid, frames, c, cur) /\ Avail(mid, V2, cur) = A1
    <2>1. Range(Args) \subseteq A1
      BY <1>13, ArgsAvailable DEF LaidOut
    <2>2. \A x \in labels : Range(Args) \subseteq V2[x]
      BY <1>7, <1>8, <2>1
    <2>. HIDE DEF labels
    <2>. QED
      BY <1>2, <1>3, <1>10, <1>13, <2>2, AddLayout DEF LaidOut
  <1>15. /\ DOMAIN mid = DOMAIN blocks \cup labels /\ mid[cond].nodes = <<>>
    BY <1>2, <1>10 DEF Added, NewBlock
  <1>16. Avail(mid, V2, cond) = A1
    <2>1. Results(<<>>) = {}
      BY DEF Results, Range
    <2>. QED
      BY <1>7, <1>15, <2>1 DEF Avail
  <1>17. Layout(V2, mid, frames, c, cond)
    <2>1. A1 \subseteq KnownIn(mid) /\ Carries(frames, V2, A1)
      BY <1>14, AvailIsKnown DEF Layout
    <2>2. SameScope(c, c)
      BY DEF SameScope
    <2>. QED
      BY <1>7, <1>14, <1>15, <1>16, <2>1, <2>2, MoveLayout
  <1>18. JoinsNot(frames, cond)
    BY <1>3, LabelFacts DEF LoweringInv
  <1> DEFINE mid2 == [m \in DOMAIN mid |->
                        [nodes |-> IF m = cond THEN mid[m].nodes \o new ELSE mid[m].nodes,
                         term |-> mid[m].term]]
  <1>19. Writes(mid, mid2, cond, new) /\ KeepsTerms(mid, mid2)
    BY DEF Writes, KeepsTerms
  <1>20. KeepsNodes(mid2, blocks') /\ Ends(mid2, blocks', cond, t)
    <2>1. new \in Seq(Range(new))
      BY <1>11 DEF EmitsCode, IsCode
    <2>2. <<>> \o new = new
      BY <2>1
    <2>3. /\ DOMAIN mid2 = DOMAIN mid
          /\ \A m \in DOMAIN mid : /\ mid2[m].term = mid[m].term
                                  /\ mid2[m].nodes = IF m = cond THEN new ELSE mid[m].nodes
      BY <1>15, <2>2
    <2>. HIDE DEF mid2, new, labels
    <2>. QED
      BY <1>2, <2>3 DEF Fills, Ends, KeepsNodes
  <1>. HIDE DEF mid2
  <1>21. Layout(V2, mid2, frames, e.ctx, cond) /\ Avail(mid2, V2, cond) = B
    <2>1. KnownIn(mid) \cap Results(new) = {}
      BY <1>10, <1>11, FreshResults
    <2>2. IsCode(new, KnownIn(mid) \cup Results(new)) /\ ReadsEarlier(new, A1)
      BY <1>11 DEF EmitsCode
    <2>. QED
      BY <1>9, <1>10, <1>11, <1>16, <1>17, <1>18, <1>19, <2>1, <2>2, AppendLayout DEF B
  <1>22. Layout(V2, blocks', frames, e.ctx, cond) /\ Avail(blocks', V2, cond) = B
    BY <1>4, <1>7, <1>11, <1>18, <1>20, <1>21, EndLayout
  <1>23. B \subseteq KnownIn(blocks') /\ Carries(frames, V2, B)
    BY <1>22, AvailIsKnown DEF Layout
  <1>24. B \subseteq Avail(blocks', V2, body) /\ body \in DOMAIN blocks'
    BY <1>2, <1>7, <1>15 DEF Avail, Fills
  <1>25. Layout(V2, blocks', frames, e.ctx, body)
    <2>1. Carries(frames, V2, Avail(blocks', V2, body))
      BY <1>23, <1>24, CarriesMore
    <2>2. SameScope(e.ctx, e.ctx)
      BY DEF SameScope
    <2>. QED
      BY <1>7, <1>22, <1>23, <1>24, <2>1, <2>2, MoveLayout
  <1>26. Sees(e.ctx.env, e.ctx.arrays, B)
    <2>1. IsContext(e.ctx, B)
      BY <1>11 DEF EmitsCode, B
    <2>. QED
      BY <2>1, SeenContext
  <1>27. NextOf(f) = exit /\ EnvOf(f) = f.base /\ ~IsIf(f)
    BY <1>6 DEF NextOf, EnvOf, IsIf
  <1>28. FrameSees(f, blocks', V2, e.ctx)
    BY <1>6, <1>7, <1>11, <1>23, <1>26, <1>27 DEF FrameSees
  <1>29. Layout(V2, blocks', frames', ctx', cur')
    <2>1. V2[f.cond] \subseteq Avail(blocks', V2, body)
      BY <1>6, <1>7, <1>8, <1>24
    <2>. QED
      BY <1>1, <1>7, <1>9, <1>23, <1>25, <1>27, <1>28, <2>1, PushLayout
  <1>30. LaidOut(V2, blocks', frames', ctx', cur')
    BY <1>1, <1>24, <1>26, <1>29, SeesMore DEF LaidOut
  <1>31. KeepsScope(blocks, V, V2, cur)
    BY <1>7 DEF KeepsScope
  <1>. QED
    BY <1>1, <1>11, <1>30, <1>31

LEMMA OpenWhileDominance ==
  ASSUME LoweringInv, DominanceInv, More, NEW s \in Stmts, s.s = "while", OpenWhile(s), Hoisted',
         NEW V, LaidOut(V, blocks, frames, ctx, cur)
  PROVE  DominanceStep(V)
  <1>1. Lower(s) /\ Open(ctx, <<>>, s.expr, <<>>)
    BY DEF OpenWhile
  <1>2. /\ Bound /\ status = "lowering" /\ src \in Seq(Stmts) /\ src' = Append(src, s)
    BY <1>1, InsideFacts
  <1>3. LaidOut(V, blocks, frames, ctx, cur)
    OBVIOUS
  <1>4. PICK bs, mid : LoopBlocks(ctx, <<>>, s.expr, bs, mid)
    BY OpenWhileStep, InvFacts
  <1>5. Balanced(s.expr)
    BY StmtFacts, LoweringAssumption
  <1>6. /\ EmitsCode(ctx, Avail(blocks, V, cur), <<>>, ctx)
        /\ EmitsCode(ctx, KnownIn(blocks), <<>>, ctx)
    BY <1>2, <1>3, LaidOutFacts, NoNode
  <1>7. SameScope(ctx, ctx)
    BY DEF SameScope
  <1>8. /\ SameScope(ctx, ctx')
        /\ \E W : LaidOut(W, blocks', frames', ctx', cur') /\ KeepsScope(blocks, V, W, cur)
    BY <1>1, <1>2, <1>3, <1>4, <1>5, <1>6, <1>7, OpenDominance
  <1>9. Bound'
    <2>1. ScopeNames(ctx) \subseteq ScopeNames(ctx') /\ ~Binds(s)
      BY <1>8 DEF SameScope, ScopeNames, Binds
    <2>. QED
      BY <1>2, <2>1, BoundStays
  <1>. QED
    BY <1>8, <1>9 DEF DominanceStep

LEMMA OpenForDominance ==
  ASSUME LoweringInv, DominanceInv, More, NEW s \in Stmts, s.s = "for", OpenFor(s), Hoisted',
         NEW V, LaidOut(V, blocks, frames, ctx, cur)
  PROVE  DominanceStep(V)
  <1> DEFINE a == LowerAssign(ctx, s.id, s.start)
             step == <<ForStep(s)>>
  <1>1. Lower(s)
    BY DEF OpenFor
  <1>2. /\ Bound /\ status = "lowering" /\ src \in Seq(Stmts) /\ src' = Append(src, s)
        /\ frames # <<>> => (Binds(s) => s.id \in ScopeNames(ctx))
    BY <1>1, InsideFacts
  <1>3. LaidOut(V, blocks, frames, ctx, cur)
    OBVIOUS
  <1>4. /\ a.ok /\ Open(a.ctx, a.code, RangeTest(s), step)
        /\ \E bs, mid : LoopBlocks(a.ctx, a.code, RangeTest(s), bs, mid)
    BY OpenForStep, InvFacts
  <1>5. PICK bs, mid : LoopBlocks(a.ctx, a.code, RangeTest(s), bs, mid)
    BY <1>4
  <1>6. Balanced(RangeTest(s)) /\ s.id \in VarNames /\ Balanced(s.start) /\ Binds(s)
    BY ForFacts, StmtFacts, LoweringAssumption DEF Binds
  <1>7. step[1].s = "assign"
    BY DEF ForStep
  <1> DEFINE A == Avail(blocks, V, cur)
  <1>8. IsContext(ctx, A) /\ IsContext(ctx, KnownIn(blocks))
        /\ DOMAIN ctx = {"env", "arrays", "tmp", "ver"}
    BY <1>2, <1>3, LaidOutFacts DEF IsContext
  <1>. HIDE DEF A
  <1>9. EmitsCode(ctx, A, a.code, a.ctx) /\ EmitsCode(ctx, KnownIn(blocks), a.code, a.ctx)
    BY <1>4, <1>6, <1>8, AssignFacts DEF Yields
  <1>10. /\ s.id \notin DOMAIN ctx.arrays /\ a.ctx.arrays = ctx.arrays
         /\ DOMAIN a.ctx.env = DOMAIN ctx.env \cup {s.id}
    BY <1>4, <1>6, <1>8, AssignScope
  <1>11. frames # <<>> => SameScope(ctx, a.ctx)
    BY <1>2, <1>6, <1>10 DEF ScopeNames, SameScope
  <1>. HIDE DEF a, step
  <1>12. /\ SameScope(a.ctx, ctx')
        /\ \E W : LaidOut(W, blocks', frames', ctx', cur') /\ KeepsScope(blocks, V, W, cur)
    BY <1>2, <1>3, <1>4, <1>5, <1>6, <1>7, <1>9, <1>11, OpenDominance DEF A
  <1>13. Bound'
    <2>1. ScopeNames(ctx) \subseteq ScopeNames(ctx') /\ s.id \in ScopeNames(ctx')
      BY <1>10, <1>12 DEF SameScope, ScopeNames
    <2>. QED
      BY <1>2, <2>1, BoundStays
  <1>. QED
    BY <1>12, <1>13 DEF DominanceStep

-----------------------------------------------------------------------------
(* Every step keeps the invariant.                                            *)

LEMMA FinishDominance ==
  ASSUME LoweringInv, DominanceInv, Finish
  PROVE  DominanceInv'
  <1>1. /\ \/ blocks' = blocks
           \/ KeepsNodes(blocks, blocks') /\ Ends(blocks, blocks', cur, Return(<<>>))
        /\ UNCHANGED <<order, cur, frames, ctx>>
    BY InvFacts, FinishStep
  <1>2. status' # "lowering" /\ status = "lowering" /\ src' = src
    BY DEF Finish
  <1>3. ASSUME Hoisted' PROVE \E V : Scoped(blocks', V)
    <2>1. Hoisted
      BY <1>2, <1>3 DEF Hoisted, Depth, Before
    <2>2. PICK V : LaidOut(V, blocks, frames, ctx, cur)
      BY <1>2, <2>1 DEF DominanceInv
    <2>3. CASE blocks' = blocks
      BY <2>2, <2>3 DEF LaidOut, Layout
    <2>4. CASE KeepsNodes(blocks, blocks') /\ Ends(blocks, blocks', cur, Return(<<>>))
      <3>1. Range(Return(<<>>).to) = {} /\ Range(Return(<<>>).uses) = {}
        BY DEF Return, Term, Range
      <3>2. JoinsNot(frames, cur)
        BY <1>2, <2>2, LaidOutFacts
      <3>3. Layout(V, blocks', frames, ctx, cur)
        BY <2>2, <2>4, <3>1, <3>2, EndLayout DEF LaidOut
      <3>. QED
        BY <3>3 DEF Layout
    <2>. QED
      BY <1>1, <2>3, <2>4
  <1>. QED
    BY <1>2, <1>3 DEF DominanceInv, Done

\* How deep a statement leaves the next one.
LEMMA DepthStep ==
  ASSUME LoweringInv, DominanceInv, NEW s \in Stmts, Lower(s), status' = "lowering",
         \/ s.s \notin Opening \cup {"end"} /\ Len(frames') = Len(frames)
         \/ s.s \in Opening /\ Len(frames') = Len(frames) + 1
         \/ s.s = "end" /\ Len(frames') = Len(frames) - 1,
         Hoisted' => \E V : DominanceStep(V)
  PROVE  DominanceInv'
  <1>1. src \in Seq(Stmts) /\ src' = Append(src, s) /\ status = "lowering"
    BY InvFacts DEF Lower, Shape
  <1>2. Depth(src, Len(src) + 1) = Len(frames)
    BY <1>1 DEF DominanceInv
  <1>3. Depth(src', Len(src') + 1) = Len(frames')
    BY <1>1, <1>2, DepthFacts
  <1>4. ~Done'
    BY DEF Done
  <1>. QED
    BY <1>3, <1>4 DEF DominanceInv, DominanceStep

LEMMA DominanceInvNext == LoweringInv /\ DominanceInv /\ [Next]_vars => DominanceInv'
  <1>. SUFFICES ASSUME LoweringInv, DominanceInv, [Next]_vars PROVE DominanceInv'
    OBVIOUS
  <1>1. CASE UNCHANGED vars
    <2>1. UNCHANGED <<status, src, blocks, cur, frames, ctx>>
      BY <1>1 DEF vars
    <2>2. Depth(src', Len(src') + 1) = Depth(src, Len(src) + 1)
      BY <2>1 DEF Depth, Before
    <2>3. Hoisted' = Hoisted
      BY <2>1 DEF Hoisted, Depth, Before
    <2>4. Bound' = Bound
      BY <2>1 DEF Bound, BoundEarly, Depth, Before, ScopeNames
    <2>. QED
      BY <2>1, <2>2, <2>3, <2>4 DEF DominanceInv, Done
  <1>2. CASE Finish
    BY <1>2, FinishDominance
  <1>3. ASSUME NEW s \in Stmts, Lowers(s) PROVE DominanceInv'
    <2>0. /\ frames \in Seq(Range(frames)) /\ Len(frames) \in Nat
          /\ \A f : Len(Append(frames, f)) = Len(frames) + 1
          /\ status = "lowering" /\ frames # <<>> =>
               /\ Len(Front(frames)) = Len(frames) - 1
               /\ \A f : Len(Append(Front(frames), f)) = Len(frames)
      <3>1. frames \in Seq(Range(frames))
        BY InvFacts
      <3>2. ASSUME status = "lowering", frames # <<>>
            PROVE  /\ Len(Front(frames)) = Len(frames) - 1
                   /\ Front(frames) \in Seq(Range(Front(frames)))
        BY <3>2, TopWaits
      <3>. QED
        BY <3>1, <3>2
    <2>1. CASE s.s \in SimpleStmts /\ Simple(s)
      <3>1. Lower(s) /\ UNCHANGED <<frames, status>> /\ status = "lowering"
        BY <2>1 DEF Simple, Lower
      <3>2. s.s \notin Opening \cup {"end"}
        BY <2>1 DEF SimpleStmts, Opening
      <3>3. Hoisted' => \E V : DominanceStep(V)
        BY <2>1, <3>1, InsideFacts, SimpleDominance
      <3>. QED
        BY <2>1, <3>1, <3>2, <3>3, DepthStep
    <2>2. CASE s.s = "return" /\ ReturnStmt(s)
      <3>1. Lower(s) /\ UNCHANGED <<frames, status>> /\ status = "lowering"
        BY <2>2 DEF ReturnStmt, Lower
      <3>2. s.s \notin Opening \cup {"end"}
        BY <2>2 DEF Opening
      <3>3. Hoisted' => \E V : DominanceStep(V)
        BY <2>2, <3>1, InsideFacts, ReturnDominance
      <3>. QED
        BY <2>2, <3>1, <3>2, <3>3, DepthStep
    <2>3. CASE s.s = "if" /\ More /\ OpenIf(s)
      <3>1. Lower(s) /\ status' = status /\ status = "lowering" /\ Len(frames') = Len(frames) + 1
        BY <2>0, <2>3 DEF OpenIf, Lower
      <3>2. s.s \in Opening
        BY <2>3 DEF Opening
      <3>3. Hoisted' => \E V : DominanceStep(V)
        BY <2>3, <3>1, InsideFacts, OpenIfDominance
      <3>. QED
        BY <2>3, <3>1, <3>2, <3>3, DepthStep
    <2>4. CASE s.s = "while" /\ More /\ OpenWhile(s)
      <3>1. Lower(s) /\ status' = status /\ status = "lowering" /\ Len(frames') = Len(frames) + 1
        BY <2>0, <2>4 DEF OpenWhile, Open, Lower
      <3>2. s.s \in Opening
        BY <2>4 DEF Opening
      <3>3. Hoisted' => \E V : DominanceStep(V)
        BY <2>4, <3>1, InsideFacts, OpenWhileDominance
      <3>. QED
        BY <2>4, <3>1, <3>2, <3>3, DepthStep
    <2>5. CASE s.s = "for" /\ More /\ OpenFor(s)
      <3>1. Lower(s) /\ status' = status /\ status = "lowering" /\ Len(frames') = Len(frames) + 1
        BY <2>0, <2>5 DEF OpenFor, Open, Lower
      <3>2. s.s \in Opening
        BY <2>5 DEF Opening
      <3>3. Hoisted' => \E V : DominanceStep(V)
        BY <2>5, <3>1, InsideFacts, OpenForDominance
      <3>. QED
        BY <2>5, <3>1, <3>2, <3>3, DepthStep
    <2>6. CASE s.s = "else" /\ BeginElse(s)
      <3>1. Lower(s) /\ status' = status /\ status = "lowering" /\ Len(frames') = Len(frames)
        BY <2>0, <2>6 DEF BeginElse, InFrame, Lower
      <3>2. s.s \notin Opening \cup {"end"}
        BY <2>6 DEF Opening
      <3>3. Hoisted' => \E V : DominanceStep(V)
        BY <2>6, <3>1, InsideFacts, BeginElseDominance
      <3>. QED
        BY <2>6, <3>1, <3>2, <3>3, DepthStep
    <2>7. CASE s.s = "end" /\ CloseIf(s)
      <3>1. Lower(s) /\ status' = status /\ status = "lowering" /\ Len(frames') = Len(frames) - 1
        BY <2>0, <2>7 DEF CloseIf, InFrame, Lower
      <3>2. Hoisted' => \E V : DominanceStep(V)
        BY <2>7, <3>1, InsideFacts, CloseIfDominance
      <3>. QED
        BY <2>7, <3>1, <3>2, DepthStep
    <2>8. CASE s.s = "end" /\ CloseLoop(s)
      <3>1. Lower(s) /\ status' = status /\ status = "lowering" /\ Len(frames') = Len(frames) - 1
        BY <2>0, <2>8 DEF CloseLoop, InFrame, Lower
      <3>2. Hoisted' => \E V : DominanceStep(V)
        BY <2>8, <3>1, InsideFacts, CloseLoopDominance
      <3>. QED
        BY <2>8, <3>1, <3>2, DepthStep
    <2>9. CASE Raise(s)
      <3>1. status' = "rejected"
        BY <2>9 DEF Raise
      <3>. QED
        BY <3>1 DEF DominanceInv, Done
    <2>. QED
      BY <1>3, <2>1, <2>2, <2>3, <2>4, <2>5, <2>6, <2>7, <2>8, <2>9 DEF Lowers
  <1>. QED
    BY <1>1, <1>2, <1>3 DEF Next

LEMMA DominanceInvInit == Init => DominanceInv
  <1>. SUFFICES ASSUME Init PROVE DominanceInv
    OBVIOUS
  <1> DEFINE V == [l \in {Entry} |-> Range(Args)]
             A == Avail(blocks, V, Entry)
  <1>1. /\ status = "lowering" /\ src = <<>> /\ frames = <<>> /\ cur = Entry
        /\ blocks = [l \in {Entry} |-> NewBlock]
    BY DEF Init
  <1>2. DOMAIN blocks = {Entry} /\ blocks[Entry].nodes = <<>> /\ blocks[Entry].term = NoTerm
    BY <1>1 DEF NewBlock
  <1>3. Depth(src, Len(src) + 1) = Len(frames)
    <2>1. Len(src) = 0 /\ Len(frames) = 0 /\ 1 .. (Len(src) + 1) - 1 = {}
      BY <1>1
    <2>2. \A kinds : Before(src, Len(src) + 1, kinds) = 0
      <3> TAKE kinds
      <3>1. {j \in 1 .. (Len(src) + 1) - 1 : src[j].s \in kinds} = {}
        BY <2>1
      <3>. QED
        BY <3>1, FS_EmptySet DEF Before
    <2>. QED
      BY <2>1, <2>2 DEF Depth
  <1>4. Bound
    <2> SUFFICES ASSUME NEW id, BoundEarly(id) PROVE id \in ScopeNames(ctx)
      BY DEF Bound
    <2>1. DOMAIN src = {}
      BY <1>1
    <2>2. id \in {p.id : p \in Range(Params)}
      BY <2>1 DEF BoundEarly
    <2>3. id \in {Params[i].id : i \in DOMAIN Params}
      BY <2>2 DEF Range
    <2>4. DOMAIN ctx.env = {Params[i].id : i \in DOMAIN Params}
      BY DEF Init
    <2>. QED
      BY <2>3, <2>4 DEF ScopeNames
  <1>5. LaidOut(V, blocks, frames, ctx, cur)
    <2>1. Range(Args) = V[Entry]
      OBVIOUS
    <2>. HIDE DEF V
    <2>2. ScopedAt(blocks, V, Entry)
      BY <1>2, <2>1, EmptyScoped
    <2>3. V[Entry] \subseteq KnownIn(blocks) /\ V[Entry] \subseteq A
      BY <2>1 DEF KnownIn, Avail
    <2>4. Layout(V, blocks, <<>>, ctx, Entry)
      <3>1. Scoped(blocks, V)
        BY <1>2, <2>1, <2>2 DEF Scoped
      <3>2. Len(<<>>) = 0 /\ 1 .. Len(<<>>) = {}
        OBVIOUS
      <3>3. Carries(<<>>, V, A) /\ Nested(<<>>, V)
        BY <3>2 DEF Carries, Nested
      <3>. QED
        BY <1>2, <2>3, <3>1, <3>2, <3>3 DEF Layout
    <2>5. Sees(ctx.env, ctx.arrays, A)
      <3>1. Sees(ctx.env, ctx.arrays, Range(Args))
        BY ContextInit, SeenContext
      <3>. QED
        BY <2>1, <2>3, <3>1, SeesMore
    <2>. QED
      BY <1>1, <2>4, <2>5 DEF LaidOut
  <1>. HIDE DEF V
  <1>6. ~Done
    BY <1>1 DEF Done
  <1>. QED
    BY <1>3, <1>4, <1>5, <1>6 DEF DominanceInv

\* Of a program that binds its names before its ifs and loops, every block has
\* a set of values that all paths to it define, and that shows it the names in
\* scope: those environments that _lower_if and _lower_while restore and merge.
THEOREM LoweringKeepsScopes == Spec => []DominanceInv
  BY LoweringInvInit, LoweringInvNext, DominanceInvInit, DominanceInvNext, PTL DEF Spec

-----------------------------------------------------------------------------
(* The control flow graph: a set that holds the entry and is closed under     *)
(* the edges holds all that control can reach.                                *)

GrowN(p) == Cardinality(DOMAIN p[1])
GrowBase(p) == {Entry} \ p[2]
GrowOp(p, prev, i) == prev \cup ((UNION {p[1][l] : l \in prev}) \ p[2])
Grow == INSTANCE Recursion WITH N <- GrowN, Base <- GrowBase, Op <- GrowOp

LEMMA ReachWithin ==
  ASSUME NEW succ, Cardinality(DOMAIN succ) \in Nat, NEW avoid, NEW S,
         {Entry} \ avoid \subseteq S, \A l \in S : succ[l] \ avoid \subseteq S
  PROVE  ReachIn(succ, avoid) \subseteq S
  <1> DEFINE p == <<succ, avoid>>
             g == Grow!Fold(p)
             n == Cardinality(DOMAIN succ)
  <1>1. ReachIn(succ, avoid) = g[n]
    BY DEF ReachIn, Grow!Fold, GrowN, GrowBase, GrowOp
  <1>2. /\ g[0] = {Entry} \ avoid
        /\ \A i \in 1 .. n : g[i] = g[i - 1] \cup ((UNION {succ[l] : l \in g[i - 1]}) \ avoid)
    <2>. HIDE DEF g
    <2>1. GrowN(p) \in Nat /\ GrowN(p) = n
      BY DEF GrowN
    <2>. QED
      BY <2>1, Grow!FoldDef DEF GrowBase, GrowOp, g
  <1>. HIDE DEF g, n
  <1> DEFINE I == {i \in 0 .. n : g[i] \subseteq S}
  <1>3. n \in Nat
    BY DEF n
  <1>4. 0 \in I
    BY <1>2, <1>3
  <1>5. \A i \in 0 .. n - 1 : i \in I => i + 1 \in I
    <2> SUFFICES ASSUME NEW i \in 0 .. n - 1, i \in I PROVE i + 1 \in I
      OBVIOUS
    <2>1. i + 1 \in 1 .. n /\ (i + 1) - 1 = i
      BY <1>3
    <2>2. g[i + 1] = g[i] \cup ((UNION {succ[l] : l \in g[i]}) \ avoid)
      BY <1>2, <2>1
    <2>3. g[i] \subseteq S
      OBVIOUS
    <2>4. \A l \in g[i] : succ[l] \ avoid \subseteq S
      BY <2>3
    <2>. HIDE DEF I
    <2>5. g[i + 1] \subseteq S
      BY <2>2, <2>3, <2>4
    <2>. QED
      BY <1>3, <2>1, <2>5 DEF I
  <1>. HIDE DEF I
  <1>6. n \in I
    BY <1>3, <1>4, <1>5, Grow!Induction
  <1>. QED
    BY <1>1, <1>6 DEF I

\* A value that no argument is, and that l expects without defining it, is
\* defined by a block on every path to l.
LEMMA ScopeDominates ==
  ASSUME NEW bs, Closed(bs), Cardinality(DOMAIN bs) \in Nat, NEW V, Scoped(bs, V),
         NEW d \in DOMAIN bs, NEW v, v \notin Range(Args),
         \A m \in DOMAIN bs : v \in Results(bs[m].nodes) => m = d,
         NEW l \in DOMAIN bs, v \in V[l]
  PROVE  Dominates(bs, d, l)
  <1> DEFINE succ == [m \in DOMAIN bs |-> Succ(bs, m)]
             S == {m \in DOMAIN bs : m # d /\ v \notin V[m]}
  <1>1. DOMAIN succ = DOMAIN bs /\ \A m \in DOMAIN bs : succ[m] = Range(bs[m].term.to)
    BY DEF Succ
  <1>2. {Entry} \ {d} \subseteq S
    BY DEF Scoped
  <1>3. ASSUME NEW m \in S PROVE succ[m] \ {d} \subseteq S
    <2>1. m \in DOMAIN bs /\ v \notin Avail(bs, V, m)
      BY DEF Avail
    <2>2. \A x \in Range(bs[m].term.to) : x \in DOMAIN bs /\ V[x] \subseteq Avail(bs, V, m)
      BY <2>1 DEF Closed, Scoped, ScopedAt
    <2>. QED
      BY <1>1, <2>1, <2>2
  <1>. HIDE DEF succ, S
  <1>4. ReachIn(succ, {d}) \subseteq S
    BY <1>1, <1>2, <1>3, ReachWithin
  <1>5. l \notin S
    BY DEF S
  <1>6. Reach(bs, {d}) = ReachIn(succ, {d})
    BY DEF Reach, succ
  <1>. QED
    BY <1>4, <1>5, <1>6 DEF Dominates

\* What a block may read is defined on every path to where it is read.
LEMMA ScopedIsAvailable ==
  ASSUME LoweringInv, NEW V, Scoped(blocks, V), NEW l \in DOMAIN blocks, NEW i \in Nat, NEW v,
         v \in KnownIn(blocks),
         v \in V[l] \/ \E j \in 1 .. i - 1 : v \in blocks[l].nodes[j].res
  PROVE  Available(blocks, Args, v, l, i)
  <1>1. CASE v \in Range(Args) \/ \E j \in 1 .. i - 1 : v \in blocks[l].nodes[j].res
    BY <1>1 DEF Available
  <1>2. CASE v \notin Range(Args) /\ v \in V[l]
    <2>1. CodeInv(blocks, ctx) /\ OrderInv
      BY InvFacts DEF IRInv
    <2>2. PICK d \in DOMAIN blocks : v \in Results(blocks[d].nodes)
      BY <1>2 DEF KnownIn
    <2>3. d # l
      BY <1>2, <2>2 DEF Scoped, ScopedAt
    <2>4. ASSUME NEW m \in DOMAIN blocks, v \in Results(blocks[m].nodes) PROVE m = d
      <3>1. v.name \in CodeNames(blocks[m].nodes) /\ v.name \in CodeNames(blocks[d].nodes)
        BY <2>1, <2>2, <2>4, DefinedIn
      <3>. QED
        BY <2>1, <3>1 DEF CodeInv
    <2>5. Cardinality(DOMAIN blocks) \in Nat
      <3>1. order \in Seq(DOMAIN blocks) /\ Range(order) = DOMAIN blocks /\ IsInjective(order)
        BY <2>1 DEF OrderInv, IsOrder
      <3>2. Len(order) \in Nat /\ DOMAIN order = 1 .. Len(order)
        BY <3>1
      <3>3. order \in Surjection(1 .. Len(order), DOMAIN blocks)
        <4>1. order \in [1 .. Len(order) -> DOMAIN blocks]
          BY <3>1, <3>2
        <4>2. \A x \in DOMAIN blocks : \E k \in 1 .. Len(order) : order[k] = x
          BY <3>1, <3>2 DEF Range
        <4>. QED
          BY <4>1, <4>2 DEF Surjection
      <3>4. IsFiniteSet(DOMAIN blocks)
        BY <3>2, <3>3, FS_Interval, FS_Surjection
      <3>. QED
        BY <3>4, FS_CardinalityType
    <2>6. Closed(blocks)
      BY InvFacts DEF Closed, CFP!TypeOK, GraphOf, Succ
    <2>7. Dominates(blocks, d, l)
      BY <1>2, <2>2, <2>4, <2>5, <2>6, ScopeDominates
    <2>8. v \in Defs(blocks[d])
      BY <2>2 DEF Defs, Results
    <2>. QED
      BY <2>3, <2>7, <2>8 DEF Available
  <1>. QED
    BY <1>1, <1>2

\* A finished program that binds its names before its ifs and loops reads a
\* value only where every path has defined it, whatever the nesting and
\* wherever it returns: the environments that _lower_if restores for its else
\* branch and merges, and the one that _lower_while leaves its loop with, hold
\* values of blocks that dominate what follows.
THEOREM LoweringDominates == Spec => []HoistedProgramsDominate
  <1>1. LoweringInv /\ DominanceInv => HoistedProgramsDominate
    <2> SUFFICES ASSUME LoweringInv, DominanceInv, Done, Hoisted
                 PROVE  DefsDominateUses(blocks, Args)
      BY DEF HoistedProgramsDominate
    <2>1. PICK V : Scoped(blocks, V)
      BY DEF DominanceInv
    <2>2. CodeInv(blocks, ctx) /\ TermsInv(blocks)
      BY InvFacts DEF IRInv
    <2>3. ASSUME NEW l \in DOMAIN blocks, NEW i \in DOMAIN blocks[l].nodes,
                 NEW v \in Range(blocks[l].nodes[i].args)
          PROVE  Available(blocks, Args, v, l, i)
      <3> DEFINE nodes == blocks[l].nodes
      <3>1. /\ nodes \in Seq(Range(nodes)) /\ i \in 1 .. Len(nodes)
            /\ IsNode(nodes[i], KnownIn(blocks)) /\ ReadsEarlier(nodes, V[l])
        <4>1. nodes \in Seq(Range(nodes)) /\ \A k \in 1 .. Len(nodes) : IsNode(nodes[k], KnownIn(blocks))
          BY <2>2 DEF CodeInv, IsCode
        <4>2. ReadsEarlier(nodes, V[l])
          BY <2>1 DEF Scoped, ScopedAt
        <4>. HIDE DEF nodes
        <4>3. i \in DOMAIN nodes
          BY DEF nodes
        <4>. QED
          BY <4>1, <4>2, <4>3
      <3>2. v \in KnownIn(blocks)
        BY <3>1 DEF IsNode, Range
      <3>3. v \in V[l] \/ \E j \in 1 .. i - 1 : v \in nodes[j].res
        BY <3>1 DEF ReadsEarlier
      <3>4. i \in Nat
        BY <3>1
      <3>. QED
        BY <2>1, <3>2, <3>3, <3>4, ScopedIsAvailable
    <2>4. ASSUME NEW l \in DOMAIN blocks, NEW v \in Range(blocks[l].term.uses)
          PROVE  Available(blocks, Args, v, l, Len(blocks[l].nodes) + 1)
      <3> DEFINE n == Len(blocks[l].nodes)
      <3>1. v \in KnownIn(blocks) /\ v \in Avail(blocks, V, l)
        BY <2>1, <2>2 DEF TermsInv, Scoped, ScopedAt
      <3>2. n \in Nat
        BY <2>2 DEF CodeInv, IsCode
      <3>3. v \in V[l] \/ \E j \in 1 .. n : v \in blocks[l].nodes[j].res
        BY <2>2, <3>1, DefinedIn DEF Avail
      <3>4. n + 1 \in Nat /\ 1 .. (n + 1) - 1 = 1 .. n
        BY <3>2
      <3>. HIDE DEF n
      <3>5. Available(blocks, Args, v, l, n + 1)
        BY <2>1, <3>1, <3>3, <3>4, ScopedIsAvailable
      <3>. QED
        BY <3>5 DEF n
    <2>. QED
      BY <2>3, <2>4 DEF DefsDominateUses
  <1>. QED
    BY <1>1, LoweringIsSound, LoweringKeepsScopes, PTL

-----------------------------------------------------------------------------
(* Phis.  Without nesting and early returns, the first block of a branch or a *)
(* body is also its last, so that a phi's labels are the predecessors.        *)

Regular == Hoisted /\ Flat /\ ReturnsLast

\* The phis of l have a value for each predecessor, which it has at its end.
PhisFed(bs, V, l) ==
  \A n \in Range(bs[l].nodes) : n.op = "phi" =>
    /\ DOMAIN n.inc = Preds(bs, l)
    /\ \A p \in DOMAIN n.inc : n.inc[p] \in Avail(bs, V, p)

\* Those of a condition block lack the value of the body until it is closed.
HalfFed(bs, V, cond, pre, body) ==
  /\ pre # body /\ Preds(bs, cond) = {pre}
  /\ \A n \in Range(bs[cond].nodes) : n.op = "phi" =>
       DOMAIN n.inc = {pre, body} /\ n.inc[pre] \in Avail(bs, V, pre)

\* A pending statement is in the block its phis are labelled with, and has
\* nothing jump to its join block but the branch it has done.
PendingFed(f, bs, V, l) ==
  /\ bs[NextOf(f)].term = NoTerm
  /\ f.k = "then" => f.then = l /\ Preds(bs, f.join) = {}
  /\ f.k = "else" => /\ f.else = l /\ f.then # l /\ Preds(bs, f.join) = {f.then}
                     /\ \A id \in DOMAIN f.left : f.left[id] \in Avail(bs, V, f.then)
  /\ f.k = "while" => f.body = l /\ \E pre : HalfFed(bs, V, f.cond, pre, l)

FedLayout(bs, V, fs, l) ==
  /\ bs[l].term = NoTerm
  /\ Len(fs) <= 1
  /\ \A m \in DOMAIN bs :
       PhisFed(bs, V, m) \/ \E i \in 1 .. Len(fs) : fs[i].k = "while" /\ m = fs[i].cond
  /\ \A i \in 1 .. Len(fs) : PendingFed(fs[i], bs, V, l)

AllFed(bs, V) == \A m \in DOMAIN bs : PhisFed(bs, V, m)

\* The inductive invariant.  Until a return, the current block has not ended.
Returned == \E i \in DOMAIN src : src[i].s = "return"

PhisInv ==
  /\ status = "lowering" /\ Regular =>
       \E V : /\ LaidOut(V, blocks, frames, ctx, cur)
              /\ ~Returned => FedLayout(blocks, V, frames, cur)
              /\ frames = <<>> => AllFed(blocks, V)
  /\ Done /\ Regular => \E V : Scoped(blocks, V) /\ AllFed(blocks, V)

\* From bs to bs2, values stay where the edges leave.
Flows(bs, bs2, V, W, l) ==
  \A p \in DOMAIN bs : p = l \/ Succ(bs, p) # {} => Avail(bs, V, p) \subseteq Avail(bs2, W, p)

PhisAmong(code, code2) == \A n \in Range(code2) : n.op = "phi" => n \in Range(code)

LEMMA FedStays ==
  ASSUME NEW bs, NEW bs2, NEW V, NEW W, NEW l, Flows(bs, bs2, V, W, l), NEW m,
         Preds(bs2, m) = Preds(bs, m), PhisAmong(bs[m].nodes, bs2[m].nodes)
  PROVE  /\ PhisFed(bs, V, m) => PhisFed(bs2, W, m)
         /\ \A pre, body : HalfFed(bs, V, m, pre, body) => HalfFed(bs2, W, m, pre, body)
         /\ \A p \in Preds(bs, m) : Avail(bs, V, p) \subseteq Avail(bs2, W, p)
  <1>1. \A p \in Preds(bs, m) : Avail(bs, V, p) \subseteq Avail(bs2, W, p)
    <2> TAKE p \in Preds(bs, m)
    <2>1. p \in DOMAIN bs /\ Succ(bs, p) # {}
      BY DEF Preds
    <2>. QED
      BY <2>1 DEF Flows
  <1>2. PhisFed(bs, V, m) => PhisFed(bs2, W, m)
    BY <1>1 DEF PhisFed, PhisAmong
  <1>3. ASSUME NEW pre, NEW body, HalfFed(bs, V, m, pre, body)
        PROVE  HalfFed(bs2, W, m, pre, body)
    BY <1>1, <1>3 DEF HalfFed, PhisAmong
  <1>. QED
    BY <1>1, <1>2, <1>3

\* Code without phis at the end of a block.
LEMMA PlainAdded ==
  ASSUME NEW a, NEW b, a \in Seq(Range(a)), b \in Seq(Range(b)), Plain(b)
  PROVE  PhisAmong(a, a \o b) /\ Results(a) \subseteq Results(a \o b)
  <1>1. Range(a \o b) = Range(a) \cup Range(b)
    BY Concatenation
  <1>2. \A n \in Range(b) : n.op # "phi"
    <2>1. Len(b) \in Nat /\ DOMAIN b = 1 .. Len(b)
      OBVIOUS
    <2>. QED
      BY <2>1 DEF Plain, Range
  <1>3. Results(a) \subseteq Results(a \o b)
    BY ResultsOfBoth
  <1>. QED
    BY <1>1, <1>2, <1>3 DEF PhisAmong

LEMMA SamePhis == \A code : PhisAmong(code, code)
  BY DEF PhisAmong

\* The blocks of bs, with plain code at the end of l.
LEMMA WrittenFlows ==
  ASSUME NEW bs, NEW c, CodeInv(bs, c), NEW l, NEW code, code \in Seq(Range(code)), Plain(code),
         NEW bs2, \A m \in DOMAIN bs : bs2[m].nodes = IF m = l THEN bs[m].nodes \o code ELSE bs[m].nodes,
         NEW V, NEW W, KeepsScope(bs, V, W, l)
  PROVE  /\ Flows(bs, bs2, V, W, l)
         /\ \A m \in DOMAIN bs : PhisAmong(bs[m].nodes, bs2[m].nodes)
  <1>1. ASSUME NEW m \in DOMAIN bs
        PROVE  /\ PhisAmong(bs[m].nodes, bs2[m].nodes)
               /\ Results(bs[m].nodes) \subseteq Results(bs2[m].nodes)
    <2>1. bs[m].nodes \in Seq(Range(bs[m].nodes))
      BY DEF CodeInv, IsCode
    <2>2. CASE m = l
      BY <2>1, <2>2, PlainAdded
    <2>3. CASE m # l
      BY <2>3, SamePhis
    <2>. QED
      BY <2>2, <2>3
  <1>. QED
    BY <1>1 DEF Flows, KeepsScope, Avail, Succ

\* A block without successors gets some, and blocks are added.
LEMMA EdgesAdded ==
  ASSUME NEW bs, NEW l, Succ(bs, l) = {}, NEW bs2, DOMAIN bs \subseteq DOMAIN bs2,
         \A p \in DOMAIN bs \ {l} : bs2[p].term = bs[p].term
  PROVE  \A m : Preds(bs2, m) =
                  Preds(bs, m) \cup {p \in DOMAIN bs2 : (p = l \/ p \notin DOMAIN bs) /\ m \in Succ(bs2, p)}
  BY DEF Preds, Succ

LEMMA EdgesKept ==
  ASSUME NEW bs, NEW bs2, DOMAIN bs2 = DOMAIN bs, \A p \in DOMAIN bs : Succ(bs2, p) = Succ(bs, p)
  PROVE  \A m : Preds(bs2, m) = Preds(bs, m)
  BY DEF Preds

\* A regular program goes on with statements that are not nested, and has not
\* returned yet.
LEMMA RegularFacts ==
  ASSUME LoweringInv, DominanceInv, PhisInv, NEW s \in Stmts, Lower(s), Regular'
  PROVE  /\ Hoisted' /\ status = "lowering" /\ src' = Append(src, s) /\ src \in Seq(Stmts)
         /\ s.s \in Opening => frames = <<>>
         /\ \E V : /\ LaidOut(V, blocks, frames, ctx, cur)
                   /\ FedLayout(blocks, V, frames, cur)
  <1>1. Hoisted' /\ Flat' /\ ReturnsLast'
    BY DEF Regular
  <1>2. src \in Seq(Stmts) /\ src' = Append(src, s) /\ status = "lowering" /\ Hoisted
    BY <1>1, InsideFacts
  <1>3. /\ Len(src) \in Nat /\ Len(src') = Len(src) + 1 /\ DOMAIN src = 1 .. Len(src)
        /\ DOMAIN src' = 1 .. Len(src) + 1 /\ src'[Len(src) + 1] = s
        /\ \A i \in 1 .. Len(src) : src'[i] = src[i]
    BY <1>2
  <1>4. \A i \in 1 .. Len(src) + 1 : Depth(src', i) = Depth(src, i)
    BY <1>2, DepthFacts
  <1>5. Flat
    <2>1. \A i \in DOMAIN src' : src'[i].s \in Opening => Depth(src', i) = 0
      BY <1>1 DEF Flat
    <2>. QED
      BY <1>3, <1>4, <2>1 DEF Flat
  <1>6. ~Returned
    <2>1. \A i \in DOMAIN src' : src'[i].s = "return" => i = Len(src')
      BY <1>1 DEF ReturnsLast
    <2>. QED
      BY <1>3, <2>1 DEF Returned
  <1>7. Regular
    BY <1>2, <1>5, <1>6 DEF Regular, ReturnsLast, Returned
  <1>8. s.s \in Opening => frames = <<>>
    <2>1. s.s \in Opening => Depth(src', Len(src) + 1) = 0
      <3>1. \A i \in DOMAIN src' : src'[i].s \in Opening => Depth(src', i) = 0
        BY <1>1 DEF Flat
      <3>. QED
        BY <1>3, <3>1
    <2>2. Depth(src', Len(src) + 1) = Len(frames)
      BY <1>2, <1>3, <1>4 DEF DominanceInv
    <2>3. frames \in Seq(Range(frames))
      BY InvFacts
    <2>. QED
      BY <2>1, <2>2, <2>3
  <1>. QED
    BY <1>1, <1>2, <1>6, <1>7, <1>8 DEF PhisInv

\* Of the statements that are pending there is one at most.
LEMMA TopFrame ==
  ASSUME LoweringInv, status = "lowering", frames # <<>>, NEW V, FedLayout(blocks, V, frames, cur)
  PROVE  LET f == Last(frames)
         IN  /\ Front(frames) = <<>> /\ PendingFed(f, blocks, V, cur)
             /\ \A m \in DOMAIN blocks : PhisFed(blocks, V, m) \/ (f.k = "while" /\ m = f.cond)
  <1>1. /\ Last(frames) = frames[Len(frames)] /\ Len(frames) \in Nat \ {0}
        /\ Len(Front(frames)) = Len(frames) - 1 /\ Front(frames) \in Seq(Range(Front(frames)))
    BY TopWaits
  <1>2. Len(frames) = 1 /\ 1 .. Len(frames) = {1}
    BY <1>1 DEF FedLayout
  <1>3. Front(frames) = <<>>
    BY <1>1, <1>2
  <1>. QED
    BY <1>1, <1>2, <1>3 DEF FedLayout

LEMMA NoFrame ==
  ASSUME NEW bs, NEW V, NEW l, bs[l].term = NoTerm, AllFed(bs, V)
  PROVE  FedLayout(bs, V, <<>>, l)
  <1>1. Len(<<>>) = 0 /\ 1 .. Len(<<>>) = {}
    OBVIOUS
  <1>. QED
    BY <1>1 DEF FedLayout, AllFed

LEMMA OneFrame ==
  ASSUME NEW bs, NEW V, NEW l, bs[l].term = NoTerm, NEW f, PendingFed(f, bs, V, l),
         \A m \in DOMAIN bs : PhisFed(bs, V, m) \/ (f.k = "while" /\ m = f.cond)
  PROVE  FedLayout(bs, V, Append(<<>>, f), l)
  <1>1. Len(Append(<<>>, f)) = 1 /\ 1 .. Len(Append(<<>>, f)) = {1} /\ Append(<<>>, f)[1] = f
    OBVIOUS
  <1>. QED
    BY <1>1 DEF FedLayout

\* Nodes that are not phis are added to the current block, which may end without
\* successors.
LEMMA LayoutStaysFed ==
  ASSUME LoweringInv, status = "lowering", NEW V, FedLayout(blocks, V, frames, cur),
         NEW code, code \in Seq(Range(code)), Plain(code),
         NEW bs2, Writes(blocks, bs2, cur, code),
         \A m \in DOMAIN blocks \ {cur} : bs2[m].term = blocks[m].term,
         Range(bs2[cur].term.to) = {}, NEW W, KeepsScope(blocks, V, W, cur)
  PROVE  /\ AllFed(blocks, V) => AllFed(bs2, W)
         /\ bs2[cur].term = NoTerm => FedLayout(bs2, W, frames, cur)
  <1>1. CodeInv(blocks, ctx) /\ cur \in DOMAIN blocks
    BY InvFacts DEF IRInv
  <1>2. /\ Flows(blocks, bs2, V, W, cur)
        /\ \A m \in DOMAIN blocks : PhisAmong(blocks[m].nodes, bs2[m].nodes)
    BY <1>1, WrittenFlows DEF Writes
  <1>3. DOMAIN bs2 = DOMAIN blocks
    BY DEF Writes
  <1>4. \A m : Preds(bs2, m) = Preds(blocks, m)
    <2>1. \A p \in DOMAIN blocks : Succ(bs2, p) = Succ(blocks, p)
      BY NoEdges DEF FedLayout, Succ
    <2>. QED
      BY <1>3, <2>1, EdgesKept
  <1>5. \A m \in DOMAIN blocks :
           /\ PhisFed(blocks, V, m) => PhisFed(bs2, W, m)
           /\ \A pre, body : HalfFed(blocks, V, m, pre, body) => HalfFed(bs2, W, m, pre, body)
           /\ \A p \in Preds(blocks, m) : Avail(blocks, V, p) \subseteq Avail(bs2, W, p)
    BY <1>2, <1>4, FedStays
  <1>6. ASSUME NEW i \in 1 .. Len(frames) PROVE PendingFed(frames[i], bs2, W, cur)
    <2> DEFINE f == frames[i]
    <2>1. PendingFed(f, blocks, V, cur)
      BY DEF FedLayout
    <2>2. /\ NextOf(f) \in DOMAIN blocks /\ NextOf(f) # cur
          /\ IsIf(f) => f.join \in DOMAIN blocks
          /\ f.k = "while" => f.cond \in DOMAIN blocks
      BY HeldFacts DEF LoweringInv
    <2>. HIDE DEF f
    <2>3. bs2[NextOf(f)].term = NoTerm
      BY <2>1, <2>2 DEF PendingFed
    <2>4. f.k = "then" => f.then = cur /\ Preds(bs2, f.join) = {}
      BY <1>4, <2>1 DEF PendingFed
    <2>5. ASSUME f.k = "else"
          PROVE  /\ f.else = cur /\ f.then # cur /\ Preds(bs2, f.join) = {f.then}
                 /\ \A id \in DOMAIN f.left : f.left[id] \in Avail(bs2, W, f.then)
      <3>1. f.join \in DOMAIN blocks /\ f.then \in Preds(blocks, f.join)
        BY <2>1, <2>2, <2>5 DEF PendingFed, IsIf
      <3>2. Avail(blocks, V, f.then) \subseteq Avail(bs2, W, f.then)
        BY <1>5, <3>1
      <3>. QED
        BY <1>4, <2>1, <2>5, <3>2 DEF PendingFed
    <2>6. ASSUME f.k = "while" PROVE f.body = cur /\ \E pre : HalfFed(bs2, W, f.cond, pre, cur)
      BY <1>5, <2>1, <2>2, <2>6 DEF PendingFed
    <2>7. PendingFed(f, bs2, W, cur)
      BY <2>3, <2>4, <2>5, <2>6 DEF PendingFed
    <2>. QED
      BY <2>7 DEF f
  <1>7. AllFed(blocks, V) => AllFed(bs2, W)
    BY <1>3, <1>5 DEF AllFed
  <1>8. bs2[cur].term = NoTerm => FedLayout(bs2, W, frames, cur)
    BY <1>3, <1>5, <1>6 DEF FedLayout
  <1>. QED
    BY <1>7, <1>8

LEMMA SimpleFed ==
  ASSUME LoweringInv, status = "lowering", NEW s \in Stmts, s.s \in SimpleStmts, Simple(s),
         NEW V, FedLayout(blocks, V, frames, cur), NEW W, KeepsScope(blocks, V, W, cur)
  PROVE  FedLayout(blocks', W, frames', cur')
  <1> DEFINE r == LowerSimple(ctx, s)
  <1>1. r.ok /\ UNCHANGED <<frames, cur>>
    BY DEF Simple
  <1>2. IsSimple(s) /\ IsContext(ctx, KnownIn(blocks)) /\ cur \in DOMAIN blocks
    BY InvFacts, StmtFacts, LoweringAssumption
  <1>3. r.code \in Seq(Range(r.code)) /\ Plain(r.code)
    BY <1>1, <1>2, SimpleFacts DEF Yields, EmitsCode, IsCode
  <1>4. Writes(blocks, blocks', cur, r.code) /\ KeepsTerms(blocks, blocks')
    BY SimpleStep, InvFacts
  <1>. HIDE DEF r
  <1>5. /\ \A m \in DOMAIN blocks : blocks'[m].term = blocks[m].term
        /\ blocks'[cur].term = NoTerm /\ Range(blocks'[cur].term.to) = {}
    BY <1>2, <1>4, NoEdges DEF KeepsTerms, FedLayout
  <1>6. FedLayout(blocks', W, frames, cur)
    BY <1>3, <1>4, <1>5, LayoutStaysFed
  <1>. QED
    BY <1>1, <1>6

\* After a return of its own, a function has no statement pending.
LEMMA ReturnFed ==
  ASSUME LoweringInv, status = "lowering", NEW s \in Stmts, s.s = "return", ReturnStmt(s),
         NEW V, FedLayout(blocks, V, frames, cur), frames = <<>>,
         NEW W, KeepsScope(blocks, V, W, cur)
  PROVE  AllFed(blocks', W)
  <1> DEFINE r == LowerReturn(ctx, s)
  <1>1. r.ok
    BY DEF ReturnStmt
  <1>2. (s.expr = <<>> \/ Balanced(s.expr)) /\ IsContext(ctx, KnownIn(blocks)) /\ cur \in DOMAIN blocks
    BY InvFacts, StmtFacts, LoweringAssumption
  <1>3. r.code \in Seq(Range(r.code)) /\ Plain(r.code)
    BY <1>1, <1>2, ReturnFacts DEF Yields, EmitsCode, IsCode
  <1>4. Writes(blocks, blocks', cur, r.code) /\ Ends(blocks, blocks', cur, Return(r.uses))
    BY ReturnStep, InvFacts
  <1>. HIDE DEF r
  <1>5. /\ \A m \in DOMAIN blocks \ {cur} : blocks'[m].term = blocks[m].term
        /\ Range(blocks'[cur].term.to) = {}
    BY <1>2, <1>4, TermFacts DEF Ends
  <1>6. AllFed(blocks, V)
    <2>1. 1 .. Len(frames) = {}
      OBVIOUS
    <2>. QED
      BY <2>1 DEF FedLayout, AllFed
  <1>. QED
    BY <1>3, <1>4, <1>5, <1>6, LayoutStaysFed

\* A new block has no phis.
LEMMA NewIsFed == ASSUME NEW bs, NEW V, NEW l, bs[l].nodes = <<>> PROVE PhisFed(bs, V, l)
  <1>1. Range(<<>>) = {}
    BY DEF Range
  <1>. QED
    BY <1>1 DEF PhisFed

LEMMA NoFrameFed ==
  ASSUME NEW bs, NEW V, NEW l, FedLayout(bs, V, <<>>, l)
  PROVE  AllFed(bs, V) /\ bs[l].term = NoTerm
  <1>1. 1 .. Len(<<>>) = {}
    OBVIOUS
  <1>. QED
    BY <1>1 DEF FedLayout, AllFed

LEMMA OpenIfFed ==
  ASSUME LoweringInv, status = "lowering", More, NEW s \in Stmts, s.s = "if", OpenIf(s),
         NEW V, FedLayout(blocks, V, frames, cur), frames = <<>>,
         NEW W, KeepsScope(blocks, V, W, cur)
  PROVE  FedLayout(blocks', W, frames', cur')
  <1> DEFINE e == LowerExpr(ctx, s.expr)
             then == CFP!IfThen
             else == CFP!IfElse
             join == CFP!IfJoin
             labels == {then, else, join}
             t == Branch(Result(e), then, else)
             bs == [blocks EXCEPT ![cur].nodes = @ \o e.code, ![cur].term = t]
             f == [k |-> "then", then |-> then, else |-> else, join |-> join,
                   base |-> ctx.env, left |-> ctx.env]
  <1>1. ResultIs(e, "bool") /\ cur' = then /\ frames' = Append(<<>>, f)
    BY DEF OpenIf, CFP!IfThen, CFP!IfElse, CFP!IfJoin
  <1>2. e.ok /\ Balanced(s.expr)
    BY <1>1, StmtFacts, LoweringAssumption DEF ResultIs
  <1>3. Writes(blocks, bs, cur, e.code) /\ Ends(blocks, bs, cur, t) /\ blocks' = NewBlocks(bs, labels)
    BY OpenIfStep, InvFacts
  <1>4. labels \cap DOMAIN blocks = {} /\ then # else /\ then # join /\ else # join
    BY LabelsAreNew
  <1>5. Range(t.to) = {then, else}
    BY DEF Branch, Term, Range
  <1>6. f.k = "then" /\ f.then = then /\ f.join = join /\ f.else = else
    OBVIOUS
  <1>. HIDE DEF then, else, join, t, f, bs
  <1>7. cur \in DOMAIN blocks /\ CodeInv(blocks, ctx) /\ IsContext(ctx, KnownIn(blocks)) /\ Closed(blocks)
    BY InvFacts, LabelFacts DEF IRInv, LoweringInv
  <1>8. e.code \in Seq(Range(e.code)) /\ Plain(e.code)
    BY <1>2, <1>7, ExprFacts DEF Accumulates, EmitsCode, IsCode
  <1>. HIDE DEF e
  <1>9. /\ DOMAIN blocks' = DOMAIN blocks \cup labels
        /\ \A m \in labels : blocks'[m].nodes = <<>> /\ blocks'[m].term = NoTerm
        /\ \A m \in DOMAIN blocks :
             /\ blocks'[m].nodes = IF m = cur THEN blocks[m].nodes \o e.code ELSE blocks[m].nodes
             /\ m # cur => blocks'[m].term = blocks[m].term
        /\ blocks'[cur].term = t
    <2>1. DOMAIN bs = DOMAIN blocks
      BY <1>3 DEF Writes
    <2>2. \A m \in labels : blocks'[m] = NewBlock
      BY <1>3 DEF NewBlocks
    <2>3. \A m \in DOMAIN blocks : blocks'[m] = bs[m]
      BY <1>3, <1>4, <2>1 DEF NewBlocks
    <2>. HIDE DEF labels
    <2>. QED
      BY <1>3, <1>7, <2>1, <2>2, <2>3 DEF Writes, Ends, NewBlock, NewBlocks
  <1>10. /\ Flows(blocks, blocks', V, W, cur)
         /\ \A m \in DOMAIN blocks : PhisAmong(blocks[m].nodes, blocks'[m].nodes)
    BY <1>7, <1>8, <1>9, WrittenFlows
  <1>11. /\ \A m \in DOMAIN blocks : Preds(blocks', m) = Preds(blocks, m)
         /\ Preds(blocks', join) = {}
    <2>1. Succ(blocks, cur) = {}
      BY NoEdges DEF FedLayout, Succ
    <2>2. \A m : Preds(blocks', m) = Preds(blocks, m) \cup
                 {p \in DOMAIN blocks' : (p = cur \/ p \notin DOMAIN blocks) /\ m \in Succ(blocks', p)}
      BY <1>9, <2>1, EdgesAdded
    <2>3. Succ(blocks', cur) = {then, else} /\ \A p \in labels : Succ(blocks', p) = {}
      BY <1>5, <1>9, NoEdges DEF Succ
    <2>4. Preds(blocks, join) = {}
      BY <1>4, <1>7 DEF Closed, Preds, Succ
    <2>5. \A p \in DOMAIN blocks' : (p = cur \/ p \notin DOMAIN blocks) =>
             \A m : m \in Succ(blocks', p) => m \in {then, else}
      BY <1>9, <2>3
    <2>. QED
      BY <1>4, <2>2, <2>4, <2>5
  <1>12. AllFed(blocks', W)
    <2>1. AllFed(blocks, V)
      BY NoFrameFed
    <2>2. \A m \in DOMAIN blocks : PhisFed(blocks', W, m)
      BY <1>10, <1>11, <2>1, FedStays DEF AllFed
    <2>3. \A m \in labels : PhisFed(blocks', W, m)
      BY <1>9, NewIsFed
    <2>. QED
      BY <1>9, <2>2, <2>3 DEF AllFed
  <1>13. blocks'[then].term = NoTerm /\ blocks'[else].term = NoTerm
    BY <1>9
  <1>14. PendingFed(f, blocks', W, then)
    <2>1. NextOf(f) = else
      BY <1>6 DEF NextOf
    <2>. QED
      BY <1>6, <1>11, <1>13, <2>1 DEF PendingFed
  <1>15. FedLayout(blocks', W, Append(<<>>, f), then)
    BY <1>12, <1>13, <1>14, OneFrame DEF AllFed
  <1>. QED
    BY <1>1, <1>15

\* The first branch jumps to the join block, and is its only predecessor.
LEMMA BeginElseFed ==
  ASSUME LoweringInv, status = "lowering", NEW s \in Stmts, s.s = "else", BeginElse(s),
         NEW V, LaidOut(V, blocks, frames, ctx, cur), FedLayout(blocks, V, frames, cur),
         NEW W, KeepsScope(blocks, V, W, cur)
  PROVE  FedLayout(blocks', W, frames', cur')
  <1> DEFINE f == Last(frames)
             g == [f EXCEPT !.k = "else", !.left = ctx.env]
  <1>1. /\ frames # <<>> /\ f.k = "then" /\ cur' = f.else /\ frames' = Append(Front(frames), g)
    BY DEF BeginElse, InFrame
  <1>2. /\ Front(frames) = <<>> /\ PendingFed(f, blocks, V, cur)
        /\ \A m \in DOMAIN blocks : PhisFed(blocks, V, m)
    BY <1>1, TopFrame
  <1>3. FallsTo(blocks, blocks', cur, f.join) /\ cur \in DOMAIN blocks /\ CodeInv(blocks, ctx)
    BY InvFacts, BeginElseStep DEF IRInv
  <1>4. /\ FrameSees(f, blocks, V, ctx)
        /\ NextOf(f) \in DOMAIN blocks /\ NextOf(f) # cur
        /\ IsIf(f) => f.join \in DOMAIN blocks /\ f.join # cur
    BY <1>1, TopLayout
  <1>5. NextOf(f) = f.else /\ IsIf(f)
    BY <1>1 DEF NextOf, IsIf
  <1>6. /\ g.k = "else" /\ g.left = ctx.env /\ g.join = f.join /\ g.then = f.then /\ g.else = f.else
    <2>1. IsFrame(f, DOMAIN blocks)
      BY <1>1, TopWaits
    <2>. QED
      BY <1>1, <2>1 DEF IsFrame
  <1>. HIDE DEF f, g
  <1>7. /\ f.then = cur /\ Preds(blocks, f.join) = {} /\ blocks[f.else].term = NoTerm
        /\ blocks[cur].term = NoTerm
        /\ blocks[f.join].nodes = <<>> /\ blocks[f.join].term = NoTerm
    BY <1>1, <1>2, <1>4, <1>5 DEF PendingFed, FrameSees, FedLayout
  <1>8. /\ DOMAIN blocks' = DOMAIN blocks
        /\ \A x \in DOMAIN blocks : blocks'[x].nodes = blocks[x].nodes /\ (x # cur => blocks'[x].term = blocks[x].term)
    BY <1>3, FallBlocks
  <1>9. blocks'[cur].term = Jump(f.join)
    BY <1>3, <1>7, TermFacts DEF FallsTo, Ends
  <1>10. Flows(blocks, blocks', V, W, cur)
    BY <1>8 DEF Flows, KeepsScope, Avail, Succ
  <1>11. \A m : Preds(blocks', m) = Preds(blocks, m) \cup (IF m = f.join THEN {cur} ELSE {})
    <2>1. Succ(blocks, cur) = {} /\ Succ(blocks', cur) = {f.join}
      BY <1>7, <1>9, NoEdges, TermFacts DEF Succ
    <2>2. \A m : Preds(blocks', m) = Preds(blocks, m) \cup
                 {p \in DOMAIN blocks' : (p = cur \/ p \notin DOMAIN blocks) /\ m \in Succ(blocks', p)}
      BY <1>8, <2>1, EdgesAdded
    <2>. QED
      BY <1>3, <1>8, <2>1, <2>2
  <1>12. AllFed(blocks', W)
    <2>1. \A m \in DOMAIN blocks : m # f.join => PhisFed(blocks', W, m)
      BY <1>2, <1>8, <1>10, <1>11, FedStays, SamePhis
    <2>2. PhisFed(blocks', W, f.join)
      BY <1>4, <1>5, <1>7, <1>8, NewIsFed
    <2>. QED
      BY <1>8, <2>1, <2>2 DEF AllFed
  <1>13. blocks'[f.else].term = NoTerm /\ blocks'[f.join].term = NoTerm
    BY <1>4, <1>5, <1>7, <1>8
  <1>14. PendingFed(g, blocks', W, f.else)
    <2>1. NextOf(g) = f.join
      BY <1>6 DEF NextOf
    <2>2. Preds(blocks', f.join) = {f.then}
      BY <1>7, <1>11
    <2>3. \A id \in DOMAIN ctx.env : ctx.env[id] \in Avail(blocks', W, cur)
      <3>1. \A id \in DOMAIN ctx.env : ctx.env[id] \in Avail(blocks, V, cur)
        BY DEF LaidOut, Sees
      <3>. QED
        BY <1>3, <1>10, <3>1 DEF Flows
    <2>. QED
      BY <1>4, <1>5, <1>6, <1>7, <1>13, <2>1, <2>2, <2>3 DEF PendingFed
  <1>15. FedLayout(blocks', W, Append(<<>>, g), f.else)
    BY <1>12, <1>13, <1>14, OneFrame DEF AllFed
  <1>. QED
    BY <1>1, <1>2, <1>15

\* Each phi of a join has the values of its name where the branches end.
LEMMA MergeLabels ==
  ASSUME NEW c, DOMAIN c.env \subseteq VarNames, NEW f, DOMAIN f.left = DOMAIN c.env,
         DOMAIN f.base = DOMAIN c.env, f.then # f.else
  PROVE  \A n \in Range(Merge(f, c.env, c).code) :
           /\ DOMAIN n.inc = {f.then, f.else}
           /\ \E id \in DOMAIN c.env : n.inc[f.then] = f.left[id] /\ n.inc[f.else] = c.env[id]
  <1> DEFINE m == Merge(f, c.env, c)
             L(id) == SideOf(f.left, f.base, id)
             R(id) == SideOf(c.env, f.base, id)
             value(S) == CHOOSE v \in S : TRUE
             all == {id \in VarNames : L(id) \cup R(id) # {}}
             split == {id \in all : /\ L(id) # {} /\ R(id) # {}
                                    /\ value(L(id)).name # value(R(id)).name}
             phi(id) == NewNamed(c, id, value(L(id)).typ)
             phis == Filter(Names, split)
             new(id) == BranchPhi(f, phi(id), value(L(id)), value(R(id)))
  <1>1. m.code = [i \in DOMAIN phis |-> new(phis[i])]
    BY DEF Merge
  <1>2. split \subseteq DOMAIN c.env
    BY DEF SideOf
  <1>3. \A id \in split : value(L(id)) = f.left[id] /\ value(R(id)) = c.env[id]
    <2> TAKE id \in split
    <2>1. L(id) = {f.left[id]} /\ R(id) = {c.env[id]}
      BY <1>2 DEF SideOf
    <2>2. \A x : value({x}) = x
      OBVIOUS
    <2>. HIDE DEF L, R, value, split
    <2>. QED
      BY <2>1, <2>2
  <1>4. split \subseteq VarNames
    OBVIOUS
  <1>. HIDE DEF m, L, R, value, all, split, phi
  <1>5. Range(phis) = split
    BY <1>4, LiveFacts
  <1>. HIDE DEF phis
  <1>6. ASSUME NEW id \in split
        PROVE  /\ DOMAIN new(id).inc = {f.then, f.else}
               /\ new(id).inc[f.then] = f.left[id] /\ new(id).inc[f.else] = c.env[id]
    BY <1>3 DEF BranchPhi, Phi
  <1>. HIDE DEF new
  <1>7. ASSUME NEW n \in Range(m.code) PROVE \E id \in split : n = new(id)
    <2>1. PICK i \in DOMAIN phis : n = new(phis[i])
      BY <1>1 DEF Range
    <2>2. phis[i] \in split
      BY <1>5 DEF Range
    <2>. QED
      BY <2>1, <2>2
  <1>. QED
    BY <1>2, <1>6, <1>7 DEF m

\* The branches of an if end in the blocks they began in, and both jump to the join.
LEMMA CloseIfFed ==
  ASSUME LoweringInv, status = "lowering", NEW s \in Stmts, s.s = "end", CloseIf(s),
         NEW V, LaidOut(V, blocks, frames, ctx, cur), FedLayout(blocks, V, frames, cur),
         NEW W, KeepsScope(blocks, V, W, cur)
  PROVE  FedLayout(blocks', W, frames', cur')
  <1> DEFINE f == Last(frames)
             m == Merge(f, ctx.env, ctx)
             bs == FallTo(blocks, cur, f.join)
  <1>1. frames # <<>> /\ f.k = "else" /\ cur' = f.join /\ frames' = Front(frames)
    BY DEF CloseIf, InFrame
  <1>2. /\ Front(frames) = <<>> /\ PendingFed(f, blocks, V, cur)
        /\ \A x \in DOMAIN blocks : PhisFed(blocks, V, x)
    BY <1>1, TopFrame
  <1>3. /\ FallsTo(blocks, bs, cur, f.join) /\ Writes(bs, blocks', f.join, m.code)
        /\ KeepsTerms(bs, blocks') /\ cur \in DOMAIN blocks
        /\ CodeInv(blocks, ctx) /\ IsContext(ctx, KnownIn(blocks))
    BY InvFacts, CloseIfStep DEF IRInv
  <1>. HIDE DEF bs
  <1>4. /\ FrameSees(f, blocks, V, ctx)
        /\ IsIf(f) => f.join \in DOMAIN blocks /\ f.join # cur
    BY <1>1, TopLayout
  <1>5. NextOf(f) = f.join /\ EnvOf(f) = f.left /\ IsIf(f)
    BY <1>1 DEF NextOf, EnvOf, IsIf
  <1>6. Waits(f, blocks)
    BY <1>1, TopWaits
  <1>7. IsEnv(f.base, KnownIn(blocks)) /\ IsEnv(f.left, KnownIn(blocks))
    BY <1>1, <1>6 DEF Waits
  <1>. HIDE DEF f
  <1>8. m.code \in Seq(Range(m.code))
    BY <1>3, <1>7, MergeFacts DEF EmitsCode, IsCode
  <1>9. /\ f.else = cur /\ f.then # cur /\ Preds(blocks, f.join) = {f.then}
        /\ \A id \in DOMAIN f.left : f.left[id] \in Avail(blocks, V, f.then)
        /\ DOMAIN f.left = DOMAIN ctx.env /\ DOMAIN f.base = DOMAIN ctx.env
        /\ blocks[cur].term = NoTerm
        /\ blocks[f.join].nodes = <<>> /\ blocks[f.join].term = NoTerm
    BY <1>1, <1>2, <1>4, <1>5 DEF PendingFed, FrameSees, FedLayout
  <1>10. \A n \in Range(m.code) :
           /\ DOMAIN n.inc = {f.then, cur}
           /\ \E id \in DOMAIN ctx.env : n.inc[f.then] = f.left[id] /\ n.inc[cur] = ctx.env[id]
    <2>1. DOMAIN ctx.env \subseteq VarNames
      BY <1>3 DEF IsContext
    <2>. QED
      BY <1>9, <2>1, MergeLabels
  <1>. HIDE DEF m
  <1>11. /\ DOMAIN bs = DOMAIN blocks
         /\ \A x \in DOMAIN blocks : bs[x].nodes = blocks[x].nodes /\ (x # cur => bs[x].term = blocks[x].term)
    BY <1>3, FallBlocks
  <1>12. bs[cur].term = Jump(f.join)
    BY <1>3, <1>9, TermFacts DEF FallsTo, Ends
  <1>13. /\ DOMAIN blocks' = DOMAIN blocks /\ blocks'[cur].term = Jump(f.join)
         /\ \A x \in DOMAIN blocks \ {f.join} : blocks'[x].nodes = blocks[x].nodes
         /\ \A x \in DOMAIN blocks \ {cur} : blocks'[x].term = blocks[x].term
         /\ blocks'[f.join].nodes = m.code
    <2>1. <<>> \o m.code = m.code
      BY <1>8
    <2>. QED
      BY <1>3, <1>4, <1>5, <1>9, <1>11, <1>12, <2>1 DEF Writes, KeepsTerms
  <1>14. Flows(blocks, blocks', V, W, cur)
    <2>1. Results(<<>>) = {}
      BY DEF Results, Range
    <2>2. \A x \in DOMAIN blocks : Results(blocks[x].nodes) \subseteq Results(blocks'[x].nodes)
      BY <1>9, <1>13, <2>1
    <2>. QED
      BY <2>2 DEF Flows, KeepsScope, Avail, Succ
  <1>15. \A x : Preds(blocks', x) = Preds(blocks, x) \cup (IF x = f.join THEN {cur} ELSE {})
    <2>1. Succ(blocks, cur) = {} /\ Succ(blocks', cur) = {f.join}
      BY <1>9, <1>13, NoEdges, TermFacts DEF Succ
    <2>2. \A x : Preds(blocks', x) = Preds(blocks, x) \cup
                 {p \in DOMAIN blocks' : (p = cur \/ p \notin DOMAIN blocks) /\ x \in Succ(blocks', p)}
      BY <1>13, <2>1, EdgesAdded
    <2>. QED
      BY <1>3, <1>13, <2>1, <2>2
  <1>16. PhisFed(blocks', W, f.join)
    <2>1. Preds(blocks', f.join) = {f.then, cur}
      BY <1>9, <1>15
    <2>2. Avail(blocks, V, cur) \subseteq Avail(blocks', W, cur)
      BY <1>3, <1>14 DEF Flows
    <2>3. Avail(blocks, V, f.then) \subseteq Avail(blocks', W, f.then)
      <3>1. f.then \in DOMAIN blocks /\ Succ(blocks, f.then) # {}
        BY <1>9 DEF Preds
      <3>. QED
        BY <1>14, <3>1 DEF Flows
    <2>4. \A id \in DOMAIN ctx.env : ctx.env[id] \in Avail(blocks, V, cur)
      BY DEF LaidOut, Sees
    <2>5. ASSUME NEW n \in Range(m.code)
          PROVE  /\ DOMAIN n.inc = {f.then, cur}
                 /\ n.inc[f.then] \in Avail(blocks', W, f.then) /\ n.inc[cur] \in Avail(blocks', W, cur)
      BY <1>9, <1>10, <2>2, <2>3, <2>4
    <2>. QED
      BY <1>13, <2>1, <2>5 DEF PhisFed
  <1>17. AllFed(blocks', W)
    <2>1. ASSUME NEW x \in DOMAIN blocks, x # f.join PROVE PhisFed(blocks', W, x)
      <3>1. PhisAmong(blocks[x].nodes, blocks'[x].nodes) /\ Preds(blocks', x) = Preds(blocks, x)
        BY <1>13, <1>15, <2>1, SamePhis
      <3>2. PhisFed(blocks, V, x)
        BY <1>2
      <3>. QED
        BY <1>14, <3>1, <3>2, FedStays
    <2>. QED
      BY <1>13, <1>16, <2>1 DEF AllFed
  <1>18. blocks'[f.join].term = NoTerm
    BY <1>4, <1>5, <1>9, <1>13
  <1>. QED
    BY <1>1, <1>2, <1>17, <1>18, NoFrame

\* Each phi of a condition block has, for the block before the loop, the value
\* of its name there.
Labelled(code, env, pre, body) ==
  \A n \in Range(code) : DOMAIN n.inc = {pre, body} /\ \E id \in DOMAIN env : n.inc[pre] = env[id]

LEMMA HeaderLabels ==
  ASSUME NEW c, DOMAIN c.env \subseteq VarNames, NEW pre, NEW body
  PROVE  Labelled(Header(c, pre, body).code, c.env, pre, body)
  <1> DEFINE h == Header(c, pre, body)
             live == Live(c.env)
             phi(id) == NewNamed(c, id, c.env[id].typ)
             new(id) == Phi(phi(id), [b \in {pre, body} |-> c.env[id]])
  <1>1. h.code = [i \in DOMAIN live |-> new(live[i])]
    BY DEF Header
  <1>2. Range(live) = DOMAIN c.env
    BY LiveFacts DEF Live
  <1>. HIDE DEF h, live, phi
  <1>3. \A id : DOMAIN new(id).inc = {pre, body} /\ new(id).inc[pre] = c.env[id]
    BY DEF Phi
  <1>. HIDE DEF new
  <1>4. ASSUME NEW n \in Range(h.code) PROVE \E id \in DOMAIN c.env : n = new(id)
    <2>1. PICK i \in DOMAIN live : n = new(live[i])
      BY <1>1 DEF Range
    <2>2. live[i] \in DOMAIN c.env
      BY <1>2 DEF Range
    <2>. QED
      BY <2>1, <2>2
  <1>. QED
    BY <1>3, <1>4 DEF h, Labelled

\* The block before a loop jumps to the condition block, whose phis wait for
\* the body.
LEMMA OpenFed ==
  ASSUME LoweringInv, status = "lowering", NEW V, FedLayout(blocks, V, frames, cur), frames = <<>>,
         NEW K, IsContext(ctx, K), K = Avail(blocks, V, cur),
         NEW c, NEW code, Yields(ctx, K, [code |-> code, ctx |-> c]),
         NEW test, Balanced(test), NEW step,
         Open(c, code, test, step), NEW bs, NEW mid, LoopBlocks(c, code, test, bs, mid),
         NEW W, KeepsScope(blocks, V, W, cur)
  PROVE  FedLayout(blocks', W, frames', cur')
  <1> DEFINE cond == CFP!WhileCond
             body == CFP!WhileBody
             exit == CFP!WhileExit
             labels == {cond, body, exit}
             h == Header(c, cur, body)
             e == LowerExpr(h.ctx, test)
             t == Branch(Result(e), body, exit)
             f == [k |-> "while", cond |-> cond, body |-> body, exit |-> exit,
                   base |-> h.ctx.env, step |-> step]
  <1>1. e.ok /\ cur' = body /\ frames' = Append(<<>>, f)
    BY DEF Open, Body, ResultIs, CFP!WhileCond, CFP!WhileBody, CFP!WhileExit
  <1>2. /\ Writes(blocks, bs, cur, code) /\ Ends(blocks, bs, cur, Jump(cond))
        /\ Added(bs, mid, labels)
        /\ Fills(mid, blocks', cond, h.code \o e.code) /\ Ends(mid, blocks', cond, t)
    BY DEF LoopBlocks
  <1>3. labels \cap DOMAIN blocks = {} /\ cond # body /\ cond # exit /\ body # exit
    BY LabelsAreNew
  <1>4. Range(t.to) = {body, exit} /\ Range(Jump(cond).to) = {cond}
    BY DEF Branch, Jump, Term, Range
  <1>5. f.k = "while" /\ f.cond = cond /\ f.body = body /\ f.exit = exit
    OBVIOUS
  <1>. HIDE DEF cond, body, exit, t, f
  <1>6. cur \in DOMAIN blocks /\ CodeInv(blocks, ctx) /\ Closed(blocks)
    BY InvFacts, LabelFacts DEF IRInv, LoweringInv
  <1>7. /\ code \in Seq(Range(code)) /\ Plain(code)
        /\ IsContext(c, K \cup Results(code))
    BY DEF Yields, EmitsCode, IsCode
  <1>8. /\ h.code \in Seq(Range(h.code))
        /\ IsContext(h.ctx, (K \cup Results(code)) \cup Results(h.code))
    BY <1>7, HeaderFacts DEF EmitsCode, IsCode
  <1>9. Labelled(h.code, c.env, cur, body)
    <2>1. DOMAIN c.env \subseteq VarNames
      BY <1>7 DEF IsContext
    <2>. QED
      BY <2>1, HeaderLabels
  <1>. HIDE DEF h
  <1>10. e.code \in Seq(Range(e.code)) /\ Plain(e.code)
    BY <1>1, <1>8, ExprFacts DEF Accumulates, EmitsCode, IsCode
  <1>. HIDE DEF e
  <1>11. PhisAmong(h.code, h.code \o e.code)
    BY <1>8, <1>10, PlainAdded
  <1> DEFINE new == h.code \o e.code
  <1>. HIDE DEF new, labels
  <1>12. /\ DOMAIN blocks' = DOMAIN blocks \cup labels
         /\ \A m \in labels \ {cond} : blocks'[m].nodes = <<>> /\ blocks'[m].term = NoTerm
         /\ blocks'[cond].nodes = new /\ blocks'[cond].term = t
         /\ \A m \in DOMAIN blocks :
              /\ blocks'[m].nodes = IF m = cur THEN blocks[m].nodes \o code ELSE blocks[m].nodes
              /\ m # cur => blocks'[m].term = blocks[m].term
         /\ blocks'[cur].term = Jump(cond)
    <2>1. DOMAIN bs = DOMAIN blocks /\ cond \in labels
      BY <1>2 DEF Writes, labels
    <2>2. /\ DOMAIN mid = DOMAIN blocks \cup labels
          /\ \A m \in labels : mid[m] = NewBlock
          /\ \A m \in DOMAIN blocks : mid[m] = bs[m]
      BY <1>2, <1>3, <2>1 DEF Added
    <2>3. Fills(mid, blocks', cond, new)
      BY <1>2 DEF new
    <2>. QED
      BY <1>2, <1>3, <1>6, <2>1, <2>2, <2>3 DEF Writes, Ends, Fills, NewBlock
  <1>13. /\ Flows(blocks, blocks', V, W, cur)
         /\ \A m \in DOMAIN blocks : PhisAmong(blocks[m].nodes, blocks'[m].nodes)
    BY <1>6, <1>7, <1>12, WrittenFlows
  <1>14. /\ \A m \in DOMAIN blocks : Preds(blocks', m) = Preds(blocks, m)
         /\ Preds(blocks', cond) = {cur}
    <2>1. Succ(blocks, cur) = {}
      BY NoEdges DEF FedLayout, Succ
    <2>2. \A m : Preds(blocks', m) = Preds(blocks, m) \cup
                 {p \in DOMAIN blocks' : (p = cur \/ p \notin DOMAIN blocks) /\ m \in Succ(blocks', p)}
      BY <1>12, <2>1, EdgesAdded
    <2>3. /\ Succ(blocks', cur) = {cond} /\ Succ(blocks', cond) = {body, exit}
          /\ \A p \in labels \ {cond} : Succ(blocks', p) = {}
      BY <1>4, <1>12, NoEdges DEF Succ
    <2>4. \A m \in labels : Preds(blocks, m) = {}
      BY <1>3, <1>6 DEF Closed, Preds, Succ
    <2>5. \A p \in DOMAIN blocks' : (p = cur \/ p \notin DOMAIN blocks) =>
             \A m : m \in Succ(blocks', p) => (m = cond /\ p = cur) \/ (m \in {body, exit} /\ p = cond)
      BY <1>3, <1>12, <2>3
    <2>6. cond \in labels /\ body \in labels /\ exit \in labels
      BY DEF labels
    <2>7. \A m \in DOMAIN blocks : Preds(blocks', m) = Preds(blocks, m)
      BY <1>3, <2>2, <2>5, <2>6
    <2>8. cur \in DOMAIN blocks'
      BY <1>6, <1>12
    <2>9. Preds(blocks', cond) = {cur}
      BY <1>3, <2>2, <2>3, <2>4, <2>5, <2>6, <2>8
    <2>. QED
      BY <2>7, <2>9
  <1>15. \A m \in DOMAIN blocks' : PhisFed(blocks', W, m) \/ (f.k = "while" /\ m = f.cond)
    <2>1. AllFed(blocks, V)
      BY NoFrameFed
    <2>2. \A m \in DOMAIN blocks : PhisFed(blocks', W, m)
      BY <1>13, <1>14, <2>1, FedStays DEF AllFed
    <2>3. \A m \in labels \ {cond} : PhisFed(blocks', W, m)
      BY <1>12, NewIsFed
    <2>. QED
      BY <1>5, <1>12, <2>2, <2>3
  <1>16. blocks'[body].term = NoTerm /\ blocks'[exit].term = NoTerm
    BY <1>3, <1>12 DEF labels
  <1>17. HalfFed(blocks', W, cond, cur, body)
    <2>1. cur # body
      BY <1>3, <1>6 DEF labels
    <2>2. Avail(blocks', W, cur) = K \cup Results(code)
      <3>1. W[cur] = V[cur]
        BY <1>6 DEF KeepsScope
      <3>2. blocks[cur].nodes \in Seq(Range(blocks[cur].nodes))
        BY <1>6 DEF CodeInv, IsCode
      <3>3. blocks'[cur].nodes = blocks[cur].nodes \o code
        BY <1>6, <1>12
      <3>4. Results(blocks[cur].nodes \o code) = Results(blocks[cur].nodes) \cup Results(code)
        BY <1>7, <3>2, ResultsOfBoth
      <3>. QED
        BY <3>1, <3>3, <3>4 DEF Avail
    <2>3. \A id \in DOMAIN c.env : c.env[id] \in Avail(blocks', W, cur)
      BY <1>7, <2>2 DEF IsContext
    <2>4. ASSUME NEW n \in Range(new), n.op = "phi"
          PROVE  DOMAIN n.inc = {cur, body} /\ n.inc[cur] \in Avail(blocks', W, cur)
      <3>1. n \in Range(h.code)
        BY <1>11, <2>4 DEF PhisAmong, new
      <3>. QED
        BY <1>9, <2>3, <3>1 DEF Labelled
    <2>. QED
      BY <1>12, <1>14, <2>1, <2>4 DEF HalfFed
  <1>18. PendingFed(f, blocks', W, body)
    <2>1. NextOf(f) = exit
      BY <1>5 DEF NextOf
    <2>. QED
      BY <1>5, <1>16, <1>17, <2>1 DEF PendingFed
  <1>19. FedLayout(blocks', W, Append(<<>>, f), body)
    BY <1>15, <1>16, <1>18, OneFrame
  <1>. QED
    BY <1>1, <1>19

\* The phis of a condition block get the value that their name has after the body.
LEMMA PatchLabels ==
  ASSUME NEW nodes, nodes \in Seq(Range(nodes)), NEW f, Owned(nodes, f.base), NEW env,
         DOMAIN f.base \subseteq DOMAIN env, NEW n \in Range(Patch(f, nodes, env)), n.op = "phi",
         \A i \in 1 .. Len(nodes) : "inc" \in DOMAIN nodes[i]
  PROVE  \E old \in Range(nodes) :
           /\ old.op = "phi"
           /\ f.body \in DOMAIN old.inc =>
                /\ DOMAIN n.inc = DOMAIN old.inc
                /\ \A p \in DOMAIN old.inc : p # f.body => n.inc[p] = old.inc[p]
                /\ \E id \in DOMAIN env : n.inc[f.body] = env[id]
  <1> DEFINE final(x) == LET id == CHOOSE id \in DOMAIN f.base : f.base[id] \in x.res
                         IN  IF id \in DOMAIN env THEN env[id] ELSE f.base[id]
             new(x) == [x EXCEPT !.inc[f.body] = final(x)]
             code == Patch(f, nodes, env)
  <1>1. code = [i \in DOMAIN nodes |-> IF nodes[i].op = "phi" THEN new(nodes[i]) ELSE nodes[i]]
    BY DEF Patch
  <1>2. PICK i \in DOMAIN nodes : n = IF nodes[i].op = "phi" THEN new(nodes[i]) ELSE nodes[i]
    <2>. HIDE DEF new, code
    <2>. QED
      BY <1>1 DEF Range, code
  <1>3. i \in 1 .. Len(nodes) /\ nodes[i] \in Range(nodes)
    BY DEF Range
  <1> DEFINE old == nodes[i]
  <1>4. CASE nodes[i].op # "phi"
    BY <1>2, <1>4
  <1>5. CASE nodes[i].op = "phi"
    <2>1. \E id \in DOMAIN env : final(old) = env[id]
      <3> DEFINE id == CHOOSE id \in DOMAIN f.base : f.base[id] \in old.res
      <3>1. \E x \in DOMAIN f.base : f.base[x] \in old.res
        BY <1>3, <1>5 DEF Owned
      <3>2. id \in DOMAIN f.base
        BY <3>1
      <3>. QED
        BY <3>2
    <2>2. n = new(old) /\ "inc" \in DOMAIN old
      BY <1>2, <1>3, <1>5
    <2>. HIDE DEF final, old
    <2>3. n.inc = [old.inc EXCEPT ![f.body] = final(old)]
      BY <2>2
    <2>4. old \in Range(nodes) /\ old.op = "phi"
      BY <1>3, <1>5 DEF old
    <2>5. f.body \in DOMAIN old.inc =>
            /\ DOMAIN n.inc = DOMAIN old.inc /\ n.inc[f.body] = final(old)
            /\ \A p \in DOMAIN old.inc : p # f.body => n.inc[p] = old.inc[p]
      BY <2>3
    <2>. QED
      BY <2>1, <2>4, <2>5
  <1>. QED
    BY <1>4, <1>5

LEMMA SameResults ==
  ASSUME NEW a, NEW b, a \in Seq(Range(a)), b \in Seq(Range(b)), Len(b) = Len(a),
         \A i \in 1 .. Len(a) : b[i].res = a[i].res
  PROVE  Results(b) = Results(a)
  <1>1. DOMAIN a = 1 .. Len(a) /\ DOMAIN b = 1 .. Len(a)
    OBVIOUS
  <1>2. \A x \in Results(a) : x \in Results(b)
    BY <1>1 DEF Results, Range
  <1>3. \A x \in Results(b) : x \in Results(a)
    BY <1>1 DEF Results, Range
  <1>. QED
    BY <1>2, <1>3

\* A loop's step keeps the names in scope.
LEMMA StepNames ==
  ASSUME NEW K, IsContext(ctx, K), NEW f, LowerStep(f).ok,
         f.step # <<>> => IsSimple(f.step[1]) /\ f.step[1].s = "assign"
  PROVE  DOMAIN ctx.env \subseteq DOMAIN LowerStep(f).ctx.env
  <1>1. CASE f.step = <<>>
    BY <1>1 DEF LowerStep
  <1>2. CASE f.step # <<>>
    <2>1. LowerStep(f) = LowerSimple(ctx, f.step[1])
      BY <1>2 DEF LowerStep
    <2>. QED
      BY <1>2, <2>1, SimpleScope
  <1>. QED
    BY <1>1, <1>2

\* The body ends in the block it began in, and jumps to the condition.
LEMMA CloseLoopFed ==
  ASSUME LoweringInv, status = "lowering", NEW s \in Stmts, s.s = "end", CloseLoop(s),
         NEW V, LaidOut(V, blocks, frames, ctx, cur), FedLayout(blocks, V, frames, cur),
         NEW W, KeepsScope(blocks, V, W, cur)
  PROVE  FedLayout(blocks', W, frames', cur')
  <1> DEFINE f == Last(frames)
             r == LowerStep(f)
             K == Avail(blocks, V, cur)
  <1>1. /\ frames # <<>> /\ f.k = "while" /\ cur' = f.exit /\ r.ok /\ frames' = Front(frames)
    BY DEF CloseLoop, InFrame
  <1>2. /\ Front(frames) = <<>> /\ PendingFed(f, blocks, V, cur)
        /\ \A m \in DOMAIN blocks : PhisFed(blocks, V, m) \/ (f.k = "while" /\ m = f.cond)
    BY <1>1, TopFrame
  <1>3. PICK bs1, bs2 : LoopClosed(f, bs1, bs2)
    BY InvFacts, CloseLoopStep
  <1>4. /\ Writes(blocks, bs1, cur, r.code) /\ KeepsTerms(blocks, bs1)
        /\ FallsTo(bs1, bs2, cur, f.cond)
        /\ Fills(bs2, blocks', f.cond, Patch(f, bs2[f.cond].nodes, r.ctx.env))
        /\ KeepsTerms(bs2, blocks')
    BY <1>3 DEF LoopClosed
  <1>5. /\ IRInv(bs2, r.ctx) /\ Waits(f, bs2) /\ (f.step # <<>> => IsSimple(f.step[1]))
    BY <1>1, <1>3, LoopClosedFacts
  <1>6. /\ FrameSees(f, blocks, V, ctx)
        /\ NextOf(f) \in DOMAIN blocks /\ NextOf(f) # cur /\ f.cond \in DOMAIN blocks
    BY <1>1, TopLayout
  <1>7. NextOf(f) = f.exit
    BY <1>1 DEF NextOf
  <1>8. EnvOf(f) = f.base /\ DOMAIN f.base = DOMAIN ctx.env /\ (f.step # <<>> => f.step[1].s = "assign")
    BY <1>1, <1>6 DEF FrameSees, EnvOf
  <1>9. IsContext(ctx, K) /\ CodeInv(blocks, ctx) /\ cur \in DOMAIN blocks
    BY LaidOutFacts, InvFacts
  <1>. HIDE DEF K
  <1>10. /\ r.code \in Seq(Range(r.code)) /\ Plain(r.code)
         /\ IsContext(r.ctx, K \cup Results(r.code))
    BY <1>1, <1>5, <1>9, StepFacts DEF Yields, EmitsCode, IsCode
  <1>11. DOMAIN f.base \subseteq DOMAIN r.ctx.env
    BY <1>1, <1>5, <1>8, <1>9, StepNames
  <1>12. PICK pre : f.body = cur /\ HalfFed(blocks, V, f.cond, pre, cur)
    BY <1>1, <1>2 DEF PendingFed
  <1>13. blocks[f.exit].term = NoTerm /\ blocks[cur].term = NoTerm
    BY <1>2, <1>7 DEF PendingFed, FedLayout
  <1>. HIDE DEF f, r
  <1> DEFINE code == Patch(f, bs2[f.cond].nodes, r.ctx.env)
  <1>14. /\ IsCode(bs2[f.cond].nodes, KnownIn(bs2)) /\ IsEnv(f.base, KnownIn(bs2))
         /\ Owned(bs2[f.cond].nodes, f.base)
    <2>1. DOMAIN bs2 = DOMAIN blocks
      BY <1>4, FallBlocks DEF Writes
    <2>. QED
      BY <1>1, <1>5, <1>6, <2>1 DEF IRInv, CodeInv, Waits
  <1>15. /\ Results(code) = Results(bs2[f.cond].nodes)
    <2>1. IsEnv(r.ctx.env, KnownIn(bs2))
      BY <1>5 DEF IRInv, CodeInv, IsContext, IsEnv
    <2>2. /\ IsCode(code, KnownIn(bs2)) /\ Len(code) = Len(bs2[f.cond].nodes)
          /\ \A i \in 1 .. Len(code) : code[i].res = bs2[f.cond].nodes[i].res
      BY <1>14, <2>1, PatchFacts
    <2>. HIDE DEF code
    <2>. QED
      BY <1>14, <2>2, SameResults DEF IsCode
  <1>16. /\ \A n \in Range(code) : n.op = "phi" =>
              \E old \in Range(bs2[f.cond].nodes) :
                /\ old.op = "phi"
                /\ f.body \in DOMAIN old.inc =>
                     /\ DOMAIN n.inc = DOMAIN old.inc
                     /\ \A p \in DOMAIN old.inc : p # f.body => n.inc[p] = old.inc[p]
                     /\ \E id \in DOMAIN r.ctx.env : n.inc[f.body] = r.ctx.env[id]
    <2>1. /\ bs2[f.cond].nodes \in Seq(Range(bs2[f.cond].nodes))
          /\ \A i \in 1 .. Len(bs2[f.cond].nodes) : "inc" \in DOMAIN bs2[f.cond].nodes[i]
      BY <1>14 DEF IsCode, IsNode
    <2>. QED
      BY <1>11, <1>14, <2>1, PatchLabels
  <1>. HIDE DEF code
  <1>17. /\ DOMAIN bs1 = DOMAIN blocks /\ bs1[cur].term = NoTerm
         /\ \A m \in DOMAIN blocks : bs1[m].term = blocks[m].term
    BY <1>4, <1>9, <1>13 DEF KeepsTerms
  <1>18. /\ DOMAIN bs2 = DOMAIN blocks /\ bs2[cur].term = Jump(f.cond)
         /\ \A m \in DOMAIN blocks : bs2[m].nodes = bs1[m].nodes /\ (m # cur => bs2[m].term = blocks[m].term)
    <2>1. /\ DOMAIN bs2 = DOMAIN bs1
          /\ \A m \in DOMAIN bs1 : bs2[m].nodes = bs1[m].nodes /\ (m # cur => bs2[m].term = bs1[m].term)
      BY <1>4, FallBlocks
    <2>2. bs2[cur].term = Jump(f.cond)
      BY <1>4, <1>9, <1>17, TermFacts DEF FallsTo, Ends
    <2>. QED
      BY <1>17, <2>1, <2>2
  <1>19. /\ DOMAIN blocks' = DOMAIN blocks /\ blocks'[cur].term = Jump(f.cond)
         /\ \A m \in DOMAIN blocks \ {cur} : blocks'[m].term = blocks[m].term
         /\ \A m \in DOMAIN blocks : blocks'[m].nodes = IF m = f.cond THEN code ELSE bs2[m].nodes
    <2>1. Fills(bs2, blocks', f.cond, code)
      BY <1>4 DEF code
    <2>. QED
      BY <1>4, <1>9, <1>18, <2>1 DEF Fills, KeepsTerms
  <1>20. /\ Flows(blocks, bs2, V, W, cur)
         /\ \A m \in DOMAIN blocks : PhisAmong(blocks[m].nodes, bs2[m].nodes)
    <2>1. \A m \in DOMAIN blocks : bs2[m].nodes = IF m = cur THEN blocks[m].nodes \o r.code ELSE blocks[m].nodes
      BY <1>4, <1>18 DEF Writes
    <2>. QED
      BY <1>9, <1>10, <2>1, WrittenFlows
  <1>21. \A m \in DOMAIN blocks : Avail(blocks', W, m) = Avail(bs2, W, m)
    BY <1>6, <1>15, <1>19 DEF Avail
  <1>22. Flows(blocks, blocks', V, W, cur)
    BY <1>20, <1>21 DEF Flows
  <1>23. \A m : Preds(blocks', m) = Preds(blocks, m) \cup (IF m = f.cond THEN {cur} ELSE {})
    <2>1. Succ(blocks, cur) = {} /\ Succ(blocks', cur) = {f.cond}
      BY <1>13, <1>19, NoEdges, TermFacts DEF Succ
    <2>2. \A m : Preds(blocks', m) = Preds(blocks, m) \cup
                 {p \in DOMAIN blocks' : (p = cur \/ p \notin DOMAIN blocks) /\ m \in Succ(blocks', p)}
      BY <1>19, <2>1, EdgesAdded
    <2>. QED
      BY <1>9, <1>19, <2>1, <2>2
  <1>24. PhisFed(blocks', W, f.cond)
    <2>1. Preds(blocks', f.cond) = {pre, cur} /\ pre # cur
      BY <1>12, <1>23 DEF HalfFed
    <2>2. Avail(blocks, V, pre) \subseteq Avail(blocks', W, pre)
      <3>1. pre \in DOMAIN blocks /\ Succ(blocks, pre) # {}
        BY <1>12 DEF HalfFed, Preds
      <3>. QED
        BY <1>22, <3>1 DEF Flows
    <2>3. \A id \in DOMAIN r.ctx.env : r.ctx.env[id] \in Avail(blocks', W, cur)
      <3>1. K \cup Results(r.code) \subseteq Avail(bs2, W, cur)
        <4>1. K \subseteq Avail(bs2, W, cur)
          BY <1>9, <1>20 DEF Flows, K
        <4>2. bs2[cur].nodes = blocks[cur].nodes \o r.code
          BY <1>4, <1>9, <1>18 DEF Writes
        <4>3. blocks[cur].nodes \in Seq(Range(blocks[cur].nodes))
          BY <1>9 DEF CodeInv, IsCode
        <4>4. Results(r.code) \subseteq Results(bs2[cur].nodes)
          BY <1>10, <4>2, <4>3, ResultsOfBoth
        <4>. QED
          BY <4>1, <4>4 DEF Avail
      <3>. QED
        BY <1>9, <1>10, <1>21, <3>1 DEF IsContext
    <2>4. ASSUME NEW n \in Range(code), n.op = "phi"
          PROVE  /\ DOMAIN n.inc = {pre, cur}
                 /\ n.inc[pre] \in Avail(blocks', W, pre) /\ n.inc[cur] \in Avail(blocks', W, cur)
      <3>1. PICK old \in Range(bs2[f.cond].nodes) :
              /\ old.op = "phi"
              /\ f.body \in DOMAIN old.inc =>
                   /\ DOMAIN n.inc = DOMAIN old.inc
                   /\ \A p \in DOMAIN old.inc : p # f.body => n.inc[p] = old.inc[p]
                   /\ \E id \in DOMAIN r.ctx.env : n.inc[f.body] = r.ctx.env[id]
        BY <1>16, <2>4
      <3>2. old \in Range(blocks[f.cond].nodes)
        BY <1>6, <1>20, <3>1 DEF PhisAmong
      <3>3. DOMAIN old.inc = {pre, cur} /\ old.inc[pre] \in Avail(blocks, V, pre)
        BY <1>12, <3>1, <3>2 DEF HalfFed
      <3>. QED
        BY <1>12, <2>1, <2>2, <2>3, <3>1, <3>3
    <2>5. blocks'[f.cond].nodes = code
      BY <1>6, <1>19
    <2>. QED
      BY <2>1, <2>4, <2>5 DEF PhisFed
  <1>25. AllFed(blocks', W)
    <2>1. ASSUME NEW m \in DOMAIN blocks, m # f.cond PROVE PhisFed(blocks', W, m)
      <3>1. PhisAmong(blocks[m].nodes, blocks'[m].nodes) /\ Preds(blocks', m) = Preds(blocks, m)
        BY <1>19, <1>20, <1>23, <2>1
      <3>2. PhisFed(blocks, V, m)
        BY <1>2, <2>1
      <3>. QED
        BY <1>22, <3>1, <3>2, FedStays
    <2>. QED
      BY <1>19, <1>24, <2>1 DEF AllFed
  <1>26. blocks'[f.exit].term = NoTerm
    BY <1>6, <1>7, <1>13, <1>19
  <1>. QED
    BY <1>1, <1>2, <1>25, <1>26, NoFrame

LEMMA OpenWhileFed ==
  ASSUME LoweringInv, status = "lowering", More, NEW s \in Stmts, s.s = "while", OpenWhile(s),
         NEW V, LaidOut(V, blocks, frames, ctx, cur), FedLayout(blocks, V, frames, cur),
         frames = <<>>, NEW W, KeepsScope(blocks, V, W, cur)
  PROVE  FedLayout(blocks', W, frames', cur')
  <1> DEFINE K == Avail(blocks, V, cur)
  <1>1. Open(ctx, <<>>, s.expr, <<>>)
    BY DEF OpenWhile
  <1>2. PICK bs, mid : LoopBlocks(ctx, <<>>, s.expr, bs, mid)
    BY OpenWhileStep, InvFacts
  <1>3. Balanced(s.expr)
    BY StmtFacts, LoweringAssumption
  <1>4. IsContext(ctx, K)
    BY LaidOutFacts
  <1>. HIDE DEF K
  <1>5. Yields(ctx, K, [code |-> <<>>, ctx |-> ctx])
    <2>1. EmitsCode(ctx, K, <<>>, ctx)
      BY <1>4, NoNode
    <2>2. Plain(<<>>)
      BY DEF Plain
    <2>. QED
      BY <2>1, <2>2 DEF Yields
  <1>6. K = Avail(blocks, V, cur)
    BY DEF K
  <1>. QED
    BY <1>1, <1>2, <1>3, <1>4, <1>5, <1>6, OpenFed

LEMMA OpenForFed ==
  ASSUME LoweringInv, status = "lowering", More, NEW s \in Stmts, s.s = "for", OpenFor(s),
         NEW V, LaidOut(V, blocks, frames, ctx, cur), FedLayout(blocks, V, frames, cur),
         frames = <<>>, NEW W, KeepsScope(blocks, V, W, cur)
  PROVE  FedLayout(blocks', W, frames', cur')
  <1> DEFINE K == Avail(blocks, V, cur)
             a == LowerAssign(ctx, s.id, s.start)
             step == <<ForStep(s)>>
  <1>1. /\ a.ok /\ Open(a.ctx, a.code, RangeTest(s), step)
        /\ \E bs, mid : LoopBlocks(a.ctx, a.code, RangeTest(s), bs, mid)
    BY OpenForStep, InvFacts
  <1>2. PICK bs, mid : LoopBlocks(a.ctx, a.code, RangeTest(s), bs, mid)
    BY <1>1
  <1>3. Balanced(RangeTest(s)) /\ s.id \in VarNames /\ Balanced(s.start)
    BY ForFacts, StmtFacts, LoweringAssumption
  <1>4. IsContext(ctx, K)
    BY LaidOutFacts
  <1>. HIDE DEF K
  <1>5. Yields(ctx, K, a)
    BY <1>1, <1>3, <1>4, AssignFacts
  <1>. HIDE DEF a, step
  <1>6. Yields(ctx, K, [code |-> a.code, ctx |-> a.ctx])
    BY <1>5 DEF Yields
  <1>7. K = Avail(blocks, V, cur)
    BY DEF K
  <1>. QED
    BY <1>1, <1>2, <1>3, <1>4, <1>6, <1>7, OpenFed

\* A statement that does not return feeds the phis it should.
LEMMA FedNext ==
  ASSUME LoweringInv, DominanceInv, PhisInv, NEW s \in Stmts, Lower(s), status' = "lowering",
         \A V : Hoisted' /\ LaidOut(V, blocks, frames, ctx, cur) => DominanceStep(V),
         \A V, W : /\ LaidOut(V, blocks, frames, ctx, cur) /\ FedLayout(blocks, V, frames, cur)
                   /\ KeepsScope(blocks, V, W, cur) /\ (s.s \in Opening => frames = <<>>)
                   => FedLayout(blocks', W, frames', cur')
  PROVE  PhisInv'
  <1>1. ASSUME Regular'
        PROVE  \E W : /\ LaidOut(W, blocks', frames', ctx', cur')
                      /\ FedLayout(blocks', W, frames', cur')
                      /\ frames' = <<>> => AllFed(blocks', W)
    <2>1. Hoisted' /\ (s.s \in Opening => frames = <<>>)
      BY <1>1, RegularFacts
    <2>2. PICK V : LaidOut(V, blocks, frames, ctx, cur) /\ FedLayout(blocks, V, frames, cur)
      BY <1>1, RegularFacts
    <2>3. DominanceStep(V)
      BY <2>1, <2>2
    <2>4. PICK W : LaidOut(W, blocks', frames', ctx', cur') /\ KeepsScope(blocks, V, W, cur)
      BY <2>3 DEF DominanceStep
    <2>5. FedLayout(blocks', W, frames', cur')
      BY <2>1, <2>2, <2>4
    <2>6. frames' = <<>> => AllFed(blocks', W)
      BY <2>5, NoFrameFed
    <2>. QED
      BY <2>4, <2>5, <2>6
  <1>2. ~Done'
    BY DEF Done
  <1>. QED
    BY <1>1, <1>2 DEF PhisInv

LEMMA ReturnNext ==
  ASSUME LoweringInv, DominanceInv, PhisInv, NEW s \in Stmts, s.s = "return", ReturnStmt(s)
  PROVE  PhisInv'
  <1>1. Lower(s) /\ status = "lowering" /\ status' = "lowering" /\ frames' = frames
    BY DEF ReturnStmt, Lower
  <1>2. ASSUME Regular'
        PROVE  /\ Returned'
               /\ \E W : /\ LaidOut(W, blocks', frames', ctx', cur')
                         /\ frames' = <<>> => AllFed(blocks', W)
    <2>1. Hoisted' /\ src' = Append(src, s) /\ src \in Seq(Stmts)
      BY <1>1, <1>2, RegularFacts
    <2>2. PICK V : LaidOut(V, blocks, frames, ctx, cur) /\ FedLayout(blocks, V, frames, cur)
      BY <1>1, <1>2, RegularFacts
    <2>3. DominanceStep(V)
      BY <2>1, <2>2, ReturnDominance
    <2>4. PICK W : LaidOut(W, blocks', frames', ctx', cur') /\ KeepsScope(blocks, V, W, cur)
      BY <2>3 DEF DominanceStep
    <2>5. frames = <<>> => AllFed(blocks', W)
      BY <1>1, <2>2, <2>4, ReturnFed
    <2>6. Returned'
      <3>1. Len(src) + 1 \in DOMAIN src' /\ src'[Len(src) + 1] = s
        BY <2>1
      <3>. QED
        BY <3>1 DEF Returned
    <2>. QED
      BY <1>1, <2>4, <2>5, <2>6
  <1>3. ~Done'
    BY <1>1 DEF Done
  <1>. QED
    BY <1>2, <1>3 DEF PhisInv

\* A void function's return feeds no phi.
LEMMA FinishFed ==
  ASSUME LoweringInv, PhisInv, Finish
  PROVE  PhisInv'
  <1>1. /\ \/ blocks' = blocks
           \/ KeepsNodes(blocks, blocks') /\ Ends(blocks, blocks', cur, Return(<<>>))
        /\ UNCHANGED <<order, cur, frames, ctx>>
    BY InvFacts, FinishStep
  <1>2. status' # "lowering" /\ status = "lowering" /\ src' = src /\ frames = <<>>
    BY DEF Finish
  <1>3. ASSUME Regular' PROVE \E V : Scoped(blocks', V) /\ AllFed(blocks', V)
    <2>1. Regular
      BY <1>2, <1>3 DEF Regular, Hoisted, Flat, ReturnsLast, Depth, Before
    <2>2. PICK V : LaidOut(V, blocks, frames, ctx, cur) /\ AllFed(blocks, V)
      BY <1>2, <2>1 DEF PhisInv
    <2>3. CASE blocks' = blocks
      BY <2>2, <2>3 DEF LaidOut, Layout
    <2>4. CASE blocks' # blocks
      <3>0. KeepsNodes(blocks, blocks') /\ Ends(blocks, blocks', cur, Return(<<>>))
        BY <1>1, <2>4
      <3>1. Range(Return(<<>>).to) = {} /\ Range(Return(<<>>).uses) = {}
        BY DEF Return, Term, Range
      <3>2. JoinsNot(frames, cur) /\ cur \in DOMAIN blocks
        BY <1>2, <2>2, LaidOutFacts, InvFacts
      <3>3. Layout(V, blocks', frames, ctx, cur)
        BY <2>2, <3>0, <3>1, <3>2, EndLayout DEF LaidOut
      <3>4. Succ(blocks, cur) = {}
        <4>1. blocks[cur].term.k = "none"
          BY <2>4 DEF Finish
        <4>2. IsBlock(blocks[cur])
          BY <3>2, InvFacts DEF Shape, AreBlocks
        <4>. QED
          BY <4>1, <4>2, NoEdges DEF IsBlock, Succ
      <3>5. /\ DOMAIN blocks' = DOMAIN blocks
            /\ \A m \in DOMAIN blocks : blocks'[m].nodes = blocks[m].nodes /\ Succ(blocks', m) = Succ(blocks, m)
        BY <3>0, <3>1, <3>2, <3>4 DEF KeepsNodes, Ends, Succ
      <3>6. \A m : Preds(blocks', m) = Preds(blocks, m)
        BY <3>5, EdgesKept
      <3>7. Flows(blocks, blocks', V, V, cur)
        BY <3>5 DEF Flows, Avail
      <3>8. ASSUME NEW m \in DOMAIN blocks PROVE PhisFed(blocks', V, m)
        <4>1. PhisAmong(blocks[m].nodes, blocks'[m].nodes)
          BY <3>5, SamePhis
        <4>. QED
          BY <2>2, <3>6, <3>7, <4>1, FedStays DEF AllFed
      <3>. QED
        BY <3>3, <3>5, <3>8 DEF Layout, AllFed
    <2>. QED
      BY <2>3, <2>4
  <1>. QED
    BY <1>2, <1>3 DEF PhisInv, Done

LEMMA PhisInvNext == LoweringInv /\ DominanceInv /\ PhisInv /\ [Next]_vars => PhisInv'
  <1>. SUFFICES ASSUME LoweringInv, DominanceInv, PhisInv, [Next]_vars PROVE PhisInv'
    OBVIOUS
  <1>1. CASE UNCHANGED vars
    <2>1. UNCHANGED <<status, src, blocks, cur, frames, ctx>>
      BY <1>1 DEF vars
    <2>2. Regular' = Regular
      BY <2>1 DEF Regular, Hoisted, Flat, ReturnsLast, Depth, Before
    <2>3. Returned' = Returned
      BY <2>1 DEF Returned
    <2>. QED
      BY <2>1, <2>2, <2>3 DEF PhisInv, Done
  <1>2. CASE Finish
    BY <1>2, FinishFed
  <1>3. ASSUME NEW s \in Stmts, Lowers(s) PROVE PhisInv'
    <2>1. CASE s.s \in SimpleStmts /\ Simple(s)
      <3>1. Lower(s) /\ status = "lowering" /\ status' = "lowering"
        BY <2>1 DEF Simple, Lower
      <3>2. \A V : Hoisted' /\ LaidOut(V, blocks, frames, ctx, cur) => DominanceStep(V)
        BY <2>1, SimpleDominance
      <3>3. \A V, W : FedLayout(blocks, V, frames, cur) /\ KeepsScope(blocks, V, W, cur)
                      => FedLayout(blocks', W, frames', cur')
        BY <2>1, <3>1, SimpleFed
      <3>. QED
        BY <3>1, <3>2, <3>3, FedNext
    <2>2. CASE s.s = "return" /\ ReturnStmt(s)
      BY <2>2, ReturnNext
    <2>3. CASE s.s = "if" /\ More /\ OpenIf(s)
      <3>1. Lower(s) /\ status = "lowering" /\ status' = "lowering" /\ s.s \in Opening
        BY <2>3 DEF OpenIf, Lower, Opening
      <3>2. \A V : Hoisted' /\ LaidOut(V, blocks, frames, ctx, cur) => DominanceStep(V)
        BY <2>3, OpenIfDominance
      <3>3. \A V, W : /\ FedLayout(blocks, V, frames, cur) /\ frames = <<>>
                      /\ KeepsScope(blocks, V, W, cur)
                      => FedLayout(blocks', W, frames', cur')
        BY <2>3, <3>1, OpenIfFed
      <3>. QED
        BY <3>1, <3>2, <3>3, FedNext
    <2>4. CASE s.s = "while" /\ More /\ OpenWhile(s)
      <3>1. Lower(s) /\ status = "lowering" /\ status' = "lowering" /\ s.s \in Opening
        BY <2>4 DEF OpenWhile, Open, Lower, Opening
      <3>2. \A V : Hoisted' /\ LaidOut(V, blocks, frames, ctx, cur) => DominanceStep(V)
        BY <2>4, OpenWhileDominance
      <3>3. \A V, W : /\ LaidOut(V, blocks, frames, ctx, cur) /\ FedLayout(blocks, V, frames, cur)
                      /\ frames = <<>> /\ KeepsScope(blocks, V, W, cur)
                      => FedLayout(blocks', W, frames', cur')
        BY <2>4, <3>1, OpenWhileFed
      <3>. QED
        BY <3>1, <3>2, <3>3, FedNext
    <2>5. CASE s.s = "for" /\ More /\ OpenFor(s)
      <3>1. Lower(s) /\ status = "lowering" /\ status' = "lowering" /\ s.s \in Opening
        BY <2>5 DEF OpenFor, Open, Lower, Opening
      <3>2. \A V : Hoisted' /\ LaidOut(V, blocks, frames, ctx, cur) => DominanceStep(V)
        BY <2>5, OpenForDominance
      <3>3. \A V, W : /\ LaidOut(V, blocks, frames, ctx, cur) /\ FedLayout(blocks, V, frames, cur)
                      /\ frames = <<>> /\ KeepsScope(blocks, V, W, cur)
                      => FedLayout(blocks', W, frames', cur')
        BY <2>5, <3>1, OpenForFed
      <3>. QED
        BY <3>1, <3>2, <3>3, FedNext
    <2>6. CASE s.s = "else" /\ BeginElse(s)
      <3>1. Lower(s) /\ status = "lowering" /\ status' = "lowering"
        BY <2>6 DEF BeginElse, Lower
      <3>2. \A V : Hoisted' /\ LaidOut(V, blocks, frames, ctx, cur) => DominanceStep(V)
        BY <2>6, BeginElseDominance
      <3>3. \A V, W : /\ LaidOut(V, blocks, frames, ctx, cur) /\ FedLayout(blocks, V, frames, cur)
                      /\ KeepsScope(blocks, V, W, cur)
                      => FedLayout(blocks', W, frames', cur')
        BY <2>6, <3>1, BeginElseFed
      <3>. QED
        BY <3>1, <3>2, <3>3, FedNext
    <2>7. CASE s.s = "end" /\ CloseIf(s)
      <3>1. Lower(s) /\ status = "lowering" /\ status' = "lowering"
        BY <2>7 DEF CloseIf, Lower
      <3>2. \A V : Hoisted' /\ LaidOut(V, blocks, frames, ctx, cur) => DominanceStep(V)
        BY <2>7, CloseIfDominance
      <3>3. \A V, W : /\ LaidOut(V, blocks, frames, ctx, cur) /\ FedLayout(blocks, V, frames, cur)
                      /\ KeepsScope(blocks, V, W, cur)
                      => FedLayout(blocks', W, frames', cur')
        BY <2>7, <3>1, CloseIfFed
      <3>. QED
        BY <3>1, <3>2, <3>3, FedNext
    <2>8. CASE s.s = "end" /\ CloseLoop(s)
      <3>1. Lower(s) /\ status = "lowering" /\ status' = "lowering"
        BY <2>8 DEF CloseLoop, Lower
      <3>2. \A V : Hoisted' /\ LaidOut(V, blocks, frames, ctx, cur) => DominanceStep(V)
        BY <2>8, CloseLoopDominance
      <3>3. \A V, W : /\ LaidOut(V, blocks, frames, ctx, cur) /\ FedLayout(blocks, V, frames, cur)
                      /\ KeepsScope(blocks, V, W, cur)
                      => FedLayout(blocks', W, frames', cur')
        BY <2>8, <3>1, CloseLoopFed
      <3>. QED
        BY <3>1, <3>2, <3>3, FedNext
    <2>9. CASE Raise(s)
      <3>1. status' = "rejected"
        BY <2>9 DEF Raise
      <3>. QED
        BY <3>1 DEF PhisInv, Done
    <2>. QED
      BY <1>3, <2>1, <2>2, <2>3, <2>4, <2>5, <2>6, <2>7, <2>8, <2>9 DEF Lowers
  <1>. QED
    BY <1>1, <1>2, <1>3 DEF Next

LEMMA PhisInvInit == Init => PhisInv
  <1>. SUFFICES ASSUME Init PROVE PhisInv
    OBVIOUS
  <1>1. /\ status = "lowering" /\ frames = <<>> /\ cur = Entry
        /\ blocks = [l \in {Entry} |-> NewBlock]
    BY DEF Init
  <1>2. DOMAIN blocks = {Entry} /\ blocks[Entry].nodes = <<>> /\ blocks[Entry].term = NoTerm
    BY <1>1 DEF NewBlock
  <1>3. \A V : AllFed(blocks, V)
    BY <1>2, NewIsFed DEF AllFed
  <1>4. \A V : FedLayout(blocks, V, frames, cur)
    BY <1>1, <1>2, <1>3, NoFrame
  <1>5. Hoisted => \E V : LaidOut(V, blocks, frames, ctx, cur)
    BY <1>1, DominanceInvInit DEF DominanceInv
  <1>6. ~Done
    BY <1>1 DEF Done
  <1>. QED
    BY <1>3, <1>4, <1>5, <1>6 DEF PhisInv, Regular

\* Of a program that neither nests its ifs and loops nor returns early, every
\* phi of a finished function has one value for each predecessor of its block,
\* defined on every path to where the edge leaves: the labels that
\* _merge_env_with_phi and _lower_while write before the branches are lowered
\* are still those of the blocks that jump there.
THEOREM LoweringFeedsPhis == Spec => []FlatProgramsPhis
  <1>1. Spec => []PhisInv
    BY PhisInvInit, PhisInvNext, LoweringIsSound, LoweringKeepsScopes, PTL DEF Spec
  <1>2. LoweringInv /\ PhisInv => FlatProgramsPhis
    <2> SUFFICES ASSUME LoweringInv, PhisInv, Done, Hoisted, Flat, ReturnsLast
                 PROVE  PhisMatchPreds(blocks, Args)
      BY DEF FlatProgramsPhis
    <2>1. PICK V : Scoped(blocks, V) /\ AllFed(blocks, V)
      BY DEF PhisInv, Regular
    <2>2. CodeInv(blocks, ctx)
      BY InvFacts DEF IRInv
    <2>3. SUFFICES ASSUME NEW l \in DOMAIN blocks, NEW n \in Range(blocks[l].nodes), n.op = "phi"
                   PROVE  /\ DOMAIN n.inc = Preds(blocks, l)
                          /\ \A p \in DOMAIN n.inc :
                               Available(blocks, Args, n.inc[p], p, Len(blocks[p].nodes) + 1)
      BY DEF PhisMatchPreds
    <2>4. DOMAIN n.inc = Preds(blocks, l) /\ \A p \in DOMAIN n.inc : n.inc[p] \in Avail(blocks, V, p)
      BY <2>1, <2>3 DEF AllFed, PhisFed
    <2>5. Range(n.inc) \subseteq KnownIn(blocks)
      <3>1. \A i \in 1 .. Len(blocks[l].nodes) : IsNode(blocks[l].nodes[i], KnownIn(blocks))
        BY <2>2 DEF CodeInv, IsCode
      <3>2. DOMAIN blocks[l].nodes = 1 .. Len(blocks[l].nodes)
        BY <2>2 DEF CodeInv, IsCode
      <3>. QED
        BY <2>3, <3>1, <3>2 DEF IsNode, Range
    <2>6. ASSUME NEW p \in DOMAIN n.inc
          PROVE  Available(blocks, Args, n.inc[p], p, Len(blocks[p].nodes) + 1)
      <3> DEFINE v == n.inc[p]
                 k == Len(blocks[p].nodes)
      <3>1. p \in DOMAIN blocks /\ v \in KnownIn(blocks) /\ v \in Avail(blocks, V, p)
        BY <2>4, <2>5 DEF Preds, Range
      <3>2. k \in Nat
        BY <2>2, <3>1 DEF CodeInv, IsCode
      <3>. HIDE DEF v
      <3>3. v \in V[p] \/ \E j \in 1 .. k : v \in blocks[p].nodes[j].res
        BY <2>2, <3>1, DefinedIn DEF Avail
      <3>4. k + 1 \in Nat /\ 1 .. (k + 1) - 1 = 1 .. k
        BY <3>2
      <3>. HIDE DEF k
      <3>5. Available(blocks, Args, v, p, k + 1)
        BY <2>1, <3>1, <3>3, <3>4, ScopedIsAvailable
      <3>. QED
        BY <3>5 DEF k, v
    <2>. QED
      BY <2>4, <2>6
  <1>. QED
    BY <1>1, <1>2, LoweringIsSound, PTL
=============================================================================
