---------------------------- MODULE Compiler_proofs ----------------------------
(***************************************************************************)
(* For every program, every selection of passes and every signature: the     *)
(* passes keep what LLVM accepts and what a function returns, and the sweeps  *)
(* over the nodes of the IR are those of DeadCode.tla.                        *)
(***************************************************************************)
EXTENDS Compiler, Lowering_proofs

-----------------------------------------------------------------------------
(* Blocks are functions: two that agree on every label are equal. *)

IsFcn(f) == f = [x \in DOMAIN f |-> f[x]]
AreFunctions(bs) == IsFcn(bs) /\ \A l \in DOMAIN bs : IsFcn(bs[l])

LEMMA SameFunction ==
  ASSUME NEW f, NEW g, IsFcn(f), IsFcn(g), DOMAIN f = DOMAIN g, \A x \in DOMAIN f : f[x] = g[x]
  PROVE  f = g
  BY DEF IsFcn

LEMMA SetBlock ==
  ASSUME NEW bs, AreFunctions(bs), NEW l, NEW b, IsFcn(b)
  PROVE  AreFunctions([bs EXCEPT ![l] = b])
  <1> DEFINE cs == [bs EXCEPT ![l] = b]
  <1>1. /\ IsFcn(cs) /\ DOMAIN cs = DOMAIN bs
        /\ \A x \in DOMAIN bs : cs[x] = IF x = l THEN b ELSE bs[x]
    BY DEF IsFcn
  <1>. HIDE DEF cs
  <1>2. AreFunctions(cs)
    BY <1>1 DEF AreFunctions
  <1>. QED
    BY <1>2 DEF cs

LEMMA SetField ==
  ASSUME NEW b, NEW x, NEW y
  PROVE  /\ IsFcn([b EXCEPT !.nodes = x]) /\ IsFcn([b EXCEPT !.term = x])
         /\ IsFcn([b EXCEPT !.nodes = x, !.term = y])
         /\ IsFcn([nodes |-> x, term |-> y])
  BY DEF IsFcn

LEMMA SetNodes ==
  ASSUME NEW bs, AreFunctions(bs), NEW l, NEW x, NEW y
  PROVE  /\ AreFunctions([bs EXCEPT ![l].nodes = x])
         /\ AreFunctions([bs EXCEPT ![l].term = y])
         /\ AreFunctions([bs EXCEPT ![l].nodes = x, ![l].term = y])
  <1>1. AreFunctions([bs EXCEPT ![l].nodes = x])
    <2>1. AreFunctions([bs EXCEPT ![l] = [bs[l] EXCEPT !.nodes = x]])
      BY SetField, SetBlock
    <2>. QED
      BY <2>1
  <1>2. ASSUME NEW cs, AreFunctions(cs) PROVE AreFunctions([cs EXCEPT ![l].term = y])
    <2>1. AreFunctions([cs EXCEPT ![l] = [cs[l] EXCEPT !.term = y]])
      BY <1>2, SetField, SetBlock
    <2>. QED
      BY <2>1
  <1>3. AreFunctions([[bs EXCEPT ![l].nodes = x] EXCEPT ![l].term = y])
    BY <1>1, <1>2
  <1>4. AreFunctions([bs EXCEPT ![l].nodes = x, ![l].term = y])
    BY <1>3
  <1>. QED
    BY <1>1, <1>2, <1>4

-----------------------------------------------------------------------------
(* What a pass may do to the blocks of a function. *)

Folds == Arith \cup Compares \cup {"id"}

\* A node stays as it is, or an operation becomes a constant of the same name.
Simplifies(n, m) ==
  \/ m = n
  \/ /\ n.op \in Folds
     /\ m.op = "const" /\ m.args = <<>> /\ m.inc = <<>> /\ m.res = n.res

\* The nodes new come from the nodes old at the positions e, in their order; what
\* defines one of names is among them.
Embeds(e, old, new, names) ==
  /\ e \in [1 .. Len(new) -> 1 .. Len(old)]
  /\ \A i, j \in 1 .. Len(new) : i < j => e[i] < e[j]
  /\ \A i \in 1 .. Len(new) : Simplifies(old[e[i]], new[i])
  /\ \A j \in 1 .. Len(old) :
       ResNames(old[j]) \cap names # {} => \E i \in 1 .. Len(new) : e[i] = j

SameGraph(bs, cs) ==
  DOMAIN cs = DOMAIN bs /\ \A l \in DOMAIN bs : cs[l].term = bs[l].term

Refines(bs, cs) ==
  /\ SameGraph(bs, cs)
  /\ \A l \in DOMAIN bs : \E e : Embeds(e, bs[l].nodes, cs[l].nodes, ReadNames(bs))

\* The nodes of a block are a sequence; one that may be dropped has one result.
OneResult(n) ==
  /\ \A v, w \in n.res : v = w
  /\ n.op \in Droppable => n.res # {}

Ready(bs) ==
  /\ AreFunctions(bs)
  /\ \A l \in DOMAIN bs : /\ DOMAIN bs[l] = {"nodes", "term"}
                          /\ bs[l].nodes \in Seq(Range(bs[l].nodes))
                          /\ \A n \in Range(bs[l].nodes) : OneResult(n)

HasPositions(nodes) ==
  /\ Len(nodes) \in Nat /\ DOMAIN nodes = 1 .. Len(nodes)
  /\ \A i \in 1 .. Len(nodes) : nodes[i] \in Range(nodes)
  /\ \A n \in Range(nodes) : \E i \in 1 .. Len(nodes) : nodes[i] = n

LEMMA Positioned ==
  ASSUME NEW bs, Ready(bs), NEW l \in DOMAIN bs
  PROVE  HasPositions(bs[l].nodes)
  <1>1. bs[l].nodes \in Seq(Range(bs[l].nodes))
    BY DEF Ready
  <1>. QED
    BY <1>1 DEF Range, HasPositions

\* The names that nodes and terminators read are those collected.
LEMMA ReadIsNamed ==
  ASSUME NEW bs, NEW l \in DOMAIN bs, NEW v
  PROVE  /\ v \in Range(bs[l].term.uses) => v.name \in ReadNames(bs)
         /\ \A n \in Range(bs[l].nodes) :
              v \in Range(n.args) \cup Range(n.inc) => v.name \in ReadNames(bs)
  BY DEF ReadNames, NamesOf

-----------------------------------------------------------------------------
(* Whatever refines an accepted function is accepted. *)

\* What control reaches depends on the terminators only.
LEMMA GraphStays ==
  ASSUME NEW bs, NEW cs, SameGraph(bs, cs)
  PROVE  /\ \A l \in DOMAIN bs : Succ(cs, l) = Succ(bs, l) /\ Preds(cs, l) = Preds(bs, l)
         /\ \A avoid : Reach(cs, avoid) = Reach(bs, avoid)
         /\ \A d, l : Dominates(cs, d, l) <=> Dominates(bs, d, l)
  <1>1. \A l \in DOMAIN bs : Succ(cs, l) = Succ(bs, l)
    BY DEF SameGraph, Succ
  <1>2. [l \in DOMAIN cs |-> Succ(cs, l)] = [l \in DOMAIN bs |-> Succ(bs, l)]
    BY <1>1 DEF SameGraph
  <1>3. \A avoid : Reach(cs, avoid) = Reach(bs, avoid)
    BY <1>2 DEF Reach
  <1>. QED
    BY <1>1, <1>3 DEF Preds, Dominates, SameGraph

\* Before a phi there are only phis.
LEMMA PhisBefore ==
  ASSUME NEW bs, Ready(bs), PhisLead(bs), NEW l \in DOMAIN bs
  PROVE  \A i, j \in 1 .. Len(bs[l].nodes) :
           i < j /\ bs[l].nodes[j].op = "phi" => bs[l].nodes[i].op = "phi"
  <1> DEFINE nodes == bs[l].nodes
             n == Len(nodes)
  <1>1. n \in Nat
    BY Positioned DEF HasPositions
  <1>2. \A i \in 2 .. n : nodes[i].op = "phi" => nodes[i - 1].op = "phi"
    BY DEF PhisLead
  <1>. HIDE DEF nodes, n
  <1> SUFFICES ASSUME NEW j \in 1 .. n, nodes[j].op = "phi"
               PROVE  \A i \in 1 .. n : i < j => nodes[i].op = "phi"
    BY DEF nodes, n
  <1> DEFINE S == {k \in Nat : k < j => nodes[j - k].op = "phi"}
  <1>3. 0 \in S
    BY <1>1
  <1>4. \A k \in 0 .. n - 1 : k \in S => k + 1 \in S
    <2> SUFFICES ASSUME NEW k \in 0 .. n - 1, k \in S, k + 1 < j PROVE nodes[j - (k + 1)].op = "phi"
      BY <1>1
    <2>1. nodes[j - k].op = "phi" /\ j - k \in 2 .. n /\ (j - k) - 1 = j - (k + 1)
      BY <1>1
    <2>. QED
      BY <1>2, <2>1
  <1>. HIDE DEF S
  <1>5. \A k \in 0 .. n : k \in S
    BY <1>1, <1>3, <1>4, Kept!Induction
  <1> SUFFICES ASSUME NEW i \in 1 .. n, i < j PROVE nodes[i].op = "phi"
    OBVIOUS
  <1>6. j - i \in 0 .. n /\ j - i < j /\ j - (j - i) = i
    BY <1>1
  <1>7. j - i \in S
    BY <1>5, <1>6
  <1>. QED
    BY <1>6, <1>7 DEF S

Placed(at, bs, cs) ==
  /\ Ready(bs) /\ Ready(cs) /\ SameGraph(bs, cs)
  /\ \A l \in DOMAIN bs : Embeds(at[l], bs[l].nodes, cs[l].nodes, ReadNames(bs))

LEMMA PlacesExist ==
  ASSUME NEW bs, NEW cs, Ready(bs), Ready(cs), Refines(bs, cs)
  PROVE  \E at : Placed(at, bs, cs)
  <1> DEFINE at == [l \in DOMAIN bs |->
                      CHOOSE e : Embeds(e, bs[l].nodes, cs[l].nodes, ReadNames(bs))]
  <1>1. \A l \in DOMAIN bs : Embeds(at[l], bs[l].nodes, cs[l].nodes, ReadNames(bs))
    BY DEF Refines
  <1>. QED
    BY <1>1 DEF Placed, Refines

LEMMA PlacedFacts ==
  ASSUME NEW at, NEW bs, NEW cs, Placed(at, bs, cs), NEW l \in DOMAIN bs
  PROVE  /\ l \in DOMAIN cs /\ cs[l].term = bs[l].term
         /\ HasPositions(bs[l].nodes) /\ HasPositions(cs[l].nodes)
         /\ Embeds(at[l], bs[l].nodes, cs[l].nodes, ReadNames(bs))
  <1>1. /\ Ready(bs) /\ Ready(cs) /\ l \in DOMAIN cs /\ cs[l].term = bs[l].term
        /\ Embeds(at[l], bs[l].nodes, cs[l].nodes, ReadNames(bs))
    BY DEF Placed, SameGraph
  <1>. QED
    BY <1>1, Positioned

\* A node of cs and the node of bs it comes from.
LEMMA Origin ==
  ASSUME NEW at, NEW bs, NEW cs, Placed(at, bs, cs), NEW l \in DOMAIN bs,
         NEW i \in 1 .. Len(cs[l].nodes)
  PROVE  /\ at[l][i] \in 1 .. Len(bs[l].nodes)
         /\ bs[l].nodes[at[l][i]] \in Range(bs[l].nodes)
         /\ Simplifies(bs[l].nodes[at[l][i]], cs[l].nodes[i])
         /\ cs[l].nodes[i].res = bs[l].nodes[at[l][i]].res
         /\ Range(cs[l].nodes[i].args) \subseteq Range(bs[l].nodes[at[l][i]].args)
         /\ Range(cs[l].nodes[i].inc) \subseteq Range(bs[l].nodes[at[l][i]].inc)
  <1> DEFINE n == bs[l].nodes[at[l][i]]
             m == cs[l].nodes[i]
  <1>1. at[l][i] \in 1 .. Len(bs[l].nodes) /\ Simplifies(n, m)
    BY PlacedFacts DEF Embeds
  <1>2. n \in Range(bs[l].nodes)
    BY <1>1, PlacedFacts DEF HasPositions
  <1>. HIDE DEF n, m
  <1>3. Range(<<>>) = {}
    BY DEF Range
  <1>4. m.res = n.res /\ Range(m.args) \subseteq Range(n.args) /\ Range(m.inc) \subseteq Range(n.inc)
    BY <1>1, <1>3 DEF Simplifies
  <1>. QED
    BY <1>1, <1>2, <1>4 DEF n, m

\* A value that bs reads is defined at the same place of cs.
LEMMA DefinitionStays ==
  ASSUME NEW at, NEW bs, NEW cs, Placed(at, bs, cs), NEW l \in DOMAIN bs,
         NEW j \in 1 .. Len(bs[l].nodes), NEW v \in bs[l].nodes[j].res,
         v.name \in ReadNames(bs)
  PROVE  \E i \in 1 .. Len(cs[l].nodes) : at[l][i] = j /\ v \in cs[l].nodes[i].res
  <1>1. v.name \in ResNames(bs[l].nodes[j]) \cap ReadNames(bs)
    BY DEF ResNames
  <1>2. PICK i \in 1 .. Len(cs[l].nodes) : at[l][i] = j
    BY <1>1, PlacedFacts DEF Embeds
  <1>3. cs[l].nodes[i].res = bs[l].nodes[at[l][i]].res
    BY Origin
  <1>. QED
    BY <1>2, <1>3

LEMMA DefsStay ==
  ASSUME NEW at, NEW bs, NEW cs, Placed(at, bs, cs), NEW l \in DOMAIN bs,
         NEW v \in Defs(bs[l]), v.name \in ReadNames(bs)
  PROVE  v \in Defs(cs[l])
  <1>1. PICK j \in 1 .. Len(bs[l].nodes) : v \in bs[l].nodes[j].res
    <2>1. PICK n \in Range(bs[l].nodes) : v \in n.res
      BY DEF Defs
    <2>2. HasPositions(bs[l].nodes)
      BY PlacedFacts
    <2>. QED
      BY <2>1, <2>2 DEF HasPositions
  <1>2. PICK i \in 1 .. Len(cs[l].nodes) : v \in cs[l].nodes[i].res
    BY <1>1, DefinitionStays
  <1>3. cs[l].nodes[i] \in Range(cs[l].nodes)
    BY PlacedFacts DEF HasPositions
  <1>. QED
    BY <1>2, <1>3 DEF Defs

\* What is available where it is read stays so.
LEMMA AvailableStays ==
  ASSUME NEW at, NEW bs, NEW cs, Placed(at, bs, cs), NEW l \in DOMAIN bs, NEW args,
         NEW v, v.name \in ReadNames(bs), NEW i \in 1 .. Len(cs[l].nodes) + 1,
         Available(bs, args, v, l, IF i <= Len(cs[l].nodes) THEN at[l][i]
                                   ELSE Len(bs[l].nodes) + 1)
  PROVE  Available(cs, args, v, l, i)
  <1> DEFINE n == Len(bs[l].nodes)
             m == Len(cs[l].nodes)
             e == at[l]
             p == IF i <= m THEN e[i] ELSE n + 1
  <1>1. n \in Nat /\ m \in Nat
    BY PlacedFacts DEF HasPositions
  <1>2. e \in [1 .. m -> 1 .. n] /\ \A a, b \in 1 .. m : a < b => e[a] < e[b]
    BY PlacedFacts DEF Embeds
  <1>3. CASE v \in Range(args)
    BY <1>3 DEF Available
  <1>4. ASSUME NEW j \in 1 .. p - 1, v \in bs[l].nodes[j].res
        PROVE  \E k \in 1 .. i - 1 : v \in cs[l].nodes[k].res
    <2>1. p \in 1 .. n + 1 /\ j \in 1 .. n
      BY <1>1, <1>2
    <2>2. PICK k \in 1 .. m : e[k] = j /\ v \in cs[l].nodes[k].res
      BY <1>4, <2>1, DefinitionStays
    <2>3. k < i
      <3>. HIDE DEF n, m, e
      <3>1. CASE i <= m
        <4>1. i \in 1 .. m /\ e[i] \in 1 .. n /\ e[k] \in 1 .. n /\ e[k] < e[i]
          BY <1>1, <1>2, <2>2, <3>1
        <4>2. ~(i = k) /\ ~(i < k)
          BY <1>1, <1>2, <4>1
        <4>. QED
          BY <1>1, <4>1, <4>2
      <3>2. CASE ~(i <= m)
        BY <1>1, <2>2, <3>2 DEF m
      <3>. QED
        BY <3>1, <3>2
    <2>. QED
      BY <1>1, <2>2, <2>3
  <1>5. ASSUME NEW d \in DOMAIN bs \ {l}, v \in Defs(bs[d]), Dominates(bs, d, l)
        PROVE  d \in DOMAIN cs \ {l} /\ v \in Defs(cs[d]) /\ Dominates(cs, d, l)
    BY <1>5, DefsStay, GraphStays DEF Placed, SameGraph
  <1>6. Available(bs, args, v, l, p)
    OBVIOUS
  <1>. HIDE DEF p, n, m, e
  <1>. QED
    BY <1>3, <1>4, <1>5, <1>6 DEF Available

LEMMA DefinitionsStaySingle ==
  ASSUME NEW at, NEW bs, NEW cs, Placed(at, bs, cs), NEW args, SingleDefinitions(bs, args)
  PROVE  SingleDefinitions(cs, args)
  <1> DEFINE Sites(ds) == UNION {{<<l, i>> : i \in DOMAIN ds[l].nodes} : l \in DOMAIN ds}
             NamesAt(ds, s) == {v.name : v \in ds[s[1]].nodes[s[2]].res}
             from(s) == <<s[1], at[s[1]][s[2]]>>
  <1>1. /\ \A s, t \in Sites(bs) : s # t => NamesAt(bs, s) \cap NamesAt(bs, t) = {}
        /\ \A s \in Sites(bs) : NamesAt(bs, s) \cap {v.name : v \in Range(args)} = {}
    BY DEF SingleDefinitions
  <1>2. ASSUME NEW s \in Sites(cs)
        PROVE  /\ s = <<s[1], s[2]>> /\ s[1] \in DOMAIN bs /\ s[2] \in 1 .. Len(cs[s[1]].nodes)
               /\ from(s) \in Sites(bs) /\ NamesAt(bs, from(s)) = NamesAt(cs, s)
    <2>1. PICK l \in DOMAIN cs : s \in {<<l, i>> : i \in DOMAIN cs[l].nodes}
      OBVIOUS
    <2>2. PICK i \in DOMAIN cs[l].nodes : s = <<l, i>>
      BY <2>1
    <2>3. l \in DOMAIN bs
      BY DEF Placed, SameGraph
    <2>4. i \in 1 .. Len(cs[l].nodes)
      BY <2>2, <2>3, PlacedFacts DEF HasPositions
    <2>5. at[l][i] \in DOMAIN bs[l].nodes
      BY <2>3, <2>4, Origin, PlacedFacts DEF HasPositions
    <2>6. bs[l].nodes[at[l][i]].res = cs[l].nodes[i].res
      BY <2>3, <2>4, Origin
    <2>. QED
      BY <2>2, <2>3, <2>4, <2>5, <2>6
  <1>3. ASSUME NEW s \in Sites(cs), NEW t \in Sites(cs), s # t
        PROVE  from(s) # from(t)
    <2>1. CASE s[1] # t[1]
      BY <2>1
    <2>2. CASE s[1] = t[1]
      <3> DEFINE l == s[1]
                 m == Len(cs[l].nodes)
                 e == at[l]
      <3>1. l \in DOMAIN bs /\ s[2] \in 1 .. m /\ t[2] \in 1 .. m /\ s[2] # t[2]
        BY <1>2, <1>3, <2>2
      <3>2. m \in Nat /\ e \in [1 .. m -> 1 .. Len(bs[l].nodes)] /\ Len(bs[l].nodes) \in Nat
            /\ \A a, b \in 1 .. m : a < b => e[a] < e[b]
        BY <3>1, PlacedFacts DEF HasPositions, Embeds
      <3>3. s[2] < t[2] \/ t[2] < s[2]
        BY <3>1, <3>2
      <3>. HIDE DEF m, e, Sites
      <3>4. e[s[2]] # e[t[2]]
        BY <3>1, <3>2, <3>3
      <3>. QED
        BY <2>2, <3>4 DEF e
    <2>. QED
      BY <2>1, <2>2
  <1>. HIDE DEF from
  <1>4. \A s, t \in Sites(cs) : s # t => NamesAt(cs, s) \cap NamesAt(cs, t) = {}
    BY <1>1, <1>2, <1>3
  <1>5. \A s \in Sites(cs) : NamesAt(cs, s) \cap {v.name : v \in Range(args)} = {}
    BY <1>1, <1>2
  <1>. QED
    BY <1>4, <1>5 DEF SingleDefinitions

LEMMA UsesStayDefined ==
  ASSUME NEW at, NEW bs, NEW cs, Placed(at, bs, cs), NEW args, UsesDefined(bs, args)
  PROVE  UsesDefined(cs, args)
  <1> DEFINE Defined(ds) == Range(args) \cup UNION {Defs(ds[l]) : l \in DOMAIN ds}
  <1>1. ASSUME NEW v \in Defined(bs), v.name \in ReadNames(bs) PROVE v \in Defined(cs)
    BY <1>1, DefsStay DEF Placed, SameGraph
  <1>2. \A l \in DOMAIN bs :
          /\ Range(bs[l].term.uses) \subseteq Defined(bs)
          /\ \A n \in Range(bs[l].nodes) : Range(n.args) \cup Range(n.inc) \subseteq Defined(bs)
    BY DEF UsesDefined
  <1>. HIDE DEF Defined
  <1>3. ASSUME NEW l \in DOMAIN bs
        PROVE  /\ Range(cs[l].term.uses) \subseteq Defined(cs)
               /\ \A n \in Range(cs[l].nodes) :
                    Range(n.args) \cup Range(n.inc) \subseteq Defined(cs)
    <2>1. Range(cs[l].term.uses) \subseteq Defined(cs)
      BY <1>1, <1>2, ReadIsNamed DEF Placed, SameGraph
    <2>2. ASSUME NEW n \in Range(cs[l].nodes), NEW v \in Range(n.args) \cup Range(n.inc)
          PROVE  v \in Defined(cs)
      <3>0. HasPositions(cs[l].nodes)
        BY PlacedFacts
      <3>1. PICK i \in 1 .. Len(cs[l].nodes) : n = cs[l].nodes[i]
        BY <3>0 DEF HasPositions
      <3>2. /\ bs[l].nodes[at[l][i]] \in Range(bs[l].nodes)
            /\ v \in Range(bs[l].nodes[at[l][i]].args) \cup Range(bs[l].nodes[at[l][i]].inc)
        BY <2>2, <3>1, Origin
      <3>3. v.name \in ReadNames(bs) /\ v \in Defined(bs)
        BY <1>2, <3>2, ReadIsNamed
      <3>. QED
        BY <1>1, <3>3
    <2>. QED
      BY <2>1, <2>2
  <1>. QED
    BY <1>3 DEF Defined, UsesDefined, Placed, SameGraph

LEMMA UsesStayDominated ==
  ASSUME NEW at, NEW bs, NEW cs, Placed(at, bs, cs), NEW args, DefsDominateUses(bs, args)
  PROVE  DefsDominateUses(cs, args)
  <1>0. SameGraph(bs, cs)
    BY DEF Placed
  <1> SUFFICES ASSUME NEW l \in DOMAIN cs, l \in Reach(cs, {})
      PROVE /\ \A i \in DOMAIN cs[l].nodes : \A v \in Range(cs[l].nodes[i].args) :
                 Available(cs, args, v, l, i)
            /\ \A v \in Range(cs[l].term.uses) :
                 Available(cs, args, v, l, Len(cs[l].nodes) + 1)
    BY DEF DefsDominateUses
  <1> DEFINE n == Len(bs[l].nodes)
             m == Len(cs[l].nodes)
             e == at[l]
  <1>1. l \in DOMAIN bs /\ l \in Reach(bs, {})
    BY <1>0, GraphStays DEF SameGraph
  <1>2. /\ \A i \in DOMAIN bs[l].nodes : \A v \in Range(bs[l].nodes[i].args) :
             Available(bs, args, v, l, i)
        /\ \A v \in Range(bs[l].term.uses) : Available(bs, args, v, l, n + 1)
    BY <1>1 DEF DefsDominateUses
  <1>3. HasPositions(bs[l].nodes) /\ HasPositions(cs[l].nodes) /\ cs[l].term = bs[l].term
    BY <1>1, PlacedFacts
  <1>4. /\ n \in Nat /\ m \in Nat /\ DOMAIN cs[l].nodes = 1 .. m /\ DOMAIN bs[l].nodes = 1 .. n
    BY <1>3 DEF HasPositions
  <1>5. ASSUME NEW i \in DOMAIN cs[l].nodes, NEW v \in Range(cs[l].nodes[i].args)
        PROVE  Available(cs, args, v, l, i)
    <2>1. i \in 1 .. m /\ i \in 1 .. m + 1 /\ i <= m
      BY <1>4
    <2>2. /\ e[i] \in 1 .. n /\ bs[l].nodes[e[i]] \in Range(bs[l].nodes)
          /\ v \in Range(bs[l].nodes[e[i]].args)
      BY <1>1, <2>1, Origin
    <2>3. v.name \in ReadNames(bs)
      BY <1>1, <2>2, ReadIsNamed
    <2>4. Available(bs, args, v, l, e[i])
      BY <1>2, <1>4, <2>2
    <2>. QED
      BY <1>1, <2>1, <2>3, <2>4, AvailableStays
  <1>6. ASSUME NEW v \in Range(cs[l].term.uses)
        PROVE  Available(cs, args, v, l, m + 1)
    <2>1. m + 1 \in 1 .. m + 1 /\ ~(m + 1 <= m)
      BY <1>4
    <2>2. v.name \in ReadNames(bs)
      BY <1>1, <1>3, ReadIsNamed
    <2>3. Available(bs, args, v, l, n + 1)
      BY <1>2, <1>3
    <2>. QED
      BY <1>1, <2>1, <2>2, <2>3, AvailableStays
  <1>. QED
    BY <1>5, <1>6

LEMMA PhisStayFirst ==
  ASSUME NEW at, NEW bs, NEW cs, Placed(at, bs, cs), PhisLead(bs)
  PROVE  PhisLead(cs)
  <1> SUFFICES ASSUME NEW l \in DOMAIN cs, NEW i \in 2 .. Len(cs[l].nodes),
                      cs[l].nodes[i].op = "phi"
               PROVE  cs[l].nodes[i - 1].op = "phi"
    BY DEF PhisLead
  <1> DEFINE m == Len(cs[l].nodes)
             e == at[l]
  <1>1. l \in DOMAIN bs /\ Ready(bs)
    BY DEF Placed, SameGraph
  <1>2. m \in Nat /\ \A a, b \in 1 .. m : a < b => e[a] < e[b]
    BY <1>1, PlacedFacts DEF HasPositions, Embeds
  <1>3. i \in 1 .. m /\ i - 1 \in 1 .. m /\ i - 1 < i
    BY <1>2
  <1>4. /\ e[i] \in 1 .. Len(bs[l].nodes) /\ Simplifies(bs[l].nodes[e[i]], cs[l].nodes[i])
        /\ e[i - 1] \in 1 .. Len(bs[l].nodes)
        /\ Simplifies(bs[l].nodes[e[i - 1]], cs[l].nodes[i - 1])
        /\ e[i - 1] < e[i]
    BY <1>1, <1>2, <1>3, Origin
  <1>5. bs[l].nodes[e[i]].op = "phi"
    BY <1>4 DEF Simplifies
  <1>6. bs[l].nodes[e[i - 1]].op = "phi"
    BY <1>1, <1>4, <1>5, PhisBefore
  <1>. QED
    BY <1>4, <1>6 DEF Simplifies, Folds, Arith, Compares

LEMMA PhisStayMatched ==
  ASSUME NEW at, NEW bs, NEW cs, Placed(at, bs, cs), NEW args, PhisMatchPreds(bs, args)
  PROVE  PhisMatchPreds(cs, args)
  <1>0. SameGraph(bs, cs)
    BY DEF Placed
  <1> SUFFICES ASSUME NEW l \in DOMAIN cs, NEW x \in Range(cs[l].nodes), x.op = "phi"
               PROVE  /\ DOMAIN x.inc = Preds(cs, l)
                      /\ \A p \in DOMAIN x.inc \cap Reach(cs, {}) :
                           Available(cs, args, x.inc[p], p, Len(cs[p].nodes) + 1)
    BY DEF PhisMatchPreds
  <1>1. l \in DOMAIN bs
    BY <1>0 DEF SameGraph
  <1>2. HasPositions(cs[l].nodes)
    BY <1>1, PlacedFacts
  <1>3. PICK i \in 1 .. Len(cs[l].nodes) : cs[l].nodes[i] = x
    BY <1>2 DEF HasPositions
  <1>4. x \in Range(bs[l].nodes)
    <2>1. /\ Simplifies(bs[l].nodes[at[l][i]], x)
          /\ bs[l].nodes[at[l][i]] \in Range(bs[l].nodes)
      BY <1>1, <1>3, Origin
    <2>. QED
      BY <2>1 DEF Simplifies
  <1>5. /\ DOMAIN x.inc = Preds(bs, l)
        /\ \A p \in DOMAIN x.inc \cap Reach(bs, {}) :
             Available(bs, args, x.inc[p], p, Len(bs[p].nodes) + 1)
    BY <1>1, <1>4 DEF PhisMatchPreds
  <1>6. DOMAIN x.inc = Preds(cs, l) /\ Reach(cs, {}) = Reach(bs, {})
    BY <1>0, <1>1, <1>5, GraphStays
  <1>7. ASSUME NEW p \in DOMAIN x.inc \cap Reach(cs, {})
        PROVE  Available(cs, args, x.inc[p], p, Len(cs[p].nodes) + 1)
    <2>1. p \in DOMAIN bs /\ Available(bs, args, x.inc[p], p, Len(bs[p].nodes) + 1)
      BY <1>5, <1>6 DEF Preds
    <2>2. x.inc[p].name \in ReadNames(bs)
      <3>1. x.inc[p] \in Range(x.inc)
        BY DEF Range
      <3>. QED
        BY <1>1, <1>4, <3>1, ReadIsNamed
    <2>3. HasPositions(cs[p].nodes)
      BY <2>1, PlacedFacts
    <2>4. Len(cs[p].nodes) + 1 \in 1 .. Len(cs[p].nodes) + 1
          /\ ~(Len(cs[p].nodes) + 1 <= Len(cs[p].nodes))
      BY <2>3 DEF HasPositions
    <2>. QED
      BY <2>1, <2>2, <2>4, AvailableStays
  <1>. QED
    BY <1>6, <1>7

\* Whatever refines a function that LLVM accepts is accepted.
NodeAccepted(n) ==
  MemoryTyped(n) /\ PhiTyped(n) /\ ArithTyped(n) /\ CallTyped(n, Sigs) /\ NodeComplete(n)

LEMMA RefinementIsAccepted ==
  ASSUME NEW bs, NEW cs, Ready(bs), Ready(cs), Refines(bs, cs), Accepted(bs)
  PROVE  Accepted(cs)
  <1>1. PICK at : Placed(at, bs, cs)
    BY PlacesExist
  <1>2. SameGraph(bs, cs)
    BY DEF Refines
  <1>3. /\ SingleDefinitions(bs, Args) /\ UsesDefined(bs, Args) /\ BlocksEnd(bs)
        /\ PhisLead(bs) /\ DefsDominateUses(bs, Args) /\ PhisMatchPreds(bs, Args)
    BY DEF Accepted, Verifies
  <1>4. SingleDefinitions(cs, Args)
    BY <1>1, <1>3, DefinitionsStaySingle
  <1>5. UsesDefined(cs, Args)
    BY <1>1, <1>3, UsesStayDefined
  <1>6. BlocksEnd(cs)
    BY <1>2, <1>3, GraphStays DEF BlocksEnd, SameGraph
  <1>7. PhisLead(cs)
    BY <1>1, <1>3, PhisStayFirst
  <1>8. DefsDominateUses(cs, Args)
    BY <1>1, <1>3, UsesStayDominated
  <1>9. PhisMatchPreds(cs, Args)
    BY <1>1, <1>3, PhisStayMatched
  <1>10. ASSUME NEW l \in DOMAIN cs
         PROVE  /\ ReturnTyped(cs[l].term, RetType)
                /\ cs[l].term.k = "br" => Types(cs[l].term.uses) = {"bool"}
                /\ TermComplete(cs[l].term)
                /\ \A n \in Range(cs[l].nodes) : NodeAccepted(n)
    <2>1. l \in DOMAIN bs /\ cs[l].term = bs[l].term
      BY <1>2 DEF SameGraph
    <2>2. /\ ReturnTyped(bs[l].term, RetType)
          /\ bs[l].term.k = "br" => Types(bs[l].term.uses) = {"bool"}
          /\ TermComplete(bs[l].term)
          /\ \A n \in Range(bs[l].nodes) : NodeAccepted(n)
      BY <2>1 DEF Accepted, Verifies, NodeAccepted
    <2>3. ASSUME NEW n \in Range(cs[l].nodes)
          PROVE  NodeAccepted(n)
      <3>1. HasPositions(cs[l].nodes)
        BY <1>1, <2>1, PlacedFacts
      <3>2. PICK i \in 1 .. Len(cs[l].nodes) : cs[l].nodes[i] = n
        BY <3>1 DEF HasPositions
      <3>3. /\ Simplifies(bs[l].nodes[at[l][i]], n)
            /\ bs[l].nodes[at[l][i]] \in Range(bs[l].nodes)
        BY <1>1, <2>1, <3>2, Origin
      <3>4. CASE n = bs[l].nodes[at[l][i]]
        BY <2>2, <3>3, <3>4
      <3>5. CASE n # bs[l].nodes[at[l][i]]
        <4> DEFINE o == bs[l].nodes[at[l][i]]
        <4>1. o.op \in Folds /\ n.op = "const" /\ n.res = o.res /\ NodeAccepted(o)
          BY <2>2, <3>3, <3>5 DEF Simplifies
        <4>. HIDE DEF o
        <4>2. ResTypes(n) \subseteq Scalars
          BY <4>1 DEF NodeAccepted, ArithTyped, MemoryTyped, ResTypes, Folds, Scalars, Compares, Arith
        <4>. QED
          BY <4>1, <4>2 DEF NodeAccepted, MemoryTyped, PhiTyped, ArithTyped, CallTyped,
                            NodeComplete, Arith, Compares
      <3>. QED
        BY <3>4, <3>5
    <2>. QED
      BY <2>1, <2>2, <2>3
  <1>. QED
    BY <1>4, <1>5, <1>6, <1>7, <1>8, <1>9, <1>10 DEF Accepted, Verifies, NodeAccepted

-----------------------------------------------------------------------------
(* A sweep refines the function. *)

\* r has the elements of the first n of seq that are in S, from the positions e.
Picks(e, seq, n, S, r) ==
  /\ e \in [1 .. Len(r) -> 1 .. n]
  /\ \A i, j \in 1 .. Len(r) : i < j => e[i] < e[j]
  /\ \A i \in 1 .. Len(r) : r[i] = seq[e[i]] /\ r[i] \in S
  /\ \A j \in 1 .. n : seq[j] \in S => \E i \in 1 .. Len(r) : e[i] = j
  /\ (\A j \in 1 .. n : seq[j] \in S) => Len(r) = n /\ \A j \in 1 .. n : r[j] = seq[j]

\* One element more, in S or not.
LEMMA PickOne ==
  ASSUME NEW T, NEW seq, NEW n \in Nat, seq[n + 1] \in T, NEW S, seq[n + 1] \in S,
         NEW r \in Seq(T), NEW e, Picks(e, seq, n, S, r)
  PROVE  \E f : Picks(f, seq, n + 1, S, Append(r, seq[n + 1]))
  <1> DEFINE m == Len(r)
             t == Append(r, seq[n + 1])
             f == [i \in 1 .. m + 1 |-> IF i = m + 1 THEN n + 1 ELSE e[i]]
  <1>1. /\ m \in Nat /\ Len(t) = m + 1 /\ t[m + 1] = seq[n + 1]
        /\ \A i \in 1 .. m : t[i] = r[i]
    OBVIOUS
  <1>. HIDE DEF t, m
  <1>2. /\ e \in [1 .. m -> 1 .. n]
        /\ \A i, j \in 1 .. m : i < j => e[i] < e[j]
        /\ \A i \in 1 .. m : r[i] = seq[e[i]] /\ r[i] \in S
        /\ \A j \in 1 .. n : seq[j] \in S => \E i \in 1 .. m : e[i] = j
        /\ (\A j \in 1 .. n : seq[j] \in S) => m = n /\ \A j \in 1 .. n : r[j] = seq[j]
    BY DEF Picks, m
  <1>3. f[m + 1] = n + 1 /\ \A i \in 1 .. m : f[i] = e[i]
    BY <1>1
  <1>4. f \in [1 .. m + 1 -> 1 .. n + 1]
    BY <1>1, <1>2
  <1>. HIDE DEF f
  <1>5. 1 .. m + 1 = 1 .. m \cup {m + 1} /\ 1 .. n + 1 = 1 .. n \cup {n + 1}
    BY <1>1
  <1>6. \A i, j \in 1 .. m + 1 : i < j => f[i] < f[j]
    <2> SUFFICES ASSUME NEW i \in 1 .. m + 1, NEW j \in 1 .. m + 1, i < j PROVE f[i] < f[j]
      OBVIOUS
    <2>1. i \in 1 .. m
      BY <1>1
    <2>2. CASE j = m + 1
      BY <1>1, <1>2, <1>3, <2>1, <2>2
    <2>3. CASE j # m + 1
      <3>1. j \in 1 .. m
        BY <1>5, <2>3
      <3>2. e[i] < e[j] /\ f[i] = e[i] /\ f[j] = e[j]
        BY <1>2, <1>3, <2>1, <3>1
      <3>. QED
        BY <3>2
    <2>. QED
      BY <2>2, <2>3
  <1>7. \A i \in 1 .. m + 1 : t[i] = seq[f[i]] /\ t[i] \in S
    BY <1>1, <1>2, <1>3, <1>5
  <1>8. \A j \in 1 .. n + 1 : seq[j] \in S => \E i \in 1 .. m + 1 : f[i] = j
    BY <1>2, <1>3, <1>5
  <1>9. (\A j \in 1 .. n + 1 : seq[j] \in S) => m + 1 = n + 1 /\ \A j \in 1 .. n + 1 : t[j] = seq[j]
    BY <1>1, <1>2, <1>5
  <1>10. Picks(f, seq, n + 1, S, t)
    BY <1>1, <1>4, <1>6, <1>7, <1>8, <1>9 DEF Picks
  <1>. QED
    BY <1>10 DEF t

LEMMA PickNone ==
  ASSUME NEW seq, NEW n \in Nat, NEW S, seq[n + 1] \notin S,
         NEW r, Len(r) \in Nat, NEW e, Picks(e, seq, n, S, r)
  PROVE  Picks(e, seq, n + 1, S, r)
  <1>1. 1 .. n + 1 = 1 .. n \cup {n + 1} /\ n + 1 \in 1 .. n + 1
    OBVIOUS
  <1>. QED
    BY <1>1 DEF Picks

\* What Filter keeps, in its order, and nothing else.
LEMMA FilterPicks ==
  ASSUME NEW seq, seq \in Seq(Range(seq)), NEW S
  PROVE  /\ Filter(seq, S) \in Seq(Range(seq))
         /\ \E e : Picks(e, seq, Len(seq), S, Filter(seq, S))
  <1> DEFINE p == <<seq, S>>
             a == Kept!Fold(p)
             n == Len(seq)
             T == Range(seq)
  <1>1. n \in Nat /\ DOMAIN seq = 1 .. n /\ \A i \in 1 .. n : seq[i] \in T
    OBVIOUS
  <1>2. Filter(seq, S) = a[n]
    BY DEF Filter, Kept!Fold, KeptN, KeptBase, KeptOp
  <1>3. /\ a[0] = <<>>
        /\ \A i \in 1 .. n : a[i] = IF seq[i] \in S THEN Append(a[i - 1], seq[i]) ELSE a[i - 1]
    <2>. HIDE DEF a
    <2>1. KeptN(p) \in Nat /\ KeptN(p) = n
      BY <1>1 DEF KeptN
    <2>. QED
      BY <2>1, Kept!FoldDef DEF KeptBase, KeptOp, a
  <1>. HIDE DEF a, n, T
  <1> DEFINE I == {i \in 0 .. n : a[i] \in Seq(T) /\ \E e : Picks(e, seq, i, S, a[i])}
  <1>4. 0 \in I
    <2>1. a[0] = <<>> /\ 0 \in 0 .. n /\ 1 .. 0 = {} /\ Len(<<>>) = 0 /\ <<>> \in Seq(T)
      BY <1>1, <1>3
    <2>2. Picks(<<>>, seq, 0, S, <<>>)
      BY <2>1 DEF Picks
    <2>. QED
      BY <2>1, <2>2
  <1>5. \A i \in 0 .. n - 1 : i \in I => i + 1 \in I
    <2> SUFFICES ASSUME NEW i \in 0 .. n - 1, i \in I PROVE i + 1 \in I
      OBVIOUS
    <2>1. i + 1 \in 1 .. n /\ (i + 1) - 1 = i /\ i \in Nat /\ i + 1 \in 0 .. n
      BY <1>1
    <2>2. a[i] \in Seq(T)
      OBVIOUS
    <2>3. PICK e : Picks(e, seq, i, S, a[i])
      OBVIOUS
    <2>4. CASE seq[i + 1] \in S
      <3>1. a[i + 1] = Append(a[i], seq[i + 1]) /\ seq[i + 1] \in T
        BY <1>1, <1>3, <2>1, <2>4
      <3>2. \E f : Picks(f, seq, i + 1, S, Append(a[i], seq[i + 1]))
        BY <2>1, <2>2, <2>3, <2>4, <3>1, PickOne
      <3>3. Append(a[i], seq[i + 1]) \in Seq(T)
        BY <2>2, <3>1
      <3>4. a[i + 1] \in Seq(T) /\ \E f : Picks(f, seq, i + 1, S, a[i + 1])
        BY <3>1, <3>2, <3>3, Zenon
      <3>. QED
        BY <2>1, <3>4
    <2>5. CASE seq[i + 1] \notin S
      <3>1. a[i + 1] = a[i] /\ Len(a[i]) \in Nat
        BY <1>3, <2>1, <2>2, <2>5
      <3>2. Picks(e, seq, i + 1, S, a[i])
        BY <2>1, <2>3, <2>5, <3>1, PickNone
      <3>. QED
        BY <2>1, <2>2, <3>1, <3>2
    <2>. QED
      BY <2>4, <2>5
  <1>6. n \in I
    <2>. HIDE DEF I
    <2>1. \A i \in 0 .. n : i \in I
      BY <1>1, <1>4, <1>5, Kept!Induction
    <2>. QED
      BY <1>1, <2>1
  <1>. QED
    BY <1>2, <1>6 DEF n, T

\* The nodes that a sweep leaves of one block.
Swept(nodes, names) == Filter(nodes, {n \in Range(nodes) : ~Unread(n, names)})

LEMMA SweptFacts ==
  ASSUME NEW nodes, nodes \in Seq(Range(nodes)), NEW names
  PROVE  /\ \E e : Embeds(e, nodes, Swept(nodes, names), names)
         /\ Swept(nodes, names) \in Seq(Range(Swept(nodes, names)))
         /\ Range(Swept(nodes, names)) = {n \in Range(nodes) : ~Unread(n, names)}
         /\ Range(Swept(nodes, names)) = Range(nodes) => Swept(nodes, names) = nodes
  <1> DEFINE S == {n \in Range(nodes) : ~Unread(n, names)}
             r == Swept(nodes, names)
             k == Len(nodes)
             m == Len(r)
  <1>0. r = Filter(nodes, S)
    BY DEF Swept
  <1>1. k \in Nat /\ DOMAIN nodes = 1 .. k /\ \A i \in 1 .. k : nodes[i] \in Range(nodes)
    OBVIOUS
  <1>2. \A i \in 1 .. k : nodes[i] \in S <=> ~Unread(nodes[i], names)
    BY <1>1
  <1>3. S \subseteq Range(nodes)
    OBVIOUS
  <1>. HIDE DEF S, r
  <1>4. r \in Seq(Range(nodes)) /\ \E e : Picks(e, nodes, k, S, r)
    BY <1>0, FilterPicks
  <1>5. PICK e : Picks(e, nodes, k, S, r)
    BY <1>4
  <1>6. m \in Nat /\ DOMAIN r = 1 .. m
    BY <1>4
  <1>7. \A i \in 1 .. m : r[i] \in Range(r)
    BY <1>6 DEF Range
  <1>8. r \in Seq(Range(r))
    BY <1>4, <1>6, <1>7
  <1>. HIDE DEF k, m
  <1>9. /\ e \in [1 .. m -> 1 .. k]
        /\ \A i, j \in 1 .. m : i < j => e[i] < e[j]
        /\ \A i \in 1 .. m : r[i] = nodes[e[i]] /\ r[i] \in S
        /\ \A j \in 1 .. k : nodes[j] \in S => \E i \in 1 .. m : e[i] = j
        /\ (\A j \in 1 .. k : nodes[j] \in S) => m = k /\ \A j \in 1 .. k : r[j] = nodes[j]
    BY <1>5 DEF Picks, m
  <1>10. Range(r) = S
    <2>1. Range(r) \subseteq S
      BY <1>6, <1>9 DEF Range
    <2>2. ASSUME NEW x \in S PROVE x \in Range(r)
      <3>1. PICK j \in 1 .. k : nodes[j] = x
        BY <1>1, <1>3 DEF Range
      <3>2. PICK i \in 1 .. m : e[i] = j
        BY <1>9, <3>1
      <3>. QED
        BY <1>7, <1>9, <3>1, <3>2
    <2>. QED
      BY <2>1, <2>2
  <1>11. Embeds(e, nodes, r, names)
    <2>1. \A i \in 1 .. m : Simplifies(nodes[e[i]], r[i])
      BY <1>9 DEF Simplifies
    <2>2. ASSUME NEW j \in 1 .. k, ResNames(nodes[j]) \cap names # {} PROVE \E i \in 1 .. m : e[i] = j
      <3>1. ~Unread(nodes[j], names)
        BY <2>2 DEF Unread, ResNames, NamesOf
      <3>. QED
        BY <1>2, <1>9, <3>1
    <2>. QED
      BY <1>9, <2>1, <2>2 DEF Embeds, k, m
  <1>12. Range(r) = Range(nodes) => r = nodes
    <2> SUFFICES ASSUME S = Range(nodes) PROVE r = nodes
      BY <1>10
    <2>1. m = k /\ \A j \in 1 .. k : r[j] = nodes[j]
      BY <1>1, <1>9
    <2>. QED
      BY <1>1, <1>4, <1>6, <2>1
  <1>. QED
    BY <1>8, <1>10, <1>11, <1>12 DEF r, S

LEMMA NewBlocksAreFunctions ==
  ASSUME NEW bs, AreFunctions(bs), NEW labels
  PROVE  AreFunctions(NewBlocks(bs, labels))
  <1>1. IsFcn(NewBlock)
    BY DEF IsFcn, NewBlock
  <1>. QED
    BY <1>1 DEF AreFunctions, NewBlocks, IsFcn

LEMMA FallToIsFunction ==
  ASSUME NEW bs, AreFunctions(bs), NEW l, NEW m
  PROVE  AreFunctions(FallTo(bs, l, m))
  BY SetNodes DEF FallTo

LEMMA BlocksStayFunctions ==
  ASSUME AreFunctions(blocks), [Next]_vars
  PROVE  AreFunctions(blocks)'
  <1>. USE SetNodes
  <1>1. ASSUME NEW s, Simple(s) PROVE AreFunctions(blocks)'
    BY <1>1 DEF Simple, Append1
  <1>2. ASSUME NEW s, ReturnStmt(s) PROVE AreFunctions(blocks)'
    BY <1>2 DEF ReturnStmt
  <1>3. ASSUME NEW s, OpenIf(s) PROVE AreFunctions(blocks)'
    BY <1>3, NewBlocksAreFunctions DEF OpenIf
  <1>4. ASSUME NEW c, NEW code, NEW test, NEW step, Open(c, code, test, step)
        PROVE  AreFunctions(blocks)'
    BY <1>4, NewBlocksAreFunctions, SetBlock, SetField DEF Open
  <1>5. ASSUME NEW s, BeginElse(s) PROVE AreFunctions(blocks)'
    BY <1>5, FallToIsFunction DEF BeginElse
  <1>6. ASSUME NEW s, CloseIf(s) PROVE AreFunctions(blocks)'
    BY <1>6, FallToIsFunction DEF CloseIf
  <1>7. ASSUME NEW s, CloseLoop(s) PROVE AreFunctions(blocks)'
    BY <1>7, FallToIsFunction DEF CloseLoop, Append1
  <1>8. CASE Finish
    <2>1. blocks' = blocks \/ blocks' = [blocks EXCEPT ![cur].term = Return(<<>>)]
      BY <1>8 DEF Finish
    <2>2. AreFunctions([blocks EXCEPT ![cur].term = Return(<<>>)])
      OBVIOUS
    <2>. QED
      BY <2>1, <2>2
  <1>9. ASSUME NEW s, Lowers(s) PROVE AreFunctions(blocks)'
    BY <1>1, <1>2, <1>3, <1>4, <1>5, <1>6, <1>7, <1>9 DEF Lowers, OpenWhile, OpenFor, Raise
  <1>10. CASE UNCHANGED vars
    BY <1>10 DEF vars
  <1>. QED
    BY <1>8, <1>9, <1>10 DEF Next

-----------------------------------------------------------------------------
(* Each pass refines the function it is given, and leaves its blocks ready. *)

\* cs has the blocks of bs, with the nodes of each as the pass leaves them.
LEMMA SweepFacts ==
  ASSUME NEW bs, Ready(bs)
  PROVE  LET cs == SweepBlocks(bs, ReadNames(bs))
         IN  /\ Ready(cs) /\ Refines(bs, cs)
             /\ \A l \in DOMAIN bs :
                  Range(cs[l].nodes) = {n \in Range(bs[l].nodes) : ~Unread(n, ReadNames(bs))}
             /\ (\A l \in DOMAIN bs : Range(cs[l].nodes) = Range(bs[l].nodes)) => cs = bs
  <1> DEFINE names == ReadNames(bs)
             cs == SweepBlocks(bs, names)
  <1>. HIDE DEF names
  <1>1. /\ DOMAIN cs = DOMAIN bs /\ IsFcn(cs)
        /\ \A l \in DOMAIN bs : cs[l] = [bs[l] EXCEPT !.nodes = Swept(bs[l].nodes, names)]
    BY DEF SweepBlocks, Swept, IsFcn
  <1>. HIDE DEF cs
  <1>2. ASSUME NEW l \in DOMAIN bs
        PROVE  /\ cs[l].nodes = Swept(bs[l].nodes, names) /\ cs[l].term = bs[l].term
               /\ DOMAIN cs[l] = {"nodes", "term"} /\ IsFcn(cs[l])
               /\ DOMAIN bs[l] = {"nodes", "term"} /\ IsFcn(bs[l])
               /\ bs[l].nodes \in Seq(Range(bs[l].nodes))
               /\ \A n \in Range(bs[l].nodes) : OneResult(n)
    <2>1. /\ DOMAIN bs[l] = {"nodes", "term"} /\ IsFcn(bs[l])
          /\ bs[l].nodes \in Seq(Range(bs[l].nodes))
          /\ \A n \in Range(bs[l].nodes) : OneResult(n)
      BY DEF Ready, AreFunctions
    <2>2. cs[l] = [bs[l] EXCEPT !.nodes = Swept(bs[l].nodes, names)]
      BY <1>1
    <2>3. IsFcn(cs[l])
      <3>1. IsFcn([bs[l] EXCEPT !.nodes = Swept(bs[l].nodes, names)])
        BY SetField
      <3>. QED
        BY <2>2, <3>1
    <2>4. /\ cs[l].nodes = Swept(bs[l].nodes, names) /\ cs[l].term = bs[l].term
          /\ DOMAIN cs[l] = {"nodes", "term"}
      BY <2>1, <2>2
    <2>. QED
      BY <2>1, <2>3, <2>4
  <1>3. ASSUME NEW l \in DOMAIN bs
        PROVE  /\ \E e : Embeds(e, bs[l].nodes, cs[l].nodes, names)
               /\ cs[l].nodes \in Seq(Range(cs[l].nodes))
               /\ Range(cs[l].nodes) = {n \in Range(bs[l].nodes) : ~Unread(n, names)}
               /\ Range(cs[l].nodes) = Range(bs[l].nodes) => cs[l].nodes = bs[l].nodes
    <2>1. bs[l].nodes \in Seq(Range(bs[l].nodes)) /\ cs[l].nodes = Swept(bs[l].nodes, names)
      BY <1>2
    <2>. QED
      BY <2>1, SweptFacts
  <1>4. Refines(bs, cs)
    BY <1>1, <1>2, <1>3 DEF Refines, SameGraph, names
  <1>5. Ready(cs)
    <2>1. ASSUME NEW l \in DOMAIN bs, NEW n \in Range(cs[l].nodes) PROVE OneResult(n)
      BY <1>2, <1>3
    <2>. QED
      BY <1>1, <1>2, <1>3, <2>1 DEF Ready, AreFunctions
  <1>6. ASSUME \A l \in DOMAIN bs : Range(cs[l].nodes) = Range(bs[l].nodes)
        PROVE  cs = bs
    <2>1. ASSUME NEW l \in DOMAIN bs PROVE cs[l] = bs[l]
      <3>1. cs[l].nodes = bs[l].nodes
        BY <1>3, <1>6
      <3>2. /\ DOMAIN cs[l] = {"nodes", "term"} /\ DOMAIN bs[l] = {"nodes", "term"}
            /\ IsFcn(cs[l]) /\ IsFcn(bs[l]) /\ cs[l].term = bs[l].term
        BY <1>2
      <3>3. \A x \in {"nodes", "term"} : cs[l][x] = bs[l][x]
        BY <3>1, <3>2
      <3>. QED
        BY <3>2, <3>3, SameFunction
    <2>2. IsFcn(bs)
      BY DEF Ready, AreFunctions
    <2>. QED
      BY <1>1, <2>1, <2>2, SameFunction
  <1>. QED
    BY <1>3, <1>4, <1>5, <1>6 DEF names, cs

\* Nodes old, folded one by one into new.
OneByOne(old, new) ==
  /\ new \in Seq(Range(new)) /\ Len(new) = Len(old)
  /\ \A i \in 1 .. Len(old) : Simplifies(old[i], new[i])

FoldN(p) == Len(p[2])
FoldBase(p) == [known |-> p[1], nodes |-> <<>>]
FoldOp(p, a, i) == FoldNode(a, p[2][i])
Folded == INSTANCE Recursion WITH N <- FoldN, Base <- FoldBase, Op <- FoldOp

\* What is known of names was learned from constants among the nodes S.
Learned(known, S) ==
  \A x \in DOMAIN known : \E c \in S : /\ c.op = "const" /\ x \in ResNames(c)
                                     /\ known[x] = The(c.imm)

\* A node stays, or becomes what it computes of two constants among S.
FoldsTo(n, m, S) ==
  \/ m = n
  \/ /\ n.op \in Folds
     /\ \E b, c \in S :
          /\ b.op = "const" /\ n.args[1].name \in ResNames(b)
          /\ c.op = "const" /\ n.args[2].name \in ResNames(c)
          /\ \E p \in Fold(n.op, The(b.imm), The(c.imm)) : m = ConstNode(The(n.res), p)

LEMMA FoldsToMonotone ==
  ASSUME NEW n, NEW m, NEW S, NEW T, \A c \in S : c.op = "const" => c \in T, FoldsTo(n, m, S)
  PROVE  FoldsTo(n, m, T)
  BY DEF FoldsTo

LEMMA LearnedMonotone ==
  ASSUME NEW known, NEW S, NEW T, \A c \in S : c.op = "const" => c \in T, Learned(known, S)
  PROVE  Learned(known, T)
  BY DEF Learned

LEMMA TheOnly ==
  ASSUME NEW S, S # {}, \A v, w \in S : v = w
  PROVE  The(S) \in S /\ S = {The(S)}
  BY DEF The

LEMMA FoldsToSimplifies ==
  ASSUME NEW n, NEW m, NEW S, OneResult(n), FoldsTo(n, m, S)
  PROVE  Simplifies(n, m)
  <1>1. CASE m = n
    BY <1>1 DEF Simplifies
  <1>2. CASE m # n
    <2>1. PICK p : n.op \in Folds /\ m = ConstNode(The(n.res), p)
      BY <1>2 DEF FoldsTo
    <2>2. n.res # {} /\ \A v, w \in n.res : v = w
      BY <2>1 DEF OneResult, Droppable, Folds
    <2>3. n.res = {The(n.res)}
      BY <2>2, TheOnly
    <2>4. m.op = "const" /\ m.args = <<>> /\ m.inc = <<>> /\ m.res = {The(n.res)}
      BY <2>1 DEF ConstNode
    <2>. QED
      BY <2>1, <2>3, <2>4 DEF Simplifies
  <1>. QED
    BY <1>1, <1>2

LEMMA FoldNodeFacts ==
  ASSUME NEW a, NEW n, OneResult(n), NEW S, Learned(a.known, S)
  PROVE  \E m : /\ FoldNode(a, n).nodes = Append(a.nodes, m)
               /\ FoldsTo(n, m, S)
               /\ Learned(FoldNode(a, n).known, S \cup {m})
  <1> DEFINE r == FoldedTo(a.known, n)
             v == The(n.res)
             m == ConstNode(v, The(r))
             b == FoldNode(a, n)
  <1>1. CASE n.op = "const"
    <2>1. b.nodes = Append(a.nodes, n) /\ b.known = Put(a.known, v.name, The(n.imm))
      BY <1>1 DEF FoldNode, Learn
    <2>2. v.name \in ResNames(n)
      <3>1. n.res # {} /\ \A x, y \in n.res : x = y
        BY <1>1 DEF OneResult, Droppable
      <3>2. v \in n.res
        BY <3>1, TheOnly
      <3>. QED
        BY <3>2 DEF ResNames
    <2>. HIDE DEF b, v
    <2>3. Learned(b.known, S \cup {n})
      BY <1>1, <2>1, <2>2 DEF Learned, Put
    <2>4. FoldsTo(n, n, S)
      BY DEF FoldsTo
    <2>. QED
      BY <2>1, <2>3, <2>4 DEF b
  <1>2. CASE n.op # "const" /\ r = {}
    <2>1. b.nodes = Append(a.nodes, n) /\ b.known = Forget(a.known, n.res)
      BY <1>2 DEF FoldNode
    <2>. HIDE DEF b
    <2>2. Learned(b.known, S \cup {n})
      BY <2>1 DEF Learned, Forget
    <2>3. FoldsTo(n, n, S)
      BY DEF FoldsTo
    <2>. QED
      BY <2>1, <2>2, <2>3 DEF b
  <1>3. CASE n.op # "const" /\ r # {}
    <2>1. b.nodes = Append(a.nodes, m) /\ b.known = Put(a.known, v.name, The(r))
      BY <1>3 DEF FoldNode, Learn
    <2>2. /\ n.op \in Folds /\ n.args[1].name \in DOMAIN a.known /\ n.args[2].name \in DOMAIN a.known
          /\ r = Fold(n.op, a.known[n.args[1].name], a.known[n.args[2].name])
      BY <1>3 DEF FoldedTo, Folds
    <2>3. m.op = "const" /\ m.res = {v} /\ m.imm = {The(r)} /\ The(m.imm) = The(r)
      BY DEF ConstNode, The
    <2>4. FoldsTo(n, m, S)
      <3>1. PICK x \in S : x.op = "const" /\ n.args[1].name \in ResNames(x)
                           /\ a.known[n.args[1].name] = The(x.imm)
        BY <2>2 DEF Learned
      <3>2. PICK y \in S : y.op = "const" /\ n.args[2].name \in ResNames(y)
                           /\ a.known[n.args[2].name] = The(y.imm)
        BY <2>2 DEF Learned
      <3>3. The(r) \in Fold(n.op, The(x.imm), The(y.imm))
        BY <1>3, <2>2, <3>1, <3>2 DEF The
      <3>4. \E p \in Fold(n.op, The(x.imm), The(y.imm)) : m = ConstNode(The(n.res), p)
        BY <3>3
      <3>. HIDE DEF m, r, v
      <3>. QED
        BY <2>2, <3>1, <3>2, <3>4 DEF FoldsTo
    <2>. HIDE DEF m, b, r
    <2>5. v.name \in ResNames(m)
      BY <2>3 DEF ResNames
    <2>. HIDE DEF v
    <2>6. ASSUME NEW x \in DOMAIN b.known
          PROVE  \E c \in S \cup {m} : /\ c.op = "const" /\ x \in ResNames(c)
                                      /\ b.known[x] = The(c.imm)
      <3>1. CASE x = v.name
        <4>1. b.known[x] = The(m.imm)
          BY <2>1, <2>3, <3>1 DEF Put
        <4>. QED
          BY <2>3, <2>5, <3>1, <4>1
      <3>2. CASE x # v.name
        <4>1. x \in DOMAIN a.known /\ b.known[x] = a.known[x]
          BY <2>1, <3>2 DEF Put
        <4>. QED
          BY <4>1 DEF Learned
      <3>. QED
        BY <3>1, <3>2
    <2>7. Learned(b.known, S \cup {m})
      BY <2>6 DEF Learned
    <2>. QED
      BY <2>1, <2>4, <2>7 DEF b
  <1>. QED
    BY <1>1, <1>2, <1>3

LEMMA FoldNodesFacts ==
  ASSUME NEW known, NEW nodes, nodes \in Seq(Range(nodes)),
         \A n \in Range(nodes) : OneResult(n), NEW S, Learned(known, S)
  PROVE  LET r == FoldNodes(known, nodes)
         IN  /\ OneByOne(nodes, r.nodes)
             /\ \A i \in 1 .. Len(nodes) : FoldsTo(nodes[i], r.nodes[i], S \cup Range(r.nodes))
             /\ Learned(r.known, S \cup Range(r.nodes))
  <1> DEFINE p == <<known, nodes>>
             a == Folded!Fold(p)
             k == Len(nodes)
  <1>1. k \in Nat /\ DOMAIN nodes = 1 .. k /\ \A i \in 1 .. k : nodes[i] \in Range(nodes)
    OBVIOUS
  <1>2. FoldNodes(known, nodes) = a[k]
    BY DEF FoldNodes, Folded!Fold, FoldN, FoldBase, FoldOp
  <1>3. /\ a[0] = [known |-> known, nodes |-> <<>>]
        /\ \A i \in 1 .. k : a[i] = FoldNode(a[i - 1], nodes[i])
    <2>. HIDE DEF a
    <2>1. FoldN(p) \in Nat /\ FoldN(p) = k
      BY <1>1 DEF FoldN
    <2>2. a[0] = FoldBase(p) /\ \A i \in 1 .. k : a[i] = FoldOp(p, a[i - 1], i)
      BY <2>1, Folded!FoldDef DEF a
    <2>3. FoldBase(p) = [known |-> known, nodes |-> <<>>]
      BY DEF FoldBase
    <2>4. \A i \in 1 .. k : FoldOp(p, a[i - 1], i) = FoldNode(a[i - 1], nodes[i])
      BY DEF FoldOp
    <2>. QED
      BY <2>2, <2>3, <2>4
  <1>. HIDE DEF a, k
  <1> DEFINE Part(new, j) == /\ new \in Seq(Range(new)) /\ Len(new) = j
                             /\ \A i \in 1 .. j :
                                  FoldsTo(nodes[i], new[i], S \cup Range(new))
             Knows(c) == Learned(c.known, S \cup Range(c.nodes))
             I == {j \in 0 .. k : Part(a[j].nodes, j) /\ Knows(a[j])}
  <1>4. 0 \in I
    <2>1. a[0].nodes = <<>> /\ 0 \in 0 .. k /\ 1 .. 0 = {}
      BY <1>1, <1>3
    <2>2. <<>> \in Seq(Range(<<>>)) /\ Len(<<>>) = 0
      OBVIOUS
    <2>3. a[0].known = known
      BY <1>3
    <2>4. Knows(a[0])
      BY <2>3, LearnedMonotone
    <2>. QED
      BY <2>1, <2>2, <2>4
  <1>5. \A j \in 0 .. k - 1 : j \in I => j + 1 \in I
    <2> SUFFICES ASSUME NEW j \in 0 .. k - 1, j \in I PROVE j + 1 \in I
      OBVIOUS
    <2> DEFINE s == a[j].nodes
    <2>1. j + 1 \in 1 .. k /\ (j + 1) - 1 = j /\ j \in Nat /\ j + 1 \in 0 .. k
          /\ 1 .. j + 1 = 1 .. j \cup {j + 1}
      BY <1>1
    <2>2. Part(s, j) /\ Learned(a[j].known, S \cup Range(s))
      OBVIOUS
    <2>3. OneResult(nodes[j + 1])
      BY <1>1, <2>1
    <2>4. PICK m : /\ a[j + 1].nodes = Append(s, m)
                   /\ FoldsTo(nodes[j + 1], m, S \cup Range(s))
                   /\ Learned(a[j + 1].known, (S \cup Range(s)) \cup {m})
      <3>1. a[j + 1] = FoldNode(a[j], nodes[j + 1])
        BY <1>3, <2>1
      <3> DEFINE T == S \cup Range(s)
      <3>. HIDE DEF T
      <3>2. Learned(a[j].known, T)
        BY <2>2 DEF T
      <3>3. \E m : /\ FoldNode(a[j], nodes[j + 1]).nodes = Append(a[j].nodes, m)
                  /\ FoldsTo(nodes[j + 1], m, T)
                  /\ Learned(FoldNode(a[j], nodes[j + 1]).known, T \cup {m})
        BY <2>3, <3>2, FoldNodeFacts
      <3>. QED
        BY <3>1, <3>3 DEF T
    <2>. HIDE DEF s
    <2>5. Part(Append(s, m), j + 1) /\ Range(Append(s, m)) = Range(s) \cup {m}
      <3> DEFINE T == Range(s) \cup {m}
                 t == Append(s, m)
      <3>1. s \in Seq(T) /\ m \in T /\ Len(s) = j
        BY <2>2
      <3>. HIDE DEF T
      <3>2. t \in Seq(T) /\ Len(t) = j + 1 /\ t[j + 1] = m /\ \A i \in 1 .. j : t[i] = s[i]
        BY <2>1, <3>1
      <3>. HIDE DEF t
      <3>3. \A i \in 1 .. j + 1 : t[i] \in Range(t)
        BY <3>2 DEF Range
      <3>4. t \in Seq(Range(t))
        BY <3>2, <3>3
      <3>5. Range(t) = Range(s) \cup {m}
        <4>1. /\ DOMAIN t = 1 .. j + 1 /\ DOMAIN s = 1 .. j /\ 1 .. j + 1 = 1 .. j \cup {j + 1}
              /\ j + 1 \in 1 .. j + 1
          BY <2>1, <3>1, <3>2
        <4>2. \A x \in Range(t) : x \in Range(s) \cup {m}
          BY <3>2, <4>1 DEF Range
        <4>3. \A x \in Range(s) \cup {m} : x \in Range(t)
          BY <3>2, <4>1 DEF Range
        <4>. QED
          BY <4>2, <4>3
      <3>6. \A i \in 1 .. j + 1 : FoldsTo(nodes[i], t[i], S \cup Range(t))
        <4>1. S \cup Range(s) \subseteq S \cup Range(t)
          BY <3>5
        <4>2. \A i \in 1 .. j : FoldsTo(nodes[i], t[i], S \cup Range(t))
          BY <2>2, <3>2, <4>1, FoldsToMonotone
        <4>3. FoldsTo(nodes[j + 1], t[j + 1], S \cup Range(t))
          BY <2>4, <3>2, <4>1, FoldsToMonotone
        <4>. QED
          BY <2>1, <4>2, <4>3
      <3>. QED
        BY <3>2, <3>4, <3>5, <3>6 DEF t
    <2>. HIDE DEF Part
    <2>6. Part(a[j + 1].nodes, j + 1)
      BY <2>4, <2>5
    <2>7. Knows(a[j + 1])
      <3>1. Range(a[j + 1].nodes) = Range(s) \cup {m}
        BY <2>4, <2>5
      <3>2. S \cup Range(a[j + 1].nodes) = (S \cup Range(s)) \cup {m}
        BY <3>1
      <3>. QED
        BY <2>4, <3>2
    <2>. QED
      BY <2>1, <2>6, <2>7
  <1>6. k \in I
    <2>. HIDE DEF I
    <2>1. \A i \in 0 .. k : i \in I
      BY <1>1, <1>4, <1>5, Folded!Induction
    <2>. QED
      BY <1>1, <2>1
  <1> DEFINE new == a[k].nodes
  <1>7. Part(new, k) /\ Learned(a[k].known, S \cup Range(new))
    BY <1>6
  <1>. HIDE DEF new
  <1>8. \A i \in 1 .. k : Simplifies(nodes[i], new[i])
    BY <1>1, <1>7, FoldsToSimplifies
  <1>9. OneByOne(nodes, new)
    BY <1>7, <1>8 DEF OneByOne, k
  <1>. QED
    BY <1>2, <1>7, <1>9 DEF new, k

\* The blocks of bs, with the nodes of each folded one by one.
Folding(bs, cs) ==
  /\ Ready(cs) /\ SameGraph(bs, cs)
  /\ \A l \in DOMAIN bs :
       /\ OneByOne(bs[l].nodes, cs[l].nodes)
       /\ \A i \in 1 .. Len(bs[l].nodes) :
            FoldsTo(bs[l].nodes[i], cs[l].nodes[i], NodesOf(cs))

LEMMA FoldsToTwice ==
  ASSUME NEW n, NEW m, NEW x, NEW S, NEW T, FoldsTo(n, m, S), FoldsTo(m, x, T),
         \A c \in S : c.op = "const" => c \in T
  PROVE  FoldsTo(n, x, T)
  <1>1. CASE m = n
    BY <1>1
  <1>2. CASE m # n
    <2>1. m.op = "const"
      BY <1>2 DEF FoldsTo, ConstNode
    <2>2. x = m
      BY <2>1 DEF FoldsTo, Folds, Arith, Compares
    <2>. QED
      BY <2>2, FoldsToMonotone
  <1>. QED
    BY <1>1, <1>2

LEMMA SimplifiesTwice ==
  ASSUME NEW n, NEW m, NEW x, Simplifies(n, m), Simplifies(m, x)
  PROVE  Simplifies(n, x)
  BY DEF Simplifies, Folds, Arith, Compares

LEMMA OneResultStays ==
  ASSUME NEW n, NEW m, Simplifies(n, m), OneResult(n)
  PROVE  OneResult(m)
  BY DEF Simplifies, OneResult, Droppable, Folds

LEMMA FoldBlockFacts ==
  ASSUME NEW bs, Ready(bs), NEW a, Folding(bs, a.bs), NEW l \in DOMAIN bs,
         Learned(a.known, NodesOf(a.bs))
  PROVE  LET b == FoldBlock(a, l) IN Folding(bs, b.bs) /\ Learned(b.known, NodesOf(b.bs))
  <1> DEFINE cs == a.bs
             known == FoldNodes(a.known, cs[l].nodes).known
             new == FoldNodes(a.known, cs[l].nodes).nodes
             ds == [cs EXCEPT ![l].nodes = new]
  <1>1. FoldBlock(a, l).bs = ds /\ FoldBlock(a, l).known = known
    BY DEF FoldBlock
  <1>2. /\ Ready(cs) /\ SameGraph(bs, cs) /\ Learned(a.known, NodesOf(cs))
        /\ \A m \in DOMAIN bs :
             /\ OneByOne(bs[m].nodes, cs[m].nodes)
             /\ \A i \in 1 .. Len(bs[m].nodes) :
                  FoldsTo(bs[m].nodes[i], cs[m].nodes[i], NodesOf(cs))
    BY DEF Folding
  <1>. HIDE DEF cs
  <1>3. /\ AreFunctions(cs) /\ l \in DOMAIN cs
        /\ \A m \in DOMAIN cs : /\ DOMAIN cs[m] = {"nodes", "term"}
                                /\ cs[m].nodes \in Seq(Range(cs[m].nodes))
                                /\ \A n \in Range(cs[m].nodes) : OneResult(n)
    BY <1>2 DEF Ready, SameGraph
  <1>4. /\ OneByOne(cs[l].nodes, new)
        /\ \A i \in 1 .. Len(cs[l].nodes) :
             FoldsTo(cs[l].nodes[i], new[i], NodesOf(cs) \cup Range(new))
        /\ Learned(known, NodesOf(cs) \cup Range(new))
    BY <1>2, <1>3, FoldNodesFacts
  <1>. HIDE DEF new, known
  <1>5. /\ AreFunctions(ds) /\ DOMAIN ds = DOMAIN cs
        /\ \A m \in DOMAIN cs : /\ ds[m].term = cs[m].term
                                /\ ds[m].nodes = IF m = l THEN new ELSE cs[m].nodes
                                /\ DOMAIN ds[m] = DOMAIN cs[m]
    <2>1. AreFunctions(ds)
      BY <1>3, SetNodes
    <2>2. ds = [cs EXCEPT ![l] = [cs[l] EXCEPT !.nodes = new]]
      OBVIOUS
    <2>3. [cs[l] EXCEPT !.nodes = new].nodes = new /\ [cs[l] EXCEPT !.nodes = new].term = cs[l].term
          /\ DOMAIN [cs[l] EXCEPT !.nodes = new] = DOMAIN cs[l]
      BY <1>3
    <2>. QED
      BY <1>3, <2>1, <2>2, <2>3
  <1>. HIDE DEF ds
  <1>6. /\ new \in Seq(Range(new)) /\ Len(new) = Len(cs[l].nodes)
        /\ \A i \in 1 .. Len(cs[l].nodes) : Simplifies(cs[l].nodes[i], new[i])
    BY <1>4 DEF OneByOne
  <1>7. ASSUME NEW n \in Range(new) PROVE OneResult(n)
    <2>1. PICK i \in 1 .. Len(new) : n = new[i]
      BY <1>6 DEF Range
    <2>2. cs[l].nodes[i] \in Range(cs[l].nodes)
      BY <1>3, <1>6, <2>1 DEF Range
    <2>. QED
      BY <1>3, <1>6, <2>1, <2>2, OneResultStays
  <1>8. Ready(ds)
    BY <1>3, <1>5, <1>6, <1>7 DEF Ready
  <1>9. SameGraph(bs, ds)
    BY <1>2, <1>5 DEF SameGraph
  <1>10. OneByOne(bs[l].nodes, new)
    <2>1. Len(cs[l].nodes) = Len(bs[l].nodes)
          /\ \A i \in 1 .. Len(bs[l].nodes) : Simplifies(bs[l].nodes[i], cs[l].nodes[i])
      BY <1>2 DEF OneByOne
    <2>. QED
      BY <1>6, <2>1, SimplifiesTwice DEF OneByOne
  <1>11. \A m \in DOMAIN bs : OneByOne(bs[m].nodes, ds[m].nodes)
    BY <1>2, <1>5, <1>10 DEF SameGraph
  <1> DEFINE S == NodesOf(cs) \cup Range(new)
             T == NodesOf(ds)
  <1>12. \A c \in S : c.op = "const" => c \in T
    <2>1. DOMAIN ds = DOMAIN cs /\ l \in DOMAIN cs /\ Range(new) \subseteq T
      BY <1>3, <1>5 DEF NodesOf
    <2>2. ASSUME NEW m \in DOMAIN cs, NEW c \in Range(cs[m].nodes), c.op = "const"
          PROVE  c \in T
      <3>1. CASE m # l
        <4>1. c \in Range(ds[m].nodes)
          BY <1>5, <3>1
        <4>. QED
          BY <2>1, <4>1 DEF NodesOf
      <3>2. CASE m = l
        <4>1. PICK i \in 1 .. Len(cs[l].nodes) : c = cs[l].nodes[i]
          BY <1>3, <3>2 DEF Range
        <4>2. new[i] = c /\ i \in 1 .. Len(new)
          BY <1>6, <2>2, <4>1 DEF Simplifies, Folds, Arith, Compares
        <4>3. new[i] \in Range(new)
          BY <1>6, <4>2 DEF Range
        <4>. QED
          BY <2>1, <4>2, <4>3
      <3>. QED
        BY <3>1, <3>2
    <2>. HIDE DEF T
    <2>. QED
      BY <2>1, <2>2 DEF NodesOf
  <1>13. Learned(known, T)
    <2>. HIDE DEF S, T
    <2>. QED
      BY <1>4, <1>12, LearnedMonotone DEF S
  <1>14. ASSUME NEW m \in DOMAIN bs, NEW i \in 1 .. Len(bs[m].nodes)
         PROVE  FoldsTo(bs[m].nodes[i], ds[m].nodes[i], T)
    <2>1. FoldsTo(bs[m].nodes[i], cs[m].nodes[i], S)
      <3>1. FoldsTo(bs[m].nodes[i], cs[m].nodes[i], NodesOf(cs))
        BY <1>2
      <3>2. \A c \in NodesOf(cs) : c.op = "const" => c \in S
        OBVIOUS
      <3>. HIDE DEF S
      <3>. QED
        BY <3>1, <3>2, FoldsToMonotone
    <2>2. FoldsTo(cs[m].nodes[i], ds[m].nodes[i], S)
      <3>1. CASE m = l
        <4>1. Len(cs[l].nodes) = Len(bs[l].nodes)
          BY <1>2 DEF OneByOne
        <4>2. ds[m].nodes = new
          BY <1>3, <1>5, <3>1
        <4>. QED
          BY <1>4, <3>1, <4>1, <4>2
      <3>2. CASE m # l
        <4>1. ds[m].nodes = cs[m].nodes
          BY <1>2, <1>5, <3>2 DEF SameGraph
        <4>. QED
          BY <4>1 DEF FoldsTo
      <3>. QED
        BY <3>1, <3>2
    <2>. HIDE DEF S, T
    <2>3. FoldsTo(bs[m].nodes[i], ds[m].nodes[i], S)
      BY <2>1, <2>2, FoldsToTwice
    <2>. QED
      BY <1>12, <2>3, FoldsToMonotone
  <1>15. Folding(bs, ds)
    BY <1>8, <1>9, <1>11, <1>14 DEF Folding
  <1>. QED
    BY <1>1, <1>13, <1>15

FoldAllN(p) == Len(p[2])
FoldAllBase(p) == [known |-> <<>>, bs |-> p[1]]
FoldAllOp(p, a, i) == FoldBlock(a, p[2][i])
FoldedAll == INSTANCE Recursion WITH N <- FoldAllN, Base <- FoldAllBase, Op <- FoldAllOp

LEMMA FoldConstantsFacts ==
  ASSUME NEW bs, Ready(bs), NEW labels \in Seq(DOMAIN bs)
  PROVE  Folding(bs, FoldConstants(bs, labels))
  <1> DEFINE p == <<bs, labels>>
             a == FoldedAll!Fold(p)
             k == Len(labels)
  <1>1. k \in Nat /\ \A i \in 1 .. k : labels[i] \in DOMAIN bs
    OBVIOUS
  <1>2. FoldConstants(bs, labels) = a[k].bs
    BY DEF FoldConstants, FoldedAll!Fold, FoldAllN, FoldAllBase, FoldAllOp
  <1>3. /\ a[0] = [known |-> <<>>, bs |-> bs]
        /\ \A i \in 1 .. k : a[i] = FoldBlock(a[i - 1], labels[i])
    <2>. HIDE DEF a
    <2>1. FoldAllN(p) \in Nat /\ FoldAllN(p) = k
      BY <1>1 DEF FoldAllN
    <2>2. a[0] = FoldAllBase(p) /\ \A i \in 1 .. k : a[i] = FoldAllOp(p, a[i - 1], i)
      BY <2>1, FoldedAll!FoldDef DEF a
    <2>3. FoldAllBase(p) = [known |-> <<>>, bs |-> bs]
      BY DEF FoldAllBase
    <2>4. \A i \in 1 .. k : FoldAllOp(p, a[i - 1], i) = FoldBlock(a[i - 1], labels[i])
      BY DEF FoldAllOp
    <2>. QED
      BY <2>2, <2>3, <2>4
  <1>. HIDE DEF a, k
  <1> DEFINE Good(b) == Folding(bs, b.bs) /\ Learned(b.known, NodesOf(b.bs))
             I == {j \in 0 .. k : Good(a[j])}
  <1>4. Good(a[0])
    <2>1. \A l \in DOMAIN bs : bs[l].nodes \in Seq(Range(bs[l].nodes))
      BY DEF Ready
    <2>2. Folding(bs, bs)
      BY <2>1 DEF Folding, SameGraph, OneByOne, Simplifies, FoldsTo
    <2>3. Learned(<<>>, NodesOf(bs))
      BY DEF Learned
    <2>. QED
      BY <1>3, <2>2, <2>3
  <1>5. 0 \in I
    BY <1>1, <1>3, <1>4
  <1>6. \A j \in 0 .. k - 1 : j \in I => j + 1 \in I
    <2> SUFFICES ASSUME NEW j \in 0 .. k - 1, Good(a[j])
                 PROVE  j + 1 \in 0 .. k /\ Good(a[j + 1])
      BY <1>1
    <2>1. j + 1 \in 1 .. k /\ (j + 1) - 1 = j /\ j + 1 \in 0 .. k
      BY <1>1
    <2>2. a[j + 1] = FoldBlock(a[j], labels[j + 1]) /\ labels[j + 1] \in DOMAIN bs
      BY <1>1, <1>3, <2>1
    <2>3. Good(FoldBlock(a[j], labels[j + 1]))
      BY <2>2, FoldBlockFacts
    <2>. QED
      BY <2>1, <2>2, <2>3
  <1>7. k \in I
    <2>. HIDE DEF I
    <2>1. \A i \in 0 .. k : i \in I
      BY <1>1, <1>5, <1>6, FoldedAll!Induction
    <2>. QED
      BY <1>1, <2>1
  <1>. QED
    BY <1>2, <1>7

LEMMA FoldingRefines ==
  ASSUME NEW bs, Ready(bs), NEW cs, Folding(bs, cs)
  PROVE  Refines(bs, cs)
  <1>1. ASSUME NEW l \in DOMAIN bs
        PROVE  \E e : Embeds(e, bs[l].nodes, cs[l].nodes, ReadNames(bs))
    <2> DEFINE old == bs[l].nodes
               new == cs[l].nodes
               k == Len(old)
               e == [i \in 1 .. k |-> i]
    <2>1. k \in Nat
      BY Positioned DEF HasPositions
    <2>2. Len(new) = k /\ \A i \in 1 .. k : Simplifies(old[i], new[i])
      BY DEF Folding, OneByOne
    <2>3. e \in [1 .. k -> 1 .. k] /\ \A i \in 1 .. k : e[i] = i
      OBVIOUS
    <2>. HIDE DEF k, e
    <2>4. Embeds(e, old, new, ReadNames(bs))
      <3>. HIDE DEF old, new
      <3>1. Len(old) = k
        BY DEF k
      <3>. QED
        BY <2>1, <2>2, <2>3, <3>1 DEF Embeds
    <2>. QED
      BY <2>4
  <1>. QED
    BY <1>1 DEF Folding, Refines

-----------------------------------------------------------------------------
(* The inductive invariant of the compiler: that of the front end; then, once *)
(* the passes run, blocks that are ready for the next pass, accepted if those  *)
(* that were lowered are, with the graph and the nodes that are left of those  *)
(* the running pass was given.                                                *)

\* cs has the graph of bs, and no node that bs does not have.
Prunes(bs, cs) ==
  SameGraph(bs, cs) /\ \A l \in DOMAIN bs : Range(cs[l].nodes) \subseteq Range(bs[l].nodes)

PassInv ==
  /\ todo \in Seq({"cf", "dce", "inline"})
  /\ SameGraph(blocks, opt)
  /\ Ready(opt)
  /\ Accepted(blocks) => Accepted(opt)
  /\ Prunes(given, opt)

CompilerInv ==
  /\ LoweringInv
  /\ AreFunctions(blocks)
  /\ phase # "lower" => PassInv

LEMMA CompilerInvInit == CompilerInit => CompilerInv
  <1> SUFFICES ASSUME CompilerInit PROVE CompilerInv
    OBVIOUS
  <1>1. LoweringInv /\ phase = "lower"
    BY LoweringInvInit DEF CompilerInit
  <1>2. AreFunctions(blocks)
    <2>1. blocks = [l \in {Entry} |-> NewBlock]
      BY DEF CompilerInit, Init
    <2>2. IsFcn(NewBlock)
      BY DEF IsFcn, NewBlock
    <2>. QED
      BY <2>1, <2>2 DEF AreFunctions, IsFcn
  <1>. QED
    BY <1>1, <1>2 DEF CompilerInv

\* What the front end leaves is ready for the passes.
LEMMA LoweredIsReady ==
  ASSUME LoweringInv, AreFunctions(blocks)
  PROVE  Ready(blocks)
  <1>1. CodeInv(blocks, ctx) /\ AreBlocks(blocks)
    BY InvFacts DEF IRInv, Shape
  <1>2. ASSUME NEW l \in DOMAIN blocks
        PROVE  /\ DOMAIN blocks[l] = {"nodes", "term"}
               /\ blocks[l].nodes \in Seq(Range(blocks[l].nodes))
               /\ \A n \in Range(blocks[l].nodes) : OneResult(n)
    <2>1. IsCode(blocks[l].nodes, KnownIn(blocks)) /\ IsBlock(blocks[l])
      BY <1>1 DEF CodeInv, AreBlocks
    <2>2. blocks[l].nodes \in Seq(Range(blocks[l].nodes))
      BY <2>1 DEF IsCode
    <2>3. ASSUME NEW n \in Range(blocks[l].nodes) PROVE OneResult(n)
      <3>1. PICK i \in 1 .. Len(blocks[l].nodes) : n = blocks[l].nodes[i]
        BY <2>2 DEF Range
      <3>2. IsNode(n, KnownIn(blocks))
        BY <2>1, <3>1 DEF IsCode
      <3>3. (\A v, w \in n.res : v = w) /\ (n.res = {} => n.op \in {"store", "call"})
        BY <3>2 DEF IsNode
      <3>. QED
        BY <3>3 DEF OneResult, Droppable, Arith, Compares
    <2>. QED
      BY <2>1, <2>2, <2>3 DEF IsBlock
  <1>. QED
    BY <1>2 DEF Ready

LEMMA SelectKeepsInv ==
  ASSUME CompilerInv, NEW ps \in PassLists, Select(ps)
  PROVE  PassInv'
  <1>1. /\ todo' = ps /\ opt' = blocks /\ given' = blocks /\ blocks' = blocks
    BY DEF Select, vars
  <1>2. Ready(blocks)
    BY LoweredIsReady DEF CompilerInv
  <1>3. ps \in Seq({"cf", "dce", "inline"})
    BY CompilerAssumption
  <1>. QED
    BY <1>1, <1>2, <1>3 DEF PassInv, Prunes, SameGraph

\* A pass that refines opt keeps the invariant.
LEMMA RefinementKeepsInv ==
  ASSUME PassInv, NEW cs, Ready(cs), Refines(opt, cs)
  PROVE  SameGraph(blocks, cs) /\ (Accepted(blocks) => Accepted(cs))
  <1>1. SameGraph(blocks, cs)
    BY DEF PassInv, Refines, SameGraph
  <1>2. Accepted(blocks) => Accepted(cs)
    BY RefinementIsAccepted DEF PassInv
  <1>. QED
    BY <1>1, <1>2

LEMMA NextPassKeepsInv ==
  ASSUME PassInv, todo # <<>>, blocks' = blocks, NEW cs, NextPass(cs), Ready(cs),
         SameGraph(blocks, cs), Accepted(blocks) => Accepted(cs)
  PROVE  PassInv'
  <1>1. todo' = Tail(todo) /\ opt' = cs /\ given' = cs
    BY DEF NextPass
  <1>2. todo' \in Seq({"cf", "dce", "inline"})
    BY <1>1 DEF PassInv
  <1>. QED
    BY <1>1, <1>2 DEF PassInv, Prunes, SameGraph

LEMMA FoldingKeepsInv ==
  ASSUME CompilerInv, FoldingPass
  PROVE  PassInv'
  <1>1. PassInv /\ todo # <<>> /\ blocks' = blocks
    BY DEF CompilerInv, FoldingPass, Running, vars
  <1> DEFINE cs == FoldConstants(opt, order)
  <1>2. NextPass(cs)
    BY DEF FoldingPass
  <1>3. Folding(opt, cs)
    <2>1. order \in Seq(DOMAIN opt) /\ Ready(opt)
      BY <1>1 DEF CompilerInv, LoweringInv, OrderInv, IsOrder, PassInv, SameGraph
    <2>. QED
      BY <2>1, FoldConstantsFacts
  <1>. HIDE DEF cs
  <1>4. Ready(cs) /\ Refines(opt, cs)
    BY <1>1, <1>3, FoldingRefines DEF Folding, PassInv
  <1>. QED
    BY <1>1, <1>2, <1>4, RefinementKeepsInv, NextPassKeepsInv

LEMMA KeepingKeepsInv ==
  ASSUME CompilerInv, Inlining \/ EndSweeps
  PROVE  PassInv'
  <1>1. PassInv /\ todo # <<>> /\ blocks' = blocks /\ NextPass(opt)
    BY DEF CompilerInv, Inlining, EndSweeps, Running, vars
  <1>. QED
    BY <1>1, NextPassKeepsInv DEF PassInv

LEMMA SweepKeepsInv ==
  ASSUME CompilerInv, SweepPass
  PROVE  PassInv'
  <1>1. PassInv /\ blocks' = blocks /\ todo' = todo /\ given' = given
    BY DEF CompilerInv, SweepPass, Running, vars
  <1> DEFINE cs == SweepBlocks(opt, ReadNames(opt))
  <1>2. opt' = cs
    BY DEF SweepPass
  <1>3. Ready(opt)
    BY <1>1 DEF PassInv
  <1>4. /\ Ready(cs) /\ Refines(opt, cs)
        /\ \A l \in DOMAIN opt :
             Range(cs[l].nodes) = {n \in Range(opt[l].nodes) : ~Unread(n, ReadNames(opt))}
    BY <1>3, SweepFacts
  <1>. HIDE DEF cs
  <1>5. SameGraph(blocks, cs) /\ (Accepted(blocks) => Accepted(cs))
    BY <1>1, <1>4, RefinementKeepsInv
  <1>6. Prunes(given, cs)
    BY <1>1, <1>4 DEF PassInv, Prunes, Refines, SameGraph
  <1>. QED
    BY <1>1, <1>2, <1>4, <1>5, <1>6 DEF PassInv

LEMMA CompilerInvNext == CompilerInv /\ [CompilerNext]_allVars => CompilerInv'
  <1> SUFFICES ASSUME CompilerInv, [CompilerNext]_allVars PROVE CompilerInv'
    OBVIOUS
  <1>1. [Next]_vars
    BY DEF CompilerNext, LowerNext, Select, FoldingPass, Inlining, SweepPass, EndSweeps, Emits, allVars
  <1>2. LoweringInv' /\ AreFunctions(blocks)'
    BY <1>1, LoweringInvNext, BlocksStayFunctions DEF CompilerInv
  <1>3. ASSUME LowerNext PROVE phase' = "lower"
    BY <1>3 DEF LowerNext, passVars
  <1>4. ASSUME NEW ps \in PassLists, Select(ps) PROVE PassInv'
    BY <1>4, SelectKeepsInv
  <1>5. ASSUME FoldingPass PROVE PassInv'
    BY <1>5, FoldingKeepsInv
  <1>6. ASSUME Inlining \/ EndSweeps PROVE PassInv'
    BY <1>6, KeepingKeepsInv
  <1>7. ASSUME SweepPass PROVE PassInv'
    BY <1>7, SweepKeepsInv
  <1>8. ASSUME Emits PROVE PassInv'
    <2>1. PassInv /\ UNCHANGED <<blocks, todo, opt, given>>
      BY <1>8 DEF Emits, CompilerInv, vars
    <2>. QED
      BY <2>1 DEF PassInv
  <1>9. ASSUME UNCHANGED allVars PROVE phase' # "lower" => PassInv'
    <2>1. phase' = phase /\ UNCHANGED <<blocks, todo, opt, given>>
      BY <1>9 DEF allVars, vars, passVars
    <2>. QED
      BY <2>1 DEF CompilerInv, PassInv
  <1>10. phase' # "lower" => PassInv'
    BY <1>3, <1>4, <1>5, <1>6, <1>7, <1>8, <1>9 DEF CompilerNext
  <1>. QED
    BY <1>2, <1>10 DEF CompilerInv

\* The invariant of the compiler, with that of the front end in it.
THEOREM CompilerIsSound == CompilerSpec => []CompilerInv
  BY CompilerInvInit, CompilerInvNext, PTL DEF CompilerSpec

\* For every program and every selection of passes, in any order and number: what
\* the passes leave is accepted by LLVM if the function as lowered is. Constants
\* that replace operations keep their names and places, and what a sweep drops
\* is read by no node, phi or terminator.
THEOREM PassesStayValid == CompilerSpec => []PassesKeepIRValid
  <1>1. CompilerInv => PassesKeepIRValid
    BY DEF CompilerInv, PassInv, PassesKeepIRValid
  <1>. QED
    BY <1>1, CompilerIsSound, PTL

-----------------------------------------------------------------------------
(* The sweeps over the nodes are those of DeadCode.tla, on the positions that  *)
(* are left of the function the pass was given.                               *)

\* The names that nodes and terminators read, in the terms of DeadCode.tla.
LEMMA ReadIsReferenced ==
  ASSUME NEW bs, NEW cs, Prunes(bs, cs)
  PROVE  /\ Positions(cs) \subseteq Positions(bs)
         /\ DC!Referenced(AsFunction(bs), Positions(cs)) = ReadNames(cs)
  <1> DEFINE f == AsFunction(bs)
             Uses(n) == NamesOf(Range(n.args) \cup Range(n.inc))
  <1>1. Positions(cs) \subseteq Positions(bs)
    BY DEF Prunes, SameGraph, Positions
  <1>2. ASSUME NEW p \in Positions(cs) PROVE f.node[p].uses = Uses(p[2])
    BY <1>1 DEF AsFunction
  <1>3. f.ends = UNION {NamesOf(Range(cs[l].term.uses)) : l \in DOMAIN cs}
    BY DEF AsFunction, Prunes, SameGraph
  <1>4. DC!Referenced(f, Positions(cs)) = (UNION {f.node[p].uses : p \in Positions(cs)}) \cup f.ends
    BY DEF DC!Referenced
  <1>. HIDE DEF f, Uses
  <1>5. UNION {f.node[p].uses : p \in Positions(cs)} = UNION {Uses(p[2]) : p \in Positions(cs)}
    BY <1>2
  <1>6. UNION {Uses(p[2]) : p \in Positions(cs)} =
          UNION {UNION {Uses(n) : n \in Range(cs[l].nodes)} : l \in DOMAIN cs}
    <2>1. \A p \in Positions(cs) : p[1] \in DOMAIN cs /\ p[2] \in Range(cs[p[1]].nodes)
      BY DEF Positions
    <2>2. ASSUME NEW l \in DOMAIN cs, NEW n \in Range(cs[l].nodes)
          PROVE  \E p \in Positions(cs) : p[2] = n
      <3>1. <<l, n>> \in Positions(cs) /\ <<l, n>>[2] = n
        BY DEF Positions
      <3>. QED
        BY <3>1
    <2>3. ASSUME NEW x, NEW p \in Positions(cs), x \in Uses(p[2])
          PROVE  x \in UNION {UNION {Uses(n) : n \in Range(cs[l].nodes)} : l \in DOMAIN cs}
      BY <2>1, <2>3
    <2>4. ASSUME NEW l \in DOMAIN cs, NEW n \in Range(cs[l].nodes), NEW x \in Uses(n)
          PROVE  x \in UNION {Uses(p[2]) : p \in Positions(cs)}
      BY <2>2, <2>4
    <2>. QED
      BY <2>3, <2>4
  <1>7. ReadNames(cs) = (UNION {NamesOf(Range(cs[l].term.uses)) : l \in DOMAIN cs})
                          \cup UNION {UNION {Uses(n) : n \in Range(cs[l].nodes)} : l \in DOMAIN cs}
    BY DEF ReadNames, Uses
  <1>. QED
    BY <1>1, <1>3, <1>4, <1>5, <1>6, <1>7 DEF f

LEMMA SweptPositions ==
  ASSUME NEW bs, NEW cs, Prunes(bs, cs), NEW ds, DOMAIN ds = DOMAIN cs,
         \A l \in DOMAIN cs :
           Range(ds[l].nodes) = {n \in Range(cs[l].nodes) : ~Unread(n, ReadNames(cs))}
  PROVE  Positions(ds) = DC!Remaining(AsFunction(bs), Positions(cs))
  <1> DEFINE f == AsFunction(bs)
             N == ReadNames(cs)
  <1>1. Positions(cs) \subseteq Positions(bs) /\ DC!Referenced(f, Positions(cs)) = N
    BY ReadIsReferenced
  <1>. HIDE DEF N
  <1>2. ASSUME NEW p \in Positions(cs)
        PROVE  (DC!CanDrop(f, p) => f.node[p].res \cap N # {}) <=> ~Unread(p[2], N)
    <2>1. /\ f.node[p].droppable = (p[2].op \in Droppable) /\ f.node[p].res = NamesOf(p[2].res)
      BY <1>1 DEF AsFunction
    <2>2. NamesOf(p[2].res) # {} <=> p[2].res # {}
      BY DEF NamesOf
    <2>. HIDE DEF f
    <2>. QED
      BY <2>1, <2>2 DEF DC!CanDrop, Unread
  <1>3. DC!Remaining(f, Positions(cs)) = {p \in Positions(cs) : ~Unread(p[2], N)}
    <2>. HIDE DEF f
    <2>. QED
      BY <1>1, <1>2 DEF DC!Remaining
  <1>4. Positions(ds) = {p \in Positions(cs) : ~Unread(p[2], N)}
    <2>1. \A l \in DOMAIN cs : \A n : n \in Range(ds[l].nodes) <=>
                                      n \in Range(cs[l].nodes) /\ ~Unread(n, N)
      BY DEF N
    <2>. QED
      BY <2>1 DEF Positions
  <1>. QED
    BY <1>3, <1>4

\* Two prunings of the same blocks differ where their positions do.
LEMMA SamePositions ==
  ASSUME NEW cs, NEW ds, DOMAIN ds = DOMAIN cs, Positions(ds) = Positions(cs)
  PROVE  \A l \in DOMAIN cs : Range(ds[l].nodes) = Range(cs[l].nodes)
  <1>1. ASSUME NEW bs, NEW l \in DOMAIN bs, NEW n
        PROVE  n \in Range(bs[l].nodes) <=> <<l, n>> \in Positions(bs)
    BY DEF Positions
  <1>2. ASSUME NEW l \in DOMAIN cs, NEW n
        PROVE  n \in Range(ds[l].nodes) <=> n \in Range(cs[l].nodes)
    <2>1. n \in Range(cs[l].nodes) <=> <<l, n>> \in Positions(cs)
      BY <1>1
    <2>2. n \in Range(ds[l].nodes) <=> <<l, n>> \in Positions(ds)
      BY <1>1
    <2>. QED
      BY <2>1, <2>2
  <1>. QED
    BY <1>2

LEMMA SweepIsDeadCode ==
  ASSUME CompilerInv, SweepPass
  PROVE  DC!Sweep
  <1>1. PassInv
    BY DEF CompilerInv, SweepPass, Running
  <1> DEFINE cs == SweepBlocks(opt, ReadNames(opt))
  <1>2. opt' = cs /\ changed' = (cs # opt) /\ changed /\ given' = given
    BY DEF SweepPass
  <1>3. Ready(opt) /\ Prunes(given, opt)
    BY <1>1 DEF PassInv
  <1>4. /\ DOMAIN cs = DOMAIN opt
        /\ \A l \in DOMAIN opt :
             Range(cs[l].nodes) = {n \in Range(opt[l].nodes) : ~Unread(n, ReadNames(opt))}
        /\ (\A l \in DOMAIN opt : Range(cs[l].nodes) = Range(opt[l].nodes)) => cs = opt
    <2>1. /\ Refines(opt, cs)
          /\ \A l \in DOMAIN opt :
               Range(cs[l].nodes) = {n \in Range(opt[l].nodes) : ~Unread(n, ReadNames(opt))}
          /\ (\A l \in DOMAIN opt : Range(cs[l].nodes) = Range(opt[l].nodes)) => cs = opt
      BY <1>3, SweepFacts
    <2>. QED
      BY <2>1 DEF Refines, SameGraph
  <1>. HIDE DEF cs
  <1>5. Positions(cs) = DC!Remaining(AsFunction(given), Positions(opt))
    BY <1>3, <1>4, SweptPositions
  <1>6. (cs # opt) <=> Positions(cs) # Positions(opt)
    BY <1>4, SamePositions
  <1>7. changed' = (Positions(cs) # Positions(opt))
    BY <1>2, <1>6
  <1>. QED
    BY <1>2, <1>5, <1>7 DEF DC!Sweep

\* For every program: a step of the pass that does not end it is a sweep of
\* DeadCode.tla, on the positions that earlier sweeps left of the function given
\* to the pass: blocks, the order of nodes and names collected anew play no part.
THEOREM SweepsAreDeadCode == CompilerSpec => SweepsImplementDeadCode
  <1>1. ASSUME CompilerInv, CompilerNext, Running("dce"), todo' = todo
        PROVE  DC!Sweep
    <2>1. todo \in Seq({"cf", "dce", "inline"}) /\ todo # <<>> /\ Head(todo) = "dce" /\ phase = "passes"
      BY <1>1 DEF CompilerInv, PassInv, Running
    <2>2. Tail(todo) # todo
      BY <2>1
    <2>3. SweepPass
      BY <1>1, <2>1, <2>2 DEF CompilerNext, LowerNext, Select, FoldingPass, Inlining, EndSweeps,
                              NextPass, Emits, Running
    <2>. QED
      BY <1>1, <2>3, SweepIsDeadCode
  <1>2. CompilerInv /\ [CompilerNext]_allVars
          => [Running("dce") /\ todo' = todo => DC!Sweep]_passVars
    BY <1>1 DEF allVars
  <1>. QED
    BY <1>2, CompilerIsSound, PTL DEF CompilerSpec, SweepsImplementDeadCode

-----------------------------------------------------------------------------
(* What an accepted function says of its names. *)

\* A name stands for one value, which one node defines; no node defines that of
\* an argument.
DefinesOnce(bs) ==
  \A n \in NodesOf(bs) : \A v \in n.res :
    /\ v.name \notin NamesOf(Range(Args))
    /\ \A m \in NodesOf(bs) : \A w \in m.res : v.name = w.name => n = m /\ v = w

LEMMA AcceptedDefinesOnce ==
  ASSUME NEW bs, Ready(bs), Accepted(bs)
  PROVE  DefinesOnce(bs)
  <1> DEFINE sites == UNION {{<<l, i>> : i \in DOMAIN bs[l].nodes} : l \in DOMAIN bs}
             NamesAt(s) == {v.name : v \in bs[s[1]].nodes[s[2]].res}
  <1>1. /\ \A s, t \in sites : s # t => NamesAt(s) \cap NamesAt(t) = {}
        /\ \A s \in sites : NamesAt(s) \cap {v.name : v \in Range(Args)} = {}
    BY DEF Accepted, Verifies, SingleDefinitions
  <1>2. ASSUME NEW n \in NodesOf(bs)
        PROVE  \E s \in sites : n = bs[s[1]].nodes[s[2]] /\ OneResult(n)
    <2>1. PICK l \in DOMAIN bs : n \in Range(bs[l].nodes)
      BY DEF NodesOf
    <2>2. PICK i \in DOMAIN bs[l].nodes : n = bs[l].nodes[i]
      BY <2>1 DEF Range
    <2>3. OneResult(n)
      BY <2>1 DEF Ready
    <2>4. <<l, i>> \in sites /\ <<l, i>>[1] = l /\ <<l, i>>[2] = i
      OBVIOUS
    <2>. QED
      BY <2>2, <2>3, <2>4
  <1>. HIDE DEF sites
  <1>3. ASSUME NEW n \in NodesOf(bs), NEW v \in n.res PROVE v.name \notin NamesOf(Range(Args))
    <2>1. PICK s \in sites : n = bs[s[1]].nodes[s[2]]
      BY <1>2
    <2>2. v.name \in NamesAt(s)
      BY <2>1
    <2>. QED
      BY <1>1, <2>2 DEF NamesOf
  <1>4. ASSUME NEW n \in NodesOf(bs), NEW v \in n.res,
               NEW m \in NodesOf(bs), NEW w \in m.res, v.name = w.name
        PROVE  n = m /\ v = w
    <2>1. PICK s \in sites : n = bs[s[1]].nodes[s[2]] /\ OneResult(n)
      BY <1>2
    <2>2. PICK t \in sites : m = bs[t[1]].nodes[t[2]]
      BY <1>2
    <2>3. v.name \in NamesAt(s) /\ v.name \in NamesAt(t)
      BY <1>4, <2>1, <2>2
    <2>. HIDE DEF NamesAt
    <2>4. s = t
      BY <1>1, <2>3
    <2>. QED
      BY <2>1, <2>2, <2>4 DEF OneResult
  <1>. QED
    BY <1>3, <1>4 DEF DefinesOnce

\* A value that is read and not an argument is the result of a node.
LEMMA ReadIsDefined ==
  ASSUME NEW bs, Accepted(bs), NEW n \in NodesOf(bs), NEW v \in Range(n.args) \cup Range(n.inc)
  PROVE  v \in Range(Args) \/ \E m \in NodesOf(bs) : v \in m.res
  <1>1. PICK l \in DOMAIN bs : n \in Range(bs[l].nodes)
    BY DEF NodesOf
  <1>2. v \in Range(Args) \cup UNION {Defs(bs[k]) : k \in DOMAIN bs}
    BY <1>1 DEF Accepted, Verifies, UsesDefined
  <1>. QED
    BY <1>2 DEF Defs, NodesOf

\* Two values of one name, one of them read, one the result of a node.
LEMMA SameNameSameValue ==
  ASSUME NEW bs, Accepted(bs), DefinesOnce(bs), NEW n \in NodesOf(bs),
         NEW v \in Range(n.args) \cup Range(n.inc),
         NEW m \in NodesOf(bs), NEW w \in m.res, v.name = w.name
  PROVE  v = w
  <1>1. CASE v \in Range(Args)
    BY <1>1 DEF DefinesOnce, NamesOf
  <1>2. CASE \E o \in NodesOf(bs) : v \in o.res
    BY <1>2 DEF DefinesOnce
  <1>. QED
    BY <1>1, <1>2, ReadIsDefined

LEMMA AcceptedNode ==
  ASSUME NEW bs, Ready(bs), Accepted(bs), NEW n \in NodesOf(bs)
  PROVE  NodeAccepted(n) /\ OneResult(n)
  BY DEF NodesOf, Ready, Accepted, Verifies, NodeAccepted

\* What a node reads is among the names read.
LEMMA NodeReads ==
  ASSUME NEW bs, NEW n \in NodesOf(bs), NEW v \in Range(n.args) \cup Range(n.inc)
  PROVE  v.name \in ReadNames(bs)
  <1>1. PICK l \in DOMAIN bs : n \in Range(bs[l].nodes)
    BY DEF NodesOf
  <1>. QED
    BY <1>1, ReadIsNamed

-----------------------------------------------------------------------------
(* A constant that folding writes is what the operation computes. *)

LEMMA IntLiteral ==
  ASSUME NEW p \in Int \X Nat, Literal("int", p) = p
  PROVE  p = Whole(p[1]) /\ Trunc(p) = p[1] /\ Wrap(p[1]) = p[1]
  <1>1. Whole(Wrap(Trunc(p))) = p
    BY DEF Literal
  <1>2. p = <<p[1], p[2]>> /\ p[1] \in Int
    OBVIOUS
  <1>3. p[2] = 1 /\ Wrap(Trunc(p)) = p[1]
    BY <1>1, <1>2 DEF Whole
  <1>4. Trunc(p) = p[1]
    BY <1>2, <1>3 DEF Trunc
  <1>. QED
    BY <1>2, <1>3, <1>4 DEF Whole

LEMMA BoolLiteral ==
  ASSUME NEW p, Literal("bool", p) = p
  PROVE  p \in {Whole(0), Whole(1)}
  BY DEF Literal, Truth

LEMMA ArithmeticFolds ==
  ASSUME NEW op \in Arith, NEW typ \in Scalars, NEW p, NEW q, NEW r \in Fold(op, p, q),
         r \in Int \X Nat, Literal(typ, r) = r, q \in Int \X Nat, Literal(typ, q) = q
  PROVE  Arithmetic(op, typ, p, q) \subseteq {r}
  <1>1. r = Compute(op, p, q) /\ (op = "/" => q # Whole(0))
    BY DEF Fold
  <1>2. CASE typ = "float"
    BY <1>1, <1>2 DEF Arithmetic
  <1>3. CASE typ = "int"
    <2>1. r = Whole(r[1]) /\ Trunc(r) = r[1] /\ Wrap(r[1]) = r[1]
      BY <1>3, IntLiteral
    <2>2. CASE op = "/"
      <3>1. Arithmetic(op, typ, p, q) \subseteq {Whole(Trunc(Compute("/", p, q)))}
        BY <1>3, <2>2 DEF Arithmetic
      <3>2. Whole(Trunc(Compute("/", p, q))) = r
        BY <1>1, <2>1, <2>2
      <3>. QED
        BY <3>1, <3>2
    <2>3. CASE op # "/"
      <3>1. Arithmetic(op, typ, p, q) = {Whole(Wrap(Compute(op, p, q)[1]))}
        BY <1>3, <2>3 DEF Arithmetic
      <3>. QED
        BY <1>1, <2>1, <3>1
    <2>. QED
      BY <2>2, <2>3
  <1>4. CASE typ = "bool"
    <2>1. r \in {Whole(0), Whole(1)}
      BY <1>4, BoolLiteral
    <2>2. Whole(r[1] % 2) = r
      BY <2>1 DEF Whole
    <2>3. CASE op = "/"
      BY <1>4, <2>3 DEF Arithmetic
    <2>4. CASE op # "/"
      <3>1. Arithmetic(op, typ, p, q) = {Whole(Compute(op, p, q)[1] % 2)}
        BY <1>4, <2>4 DEF Arithmetic
      <3>. QED
        BY <1>1, <2>2, <3>1
    <2>. QED
      BY <2>3, <2>4
  <1>. QED
    BY <1>2, <1>3, <1>4 DEF Scalars

\* Booleans are compared for equality only.
LEMMA ComparisonFolds ==
  ASSUME NEW op \in Compares, NEW typ, NEW p, NEW q, NEW r \in Fold(op, p, q),
         typ = "bool" => /\ op \in {"eq", "ne"}
                         /\ Literal(typ, p) = p /\ Literal(typ, q) = q
  PROVE  Comparison(op, typ, p, q) = {r}
  <1>1. r = Compute(op, p, q)
    BY DEF Fold, Compares
  <1>2. CASE typ # "bool"
    BY <1>1, <1>2 DEF Comparison
  <1>3. CASE typ = "bool"
    <2>1. p \in {<<0, 1>>, <<1, 1>>} /\ q \in {<<0, 1>>, <<1, 1>>}
      BY <1>3, BoolLiteral DEF Whole
    <2> DEFINE u == Whole(-p[1])
               v == Whole(-q[1])
    <2>2. (u = v <=> p = q) /\ NaN \notin {u, v} /\ NaN \notin {p, q}
      BY <2>1 DEF Whole, NaN
    <2>3. Comparison(op, typ, p, q) = {Compute(op, u, v)}
      BY <1>3 DEF Comparison
    <2>. HIDE DEF u, v
    <2>4. CASE op = "eq"
      <3>1. Compute(op, u, v) = Truth(NaN \notin {u, v} /\ u = v)
        BY <2>4 DEF Compute
      <3>2. Compute(op, p, q) = Truth(NaN \notin {p, q} /\ p = q)
        BY <2>4 DEF Compute
      <3>. QED
        BY <1>1, <2>2, <2>3, <3>1, <3>2 DEF Truth
    <2>5. CASE op = "ne"
      <3>1. Compute(op, u, v) = Truth(NaN \notin {u, v} /\ u # v)
        BY <2>5 DEF Compute
      <3>2. Compute(op, p, q) = Truth(NaN \notin {p, q} /\ p # q)
        BY <2>5 DEF Compute
      <3>. QED
        BY <1>1, <2>2, <2>3, <3>1, <3>2 DEF Truth
    <2>. QED
      BY <1>3, <2>4, <2>5
  <1>. QED
    BY <1>2, <1>3

-----------------------------------------------------------------------------
(* Two runs, of a function and of what a pass makes of it.  They agree on the *)
(* names that the function reads, as long as its own run is defined.          *)

Fields == {"k", "at", "from", "env", "mem", "val"}

Agree(f, g, names) ==
  \A x \in names : (x \in DOMAIN f <=> x \in DOMAIN g) /\ (x \in DOMAIN f => f[x] = g[x])

\* What is known of the value r of a name: the literal of a constant of cs, a
\* pointer into an array that bs reads.
Fits(x, r, bs, cs) ==
  /\ \A c \in NodesOf(cs) : c.op = "const" =>
       \A v \in c.res : v.name = x => r = Literal(v.typ, The(c.imm))
  /\ \A n \in NodesOf(bs) : \A v \in n.res :
       IsPtr(v.typ) /\ v.name = x => "base" \in DOMAIN r /\ r.base \in ReadNames(bs)

Alike(s, t, bs, cs) ==
  /\ DOMAIN t = Fields
  /\ s.k = t.k /\ s.at = t.at /\ s.from = t.from /\ s.val = t.val
  /\ s.at \in DOMAIN bs
  /\ Agree(s.env, t.env, ReadNames(bs)) /\ Agree(s.mem, t.mem, ReadNames(bs))
  /\ \A x \in ReadNames(bs) \cap DOMAIN s.env : Fits(x, s.env[x], bs, cs)

Sim(s, t, bs, cs) == DOMAIN s = Fields /\ (s.k = "undefined" \/ Alike(s, t, bs, cs))

LEMMA PutAgrees ==
  ASSUME NEW f, NEW g, NEW names, Agree(f, g, names), NEW x, NEW v
  PROVE  /\ Agree(Put(f, x, v), Put(g, x, v), names)
         /\ x \notin names => Agree(Put(f, x, v), g, names)
  BY DEF Agree, Put

\* A name is given one value in both runs, or one that the other run has not.
LEMMA EnvKeeps ==
  ASSUME NEW bs, NEW cs, NEW s, NEW t, DOMAIN s = Fields, Alike(s, t, bs, cs), NEW x, NEW r,
         x \in ReadNames(bs) => Fits(x, r, bs, cs)
  PROVE  /\ Alike([s EXCEPT !.env = Put(@, x, r)], [t EXCEPT !.env = Put(@, x, r)], bs, cs)
         /\ x \notin ReadNames(bs) => Alike([s EXCEPT !.env = Put(@, x, r)], t, bs, cs)
  <1> DEFINE N == ReadNames(bs)
             u == [s EXCEPT !.env = Put(@, x, r)]
             w == [t EXCEPT !.env = Put(@, x, r)]
             e == Put(s.env, x, r)
             f == Put(t.env, x, r)
  <1>1. DOMAIN t = Fields
    BY DEF Alike
  <1>2. /\ u.k = s.k /\ u.at = s.at /\ u.from = s.from /\ u.val = s.val /\ u.mem = s.mem
        /\ u.env = e
    BY DEF Fields
  <1>3. /\ w.k = t.k /\ w.at = t.at /\ w.from = t.from /\ w.val = t.val /\ w.mem = t.mem
        /\ w.env = f /\ DOMAIN w = Fields
    BY <1>1 DEF Fields
  <1>4. /\ s.k = t.k /\ s.at = t.at /\ s.from = t.from /\ s.val = t.val
        /\ s.at \in DOMAIN bs /\ Agree(s.env, t.env, N) /\ Agree(s.mem, t.mem, N)
        /\ \A y \in N \cap DOMAIN s.env : Fits(y, s.env[y], bs, cs)
    BY DEF Alike
  <1>5. \A y \in N \cap DOMAIN e : Fits(y, e[y], bs, cs)
    BY <1>4 DEF Put
  <1>6. Agree(e, f, N) /\ (x \notin N => Agree(e, t.env, N))
    BY <1>4, PutAgrees
  <1>. HIDE DEF u, w, e, f, N
  <1>7. Alike(u, w, bs, cs)
    BY <1>2, <1>3, <1>4, <1>5, <1>6 DEF Alike, N
  <1>8. x \notin N => Alike(u, t, bs, cs)
    BY <1>1, <1>2, <1>4, <1>5, <1>6 DEF Alike, N
  <1>. QED
    BY <1>7, <1>8 DEF u, w, N

LEMMA MemKeeps ==
  ASSUME NEW bs, NEW cs, NEW s, NEW t, DOMAIN s = Fields, Alike(s, t, bs, cs), NEW g, NEW h
  PROVE  /\ Agree(g, h, ReadNames(bs)) =>
              Alike([s EXCEPT !.mem = g], [t EXCEPT !.mem = h], bs, cs)
         /\ Agree(g, t.mem, ReadNames(bs)) => Alike([s EXCEPT !.mem = g], t, bs, cs)
  <1> DEFINE N == ReadNames(bs)
             u == [s EXCEPT !.mem = g]
             w == [t EXCEPT !.mem = h]
  <1>1. DOMAIN t = Fields
    BY DEF Alike
  <1>2. /\ u.k = s.k /\ u.at = s.at /\ u.from = s.from /\ u.val = s.val /\ u.env = s.env
        /\ u.mem = g
    BY DEF Fields
  <1>3. /\ w.k = t.k /\ w.at = t.at /\ w.from = t.from /\ w.val = t.val /\ w.env = t.env
        /\ w.mem = h /\ DOMAIN w = Fields
    BY <1>1 DEF Fields
  <1>. HIDE DEF u, w, N
  <1>4. Agree(g, h, N) => Alike(u, w, bs, cs)
    BY <1>2, <1>3 DEF Alike, N
  <1>5. Agree(g, t.mem, N) => Alike(u, t, bs, cs)
    BY <1>1, <1>2 DEF Alike, N
  <1>. QED
    BY <1>4, <1>5 DEF u, w, N

LEMMA UndefinedKeeps ==
  ASSUME NEW bs, NEW cs, NEW s, DOMAIN s = Fields, NEW t
  PROVE  Sim(Undefined(s), t, bs, cs)
  BY DEF Sim, Undefined, Fields

\* The result of a node, in both runs or only where no one reads it.
LEMMA DefineKeeps ==
  ASSUME NEW bs, NEW cs, NEW s, NEW t, DOMAIN s = Fields, Alike(s, t, bs, cs), NEW n, NEW R,
         The(n.res).name \in ReadNames(bs) => \A r \in R : Fits(The(n.res).name, r, bs, cs)
  PROVE  /\ \A m : m.res = n.res => Sim(Define(s, n, R), Define(t, m, R), bs, cs)
         /\ The(n.res).name \notin ReadNames(bs) => Sim(Define(s, n, R), t, bs, cs)
  <1> DEFINE x == The(n.res).name
             r == The(R)
             u == [s EXCEPT !.env = Put(@, x, r)]
             w == [t EXCEPT !.env = Put(@, x, r)]
  <1>1. CASE R = {}
    <2>1. Define(s, n, R) = Undefined(s)
      BY <1>1 DEF Define
    <2>. QED
      BY <2>1, UndefinedKeeps
  <1>2. CASE R # {}
    <2>1. r \in R
      BY <1>2 DEF The
    <2>2. Define(s, n, R) = u /\ \A m : m.res = n.res => Define(t, m, R) = w
      BY <1>2 DEF Define
    <2>3. x \in ReadNames(bs) => Fits(x, r, bs, cs)
      BY <2>1
    <2>4. DOMAIN u = Fields
      OBVIOUS
    <2>. HIDE DEF x, r
    <2>5. Alike(u, w, bs, cs) /\ (x \notin ReadNames(bs) => Alike(u, t, bs, cs))
      BY <2>3, EnvKeeps
    <2>. HIDE DEF u, w
    <2>6. Sim(u, w, bs, cs) /\ (x \notin ReadNames(bs) => Sim(u, t, bs, cs))
      BY <2>4, <2>5 DEF Sim
    <2>. QED
      BY <2>2, <2>6 DEF x
  <1>. QED
    BY <1>1, <1>2

\* A node of bs and the one of cs in its place: what their result may be.
LEMMA ResultFits ==
  ASSUME NEW bs, NEW cs, DefinesOnce(bs), DefinesOnce(cs), NEW n \in NodesOf(bs),
         NEW m \in NodesOf(cs), m.res = n.res, NEW v \in n.res, OneResult(n), NEW r,
         m.op = "const" => r = Literal(v.typ, The(m.imm)),
         IsPtr(v.typ) => "base" \in DOMAIN r /\ r.base \in ReadNames(bs)
  PROVE  The(n.res) = v /\ Fits(v.name, r, bs, cs)
  <1>1. The(n.res) = v
    BY TheOnly DEF OneResult
  <1>2. ASSUME NEW c \in NodesOf(cs), c.op = "const", NEW w \in c.res, w.name = v.name
        PROVE  r = Literal(w.typ, The(c.imm))
    <2>1. c = m /\ w = v
      BY <1>2 DEF DefinesOnce
    <2>. QED
      BY <1>2, <2>1
  <1>3. ASSUME NEW o \in NodesOf(bs), NEW w \in o.res, IsPtr(w.typ), w.name = v.name
        PROVE  "base" \in DOMAIN r /\ r.base \in ReadNames(bs)
    <2>1. w = v
      BY <1>3 DEF DefinesOnce
    <2>. QED
      BY <1>3, <2>1
  <1>. QED
    BY <1>1, <1>2, <1>3 DEF Fits

-----------------------------------------------------------------------------
(* One node, in both runs. *)

\* The operands x of n: pointers are to arrays that bs reads.
PointersAt(n, x, bs) ==
  \A i \in DOMAIN n.args :
    IsPtr(n.args[i].typ) => "base" \in DOMAIN x[i] /\ x[i].base \in ReadNames(bs)

\* The results that a node defines without touching memory.
ResultsOf(n, x) ==
  CASE n.op = "const" -> {Literal(The(n.res).typ, The(n.imm))}
    [] n.op \in Arith -> Arithmetic(n.op, The(n.res).typ, x[1], x[2])
    [] n.op \in Compares -> Comparison(n.op, n.args[1].typ, x[1], x[2])
    [] n.op \in {"id", "cast"} -> {x[1]}
    [] n.op = "gep" -> {[x[1] EXCEPT !.at = @ + x[2][1]]}

Defining == Arith \cup Compares \cup {"const", "id", "cast", "gep"}

LEMMA ExecuteDefining ==
  ASSUME NEW n, n.op \in Defining, NEW x, NEW s
  PROVE  Execute(s, n, x) = Define(s, n, ResultsOf(n, x))
  <1>1. CASE n.op = "const"
    BY <1>1 DEF Execute, ResultsOf, Arith, Compares
  <1>2. CASE n.op \in Arith
    BY <1>2 DEF Execute, ResultsOf, Arith, Compares
  <1>3. CASE n.op \in Compares
    BY <1>3 DEF Execute, ResultsOf, Arith, Compares
  <1>4. CASE n.op \in {"id", "cast"}
    BY <1>4 DEF Execute, ResultsOf, Arith, Compares
  <1>5. CASE n.op = "gep"
    BY <1>5 DEF Execute, ResultsOf, Arith, Compares
  <1>. QED
    BY <1>1, <1>2, <1>3, <1>4, <1>5 DEF Defining

LEMMA ExecuteAlloca ==
  ASSUME NEW n, n.op = "alloca", NEW x, NEW s
  PROVE  Execute(s, n, x) =
           IF x[1][1] < 0 THEN Undefined(s)
           ELSE Define([s EXCEPT !.mem = Put(@, The(n.res).name,
                                             [i \in 0 .. x[1][1] - 1 |-> Whole(0)])],
                       n, {[base |-> The(n.res).name, at |-> 0]})
  BY DEF Execute, Arith, Compares

LEMMA ExecuteLoad ==
  ASSUME NEW n, n.op = "load", NEW x, NEW s
  PROVE  Execute(s, n, x) =
           IF InBounds(s, x[1]) THEN Define(s, n, {At(s, x[1])}) ELSE Undefined(s)
  BY DEF Execute, Arith, Compares

LEMMA ExecuteStore ==
  ASSUME NEW n, n.op = "store", NEW x, NEW s
  PROVE  Execute(s, n, x) =
           IF InBounds(s, x[1]) THEN [s EXCEPT !.mem[x[1].base][x[1].at] = x[2]] ELSE Undefined(s)
  BY DEF Execute, Arith, Compares

LEMMA ExecuteOther ==
  ASSUME NEW n, n.op \notin Defining \cup {"alloca", "load", "store"}, NEW x, NEW s
  PROVE  Execute(s, n, x) = Undefined(s)
  BY DEF Execute, Defining, Arith, Compares

\* The type of what a node results in.
LEMMA ResultType ==
  ASSUME NEW n, NodeAccepted(n), NEW v \in n.res
  PROVE  /\ n.op \in (Defining \ {"gep"}) \cup {"load"} => v.typ \in Scalars /\ ~IsPtr(v.typ)
         /\ n.op = "gep" => 1 \in DOMAIN n.args /\ IsPtr(n.args[1].typ)
         /\ n.op \in {"load", "store"} => 1 \in DOMAIN n.args /\ IsPtr(n.args[1].typ)
  <1>1. ASSUME NEW e \in Scalars PROVE ~IsPtr(e) /\ IsPtr(PtrTo[e])
    BY DEF IsPtr, Pointers, PtrTo, Scalars
  <1>2. v.typ \in ResTypes(n)
    BY DEF ResTypes
  <1>3. n.op \in (Defining \ {"gep"}) \cup {"load"} => v.typ \in Scalars
    BY <1>2 DEF NodeAccepted, ArithTyped, MemoryTyped, NodeComplete, Defining, Scalars
  <1>4. n.op \in {"gep", "load", "store"} => 1 \in DOMAIN n.args /\ IsPtr(n.args[1].typ)
    BY <1>1 DEF NodeAccepted, MemoryTyped, NodeComplete
  <1>. QED
    BY <1>1, <1>3, <1>4

\* The same node with the same operands.
LEMMA ExecuteKeeps ==
  ASSUME NEW bs, NEW cs, DefinesOnce(bs), DefinesOnce(cs), NEW n \in NodesOf(bs) \cap NodesOf(cs),
         OneResult(n), NodeAccepted(n), NEW x, PointersAt(n, x, bs),
         NEW s, NEW t, DOMAIN s = Fields, Alike(s, t, bs, cs)
  PROVE  Sim(Execute(s, n, x), Execute(t, n, x), bs, cs)
  <1> DEFINE v == The(n.res)
             N == ReadNames(bs)
  <1>1. CASE n.op \in Defining
    <2>1. v \in n.res
      BY <1>1, TheOnly DEF OneResult, Droppable, Defining
    <2>2. ASSUME NEW r \in ResultsOf(n, x) PROVE Fits(v.name, r, bs, cs)
      <3>1. n.op = "const" => r = Literal(v.typ, The(n.imm))
        BY DEF ResultsOf, Arith, Compares
      <3>2. IsPtr(v.typ) => "base" \in DOMAIN r /\ r.base \in ReadNames(bs)
        <4>1. CASE n.op = "gep"
          <5>1. "base" \in DOMAIN x[1] /\ x[1].base \in N
            BY <2>1, <4>1, ResultType DEF PointersAt
          <5>2. r = [x[1] EXCEPT !.at = @ + x[2][1]]
            BY <4>1 DEF ResultsOf, Arith, Compares
          <5>3. DOMAIN r = DOMAIN x[1] /\ r.base = x[1].base
            BY <5>1, <5>2
          <5>. QED
            BY <5>1, <5>3
        <4>2. CASE n.op # "gep"
          BY <1>1, <2>1, <4>2, ResultType
        <4>. QED
          BY <4>1, <4>2
      <3>. HIDE DEF v
      <3>. QED
        BY <2>1, <3>1, <3>2, ResultFits
    <2>3. Sim(Define(s, n, ResultsOf(n, x)), Define(t, n, ResultsOf(n, x)), bs, cs)
      BY <2>2, DefineKeeps
    <2>. QED
      BY <1>1, <2>3, ExecuteDefining
  <1>2. CASE n.op = "alloca"
    <2> DEFINE g == [i \in 0 .. x[1][1] - 1 |-> Whole(0)]
               p == [base |-> v.name, at |-> 0]
               u == [s EXCEPT !.mem = Put(@, v.name, g)]
               w == [t EXCEPT !.mem = Put(@, v.name, g)]
    <2>1. v \in n.res
      BY <1>2, TheOnly DEF OneResult, Droppable
    <2>2. CASE x[1][1] < 0
      <3>1. Execute(s, n, x) = Undefined(s)
        BY <1>2, <2>2, ExecuteAlloca
      <3>. QED
        BY <3>1, UndefinedKeeps
    <2>3. CASE ~(x[1][1] < 0)
      <3>1. Execute(s, n, x) = Define(u, n, {p}) /\ Execute(t, n, x) = Define(w, n, {p})
        BY <1>2, <2>3, ExecuteAlloca
      <3>2. Agree(Put(s.mem, v.name, g), Put(t.mem, v.name, g), N)
        BY PutAgrees DEF Alike
      <3>3. DOMAIN u = Fields
        OBVIOUS
      <3>4. Alike(u, w, bs, cs)
        <4>. HIDE DEF v, g
        <4>. QED
          BY <3>2, MemKeeps
      <3>5. v.name \in N => Fits(v.name, p, bs, cs)
        <4> SUFFICES ASSUME v.name \in N PROVE Fits(v.name, p, bs, cs)
          OBVIOUS
        <4>1. "base" \in DOMAIN p /\ p.base \in ReadNames(bs)
          OBVIOUS
        <4>. HIDE DEF v, p
        <4>. QED
          BY <1>2, <2>1, <4>1, ResultFits
      <3>. HIDE DEF u, w, p
      <3>6. Sim(Define(u, n, {p}), Define(w, n, {p}), bs, cs)
        BY <3>3, <3>4, <3>5, DefineKeeps
      <3>. QED
        BY <3>1, <3>6
    <2>. QED
      BY <2>2, <2>3
  <1>3. CASE n.op \in {"load", "store"}
    <2> DEFINE b == x[1].base
    <2>1. b \in N
      <3>1. ASSUME NEW y \in n.res PROVE 1 \in DOMAIN n.args /\ IsPtr(n.args[1].typ)
        BY <1>3, ResultType
      <3>2. 1 \in DOMAIN n.args /\ n.args[1].typ = PtrTo[n.elem] /\ n.elem \in Scalars
        BY <1>3 DEF NodeAccepted, MemoryTyped, NodeComplete
      <3>3. IsPtr(n.args[1].typ)
        BY <3>2 DEF IsPtr, Pointers
      <3>. QED
        BY <3>2, <3>3 DEF PointersAt
    <2>2. /\ Agree(s.mem, t.mem, N)
          /\ b \in DOMAIN s.mem <=> b \in DOMAIN t.mem
          /\ b \in DOMAIN s.mem => s.mem[b] = t.mem[b]
      BY <2>1 DEF Alike, Agree
    <2>3. InBounds(s, x[1]) <=> InBounds(t, x[1])
      BY <2>2 DEF InBounds
    <2>4. CASE ~InBounds(s, x[1])
      <3>1. Execute(s, n, x) = Undefined(s)
        BY <1>3, <2>4, ExecuteLoad, ExecuteStore
      <3>. QED
        BY <3>1, UndefinedKeeps
    <2>5. CASE InBounds(s, x[1]) /\ n.op = "load"
      <3> DEFINE r == At(s, x[1])
      <3>1. At(t, x[1]) = r
        BY <2>2, <2>5 DEF InBounds, At
      <3>2. Execute(s, n, x) = Define(s, n, {r}) /\ Execute(t, n, x) = Define(t, n, {r})
        BY <2>3, <2>5, <3>1, ExecuteLoad
      <3>. HIDE DEF r, v
      <3>3. v \in n.res
        BY <2>5, TheOnly DEF OneResult, Droppable, v
      <3>4. ~IsPtr(v.typ)
        BY <2>5, <3>3, ResultType
      <3>5. Fits(v.name, r, bs, cs)
        BY <2>5, <3>3, <3>4, ResultFits
      <3>6. Sim(Define(s, n, {r}), Define(t, n, {r}), bs, cs)
        BY <3>5, DefineKeeps DEF v
      <3>. QED
        BY <3>2, <3>6
    <2>6. CASE InBounds(s, x[1]) /\ n.op = "store"
      <3> DEFINE a == [s.mem[b] EXCEPT ![x[1].at] = x[2]]
                 g == [s.mem EXCEPT ![b] = a]
                 h == [t.mem EXCEPT ![b] = a]
                 u == [s EXCEPT !.mem = g]
                 w == [t EXCEPT !.mem = h]
      <3>1. b \in DOMAIN s.mem
        BY <2>6 DEF InBounds
      <3>2. /\ Execute(s, n, x) = [s EXCEPT !.mem[b][x[1].at] = x[2]]
            /\ Execute(t, n, x) = [t EXCEPT !.mem[b][x[1].at] = x[2]]
        BY <2>3, <2>6, ExecuteStore
      <3>3. [s EXCEPT !.mem[b][x[1].at] = x[2]] = u
        OBVIOUS
      <3>4. [t EXCEPT !.mem[b][x[1].at] = x[2]] = w
        <4>1. t.mem[b] = s.mem[b]
          BY <2>2, <3>1
        <4>2. [t EXCEPT !.mem[b][x[1].at] = x[2]]
              = [t EXCEPT !.mem = [t.mem EXCEPT ![b] = [t.mem[b] EXCEPT ![x[1].at] = x[2]]]]
          OBVIOUS
        <4>. QED
          BY <4>1, <4>2
      <3>5. Agree(g, h, N)
        BY <2>2, <3>1 DEF Agree
      <3>6. DOMAIN u = Fields
        OBVIOUS
      <3>7. Alike(u, w, bs, cs)
        <4>. HIDE DEF g, h, b
        <4>. QED
          BY <3>5, MemKeeps
      <3>. HIDE DEF u, w, b
      <3>8. Sim(u, w, bs, cs)
        BY <3>6, <3>7 DEF Sim
      <3>. QED
        BY <3>2, <3>3, <3>4, <3>8
    <2>. QED
      BY <1>3, <2>4, <2>5, <2>6
  <1>4. CASE n.op \notin Defining \cup {"alloca", "load", "store"}
    <2>1. Execute(s, n, x) = Undefined(s)
      BY <1>4, ExecuteOther
    <2>. QED
      BY <2>1, UndefinedKeeps
  <1>. QED
    BY <1>1, <1>2, <1>3, <1>4

-----------------------------------------------------------------------------
(* What a pass makes of a function, as far as runs of the two can tell. *)

\* A node stays as it is, or becomes a literal that stands for its number.
Becomes(n, m, cs) == FoldsTo(n, m, NodesOf(cs)) /\ (m # n => ExactLiterals(cs))

\* The nodes new come from the nodes old at the positions e, in their order; the
\* others are dropped.
Turns(e, old, new, names, cs) ==
  /\ e \in [1 .. Len(new) -> 1 .. Len(old)]
  /\ \A i, j \in 1 .. Len(new) : i < j => e[i] < e[j]
  /\ \A i \in 1 .. Len(new) : Becomes(old[e[i]], new[i], cs)
  /\ \A j \in 1 .. Len(old) : (\E i \in 1 .. Len(new) : e[i] = j) \/ Unread(old[j], names)

ScalarArgs == \A v \in Range(Args) : ~IsPtr(v.typ)

Optimises(bs, cs) ==
  /\ Ready(bs) /\ Ready(cs) /\ Accepted(bs) /\ Accepted(cs) /\ SameGraph(bs, cs)
  /\ Entry \in DOMAIN bs /\ ScalarArgs /\ NoOrderOfBooleans(bs)
  /\ \A l \in DOMAIN bs : \E e : Turns(e, bs[l].nodes, cs[l].nodes, ReadNames(bs), cs)

LEMMA OptimisesFacts ==
  ASSUME NEW bs, NEW cs, Optimises(bs, cs)
  PROVE  /\ DefinesOnce(bs) /\ DefinesOnce(cs)
         /\ \A n \in NodesOf(bs) : NodeAccepted(n) /\ OneResult(n)
         /\ \A n \in NodesOf(cs) : NodeAccepted(n) /\ OneResult(n)
  BY AcceptedDefinesOnce, AcceptedNode DEF Optimises

\* The nodes of a block of cs and those of bs they come from.
LEMMA TurnsFacts ==
  ASSUME NEW bs, NEW cs, Optimises(bs, cs), NEW l \in DOMAIN bs, NEW e,
         Turns(e, bs[l].nodes, cs[l].nodes, ReadNames(bs), cs)
  PROVE  /\ HasPositions(bs[l].nodes) /\ HasPositions(cs[l].nodes)
         /\ l \in DOMAIN cs /\ cs[l].term = bs[l].term
         /\ \A i \in 1 .. Len(cs[l].nodes) :
              /\ cs[l].nodes[i] \in NodesOf(cs)
              /\ e[i] \in 1 .. Len(bs[l].nodes) /\ bs[l].nodes[e[i]] \in NodesOf(bs)
              /\ Becomes(bs[l].nodes[e[i]], cs[l].nodes[i], cs)
              /\ cs[l].nodes[i].res = bs[l].nodes[e[i]].res
         /\ \A j \in 1 .. Len(bs[l].nodes) : bs[l].nodes[j] \in NodesOf(bs)
  <1>1. l \in DOMAIN cs /\ cs[l].term = bs[l].term /\ Ready(bs) /\ Ready(cs)
    BY DEF Optimises, SameGraph
  <1>2. HasPositions(bs[l].nodes) /\ HasPositions(cs[l].nodes)
    BY <1>1, Positioned
  <1>3. \A j \in 1 .. Len(bs[l].nodes) : bs[l].nodes[j] \in NodesOf(bs)
    BY <1>2 DEF HasPositions, NodesOf
  <1>4. ASSUME NEW i \in 1 .. Len(cs[l].nodes)
        PROVE  /\ cs[l].nodes[i] \in NodesOf(cs)
               /\ e[i] \in 1 .. Len(bs[l].nodes) /\ bs[l].nodes[e[i]] \in NodesOf(bs)
               /\ Becomes(bs[l].nodes[e[i]], cs[l].nodes[i], cs)
               /\ cs[l].nodes[i].res = bs[l].nodes[e[i]].res
    <2> DEFINE n == bs[l].nodes[e[i]]
               m == cs[l].nodes[i]
    <2>1. m \in NodesOf(cs)
      BY <1>1, <1>2 DEF HasPositions, NodesOf
    <2>2. e[i] \in 1 .. Len(bs[l].nodes) /\ Becomes(n, m, cs)
      BY DEF Turns
    <2>3. n \in NodesOf(bs)
      BY <1>3, <2>2
    <2>. HIDE DEF n, m
    <2>4. OneResult(n)
      BY <2>3, OptimisesFacts
    <2>5. m.res = n.res
      BY <2>2, <2>4, FoldsToSimplifies DEF Becomes, Simplifies
    <2>. QED
      BY <2>1, <2>2, <2>3, <2>5 DEF n, m
  <1>. QED
    BY <1>1, <1>2, <1>3, <1>4

\* Each node of cs has the result of one of bs.
LEMMA Sourced ==
  ASSUME NEW bs, NEW cs, Optimises(bs, cs), NEW c \in NodesOf(cs)
  PROVE  \E o \in NodesOf(bs) : c.res = o.res
  <1>1. PICK l \in DOMAIN cs : c \in Range(cs[l].nodes)
    BY DEF NodesOf
  <1>2. l \in DOMAIN bs
    BY <1>1 DEF Optimises, SameGraph
  <1>3. PICK e : Turns(e, bs[l].nodes, cs[l].nodes, ReadNames(bs), cs)
    BY <1>2 DEF Optimises
  <1>4. HasPositions(cs[l].nodes)
    BY <1>2, <1>3, TurnsFacts
  <1>5. PICK i \in 1 .. Len(cs[l].nodes) : cs[l].nodes[i] = c
    BY <1>1, <1>4 DEF HasPositions
  <1>6. \A j \in 1 .. Len(cs[l].nodes) :
          e[j] \in 1 .. Len(bs[l].nodes) /\ bs[l].nodes[e[j]] \in NodesOf(bs)
            /\ cs[l].nodes[j].res = bs[l].nodes[e[j]].res
    BY <1>2, <1>3, TurnsFacts
  <1>. QED
    BY <1>5, <1>6

\* The operands of a node of bs are read in both runs.
OperandsOf(s, n) == [i \in DOMAIN n.args |-> s.env[n.args[i].name]]

LEMMA OperandsAgree ==
  ASSUME NEW bs, NEW cs, Optimises(bs, cs), NEW n \in NodesOf(bs), NEW s, NEW t,
         Alike(s, t, bs, cs), \A v \in Range(n.args) : v.name \in DOMAIN s.env
  PROVE  /\ \A v \in Range(n.args) : v.name \in DOMAIN t.env
         /\ OperandsOf(t, n) = OperandsOf(s, n)
         /\ PointersAt(n, OperandsOf(s, n), bs)
  <1>1. ASSUME NEW v \in Range(n.args)
        PROVE  v.name \in ReadNames(bs) /\ v.name \in DOMAIN t.env /\ s.env[v.name] = t.env[v.name]
    <2>1. v.name \in ReadNames(bs)
      BY NodeReads
    <2>. QED
      BY <2>1 DEF Alike, Agree
  <1>2. \A i \in DOMAIN n.args : n.args[i] \in Range(n.args)
    BY DEF Range
  <1>3. ASSUME NEW i \in DOMAIN n.args, IsPtr(n.args[i].typ)
        PROVE  /\ "base" \in DOMAIN s.env[n.args[i].name]
               /\ s.env[n.args[i].name].base \in ReadNames(bs)
    <2> DEFINE v == n.args[i]
    <2>1. v \in Range(n.args)
      BY <1>2
    <2>2. v \notin Range(Args)
      BY <1>3 DEF Optimises, ScalarArgs
    <2>. HIDE DEF v
    <2>3. PICK o \in NodesOf(bs) : v \in o.res
      BY <2>1, <2>2, ReadIsDefined DEF Optimises
    <2>4. Fits(v.name, s.env[v.name], bs, cs)
      BY <1>1, <2>1 DEF Alike
    <2>5. IsPtr(v.typ)
      BY <1>3 DEF v
    <2>6. "base" \in DOMAIN s.env[v.name] /\ s.env[v.name].base \in ReadNames(bs)
      BY <2>3, <2>4, <2>5 DEF Fits
    <2>. QED
      BY <2>6 DEF v
  <1>4. PointersAt(n, OperandsOf(s, n), bs)
    BY <1>3 DEF PointersAt, OperandsOf
  <1>. QED
    BY <1>1, <1>2, <1>4 DEF OperandsOf

\* A step that needs nothing of the run it is compared with.
LEMMA StepUndefined ==
  ASSUME NEW s, DOMAIN s = Fields, NEW n,
         s.k # "run" \/ \E v \in Range(n.args) : v.name \notin DOMAIN s.env
  PROVE  /\ ~IsPhi(n) => Step(s, n) = Undefined(s)
         /\ IsPhi(n) => Step(s, n) = s
         /\ s.k = "undefined" => DOMAIN Step(s, n) = Fields /\ Step(s, n).k = "undefined"
  <1>1. /\ ~IsPhi(n) => Step(s, n) = Undefined(s)
        /\ IsPhi(n) => Step(s, n) = s
    BY DEF Step
  <1>2. DOMAIN Undefined(s) = Fields /\ Undefined(s).k = "undefined"
    BY DEF Undefined, Fields
  <1>. QED
    BY <1>1, <1>2

LEMMA StepRuns ==
  ASSUME NEW s, NEW n, ~IsPhi(n), s.k = "run", \A v \in Range(n.args) : v.name \in DOMAIN s.env
  PROVE  Step(s, n) = Execute(s, n, OperandsOf(s, n))
  BY DEF Step, OperandsOf

\* A node that the pass keeps.
LEMMA StepKept ==
  ASSUME NEW bs, NEW cs, Optimises(bs, cs), NEW n \in NodesOf(bs) \cap NodesOf(cs),
         NEW s, NEW t, Sim(s, t, bs, cs)
  PROVE  Sim(Step(s, n), Step(t, n), bs, cs)
  <1>0. DOMAIN s = Fields
    BY DEF Sim
  <1>1. CASE s.k = "undefined"
    <2>1. DOMAIN Step(s, n) = Fields /\ Step(s, n).k = "undefined"
      BY <1>0, <1>1, StepUndefined
    <2>. QED
      BY <2>1 DEF Sim
  <1>2. CASE s.k # "undefined" /\ IsPhi(n)
    BY <1>2 DEF Step
  <1>3. CASE ~IsPhi(n) /\ (s.k # "run" \/ \E v \in Range(n.args) : v.name \notin DOMAIN s.env)
    <2>1. Step(s, n) = Undefined(s)
      BY <1>0, <1>3, StepUndefined
    <2>. QED
      BY <1>0, <2>1, UndefinedKeeps
  <1>4. CASE ~IsPhi(n) /\ s.k = "run" /\ \A v \in Range(n.args) : v.name \in DOMAIN s.env
    <2>1. Alike(s, t, bs, cs) /\ t.k = "run"
      BY <1>4 DEF Sim, Alike
    <2>2. /\ \A v \in Range(n.args) : v.name \in DOMAIN t.env
          /\ OperandsOf(t, n) = OperandsOf(s, n) /\ PointersAt(n, OperandsOf(s, n), bs)
      BY <1>4, <2>1, OperandsAgree
    <2>3. Step(s, n) = Execute(s, n, OperandsOf(s, n)) /\ Step(t, n) = Execute(t, n, OperandsOf(s, n))
      BY <1>4, <2>1, <2>2, StepRuns
    <2>4. Sim(Execute(s, n, OperandsOf(s, n)), Execute(t, n, OperandsOf(s, n)), bs, cs)
      BY <1>0, <2>1, <2>2, OptimisesFacts, ExecuteKeeps
    <2>. QED
      BY <2>3, <2>4
  <1>. QED
    BY <1>1, <1>2, <1>3, <1>4

\* A node that the pass drops.
LEMMA StepDropped ==
  ASSUME NEW bs, NEW cs, Optimises(bs, cs), NEW n \in NodesOf(bs), Unread(n, ReadNames(bs)),
         NEW s, NEW t, Sim(s, t, bs, cs)
  PROVE  Sim(Step(s, n), t, bs, cs)
  <1> DEFINE x == OperandsOf(s, n)
             v == The(n.res)
  <1>0. DOMAIN s = Fields
    BY DEF Sim
  <1>1. v.name \notin ReadNames(bs) /\ n.op \in Droppable
    <2>1. v \in n.res
      BY OptimisesFacts, TheOnly DEF Unread, OneResult
    <2>. QED
      BY <2>1 DEF Unread, NamesOf
  <1>2. CASE s.k = "undefined"
    <2>1. DOMAIN Step(s, n) = Fields /\ Step(s, n).k = "undefined"
      BY <1>0, <1>2, StepUndefined
    <2>. QED
      BY <2>1 DEF Sim
  <1>3. CASE IsPhi(n)
    BY <1>3 DEF Step
  <1>4. CASE ~IsPhi(n) /\ (s.k # "run" \/ \E w \in Range(n.args) : w.name \notin DOMAIN s.env)
    <2>1. Step(s, n) = Undefined(s)
      BY <1>0, <1>4, StepUndefined
    <2>. QED
      BY <1>0, <2>1, UndefinedKeeps
  <1>5. CASE ~IsPhi(n) /\ s.k = "run" /\ \A w \in Range(n.args) : w.name \in DOMAIN s.env
    <2>1. Alike(s, t, bs, cs)
      BY <1>5 DEF Sim
    <2>2. Step(s, n) = Execute(s, n, x)
      BY <1>5, StepRuns
    <2>3. n.op \in Defining \cup {"alloca", "load"}
      BY <1>1, <1>5 DEF Droppable, Defining, IsPhi
    <2>. HIDE DEF x
    <2>4. ASSUME NEW R PROVE Sim(Define(s, n, R), t, bs, cs)
      BY <1>0, <1>1, <2>1, DefineKeeps
    <2>5. CASE n.op \in Defining
      BY <2>2, <2>4, <2>5, ExecuteDefining
    <2>6. CASE n.op = "load"
      <3>1. Execute(s, n, x) = Undefined(s) \/ Execute(s, n, x) = Define(s, n, {At(s, x[1])})
        BY <2>6, ExecuteLoad
      <3>2. Sim(Undefined(s), t, bs, cs)
        BY <1>0, UndefinedKeeps
      <3>. QED
        BY <2>2, <2>4, <3>1, <3>2
    <2>7. CASE n.op = "alloca"
      <3> DEFINE g == [i \in 0 .. x[1][1] - 1 |-> Whole(0)]
                 p == [base |-> v.name, at |-> 0]
                 h == Put(s.mem, v.name, g)
                 u == [s EXCEPT !.mem = h]
      <3>1. Execute(s, n, x) = IF x[1][1] < 0 THEN Undefined(s) ELSE Define(u, n, {p})
        BY <2>7, ExecuteAlloca
      <3>2. Agree(h, t.mem, ReadNames(bs))
        BY <1>1, <2>1, PutAgrees DEF Alike
      <3>3. DOMAIN u = Fields
        BY <1>0
      <3>. HIDE DEF h, p
      <3>4. Alike(u, t, bs, cs)
        BY <1>0, <2>1, <3>2, MemKeeps
      <3>. HIDE DEF u
      <3>5. Sim(Define(u, n, {p}), t, bs, cs)
        BY <1>1, <3>3, <3>4, DefineKeeps
      <3>6. Sim(Undefined(s), t, bs, cs)
        BY <1>0, UndefinedKeeps
      <3>. QED
        BY <2>2, <3>1, <3>5, <3>6
    <2>. QED
      BY <2>3, <2>5, <2>6, <2>7
  <1>. QED
    BY <1>2, <1>3, <1>4, <1>5

\* What a run knows of an operand that a constant of cs stands for.
LEMMA LiteralOperand ==
  ASSUME NEW bs, NEW cs, Optimises(bs, cs), ExactLiterals(cs), NEW n \in NodesOf(bs),
         NEW v \in Range(n.args), NEW c \in NodesOf(cs), c.op = "const", v.name \in ResNames(c),
         NEW s, NEW t, Alike(s, t, bs, cs), v.name \in DOMAIN s.env
  PROVE  /\ s.env[v.name] = The(c.imm) /\ The(c.imm) \in Int \X Nat
         /\ Literal(v.typ, The(c.imm)) = The(c.imm)
  <1>1. PICK w \in c.res : w.name = v.name
    BY DEF ResNames
  <1>2. PICK o \in NodesOf(bs) : c.res = o.res
    BY Sourced
  <1>3. v = w
    BY <1>1, <1>2, OptimisesFacts, SameNameSameValue DEF Optimises
  <1>4. Fits(v.name, s.env[v.name], bs, cs)
    BY NodeReads DEF Alike
  <1>5. s.env[v.name] = Literal(v.typ, The(c.imm))
    BY <1>1, <1>3, <1>4 DEF Fits
  <1>6. Exact(c) /\ OneResult(c)
    <2>1. PICK l \in DOMAIN cs : c \in Range(cs[l].nodes)
      BY DEF NodesOf
    <2>. QED
      BY <2>1, OptimisesFacts DEF ExactLiterals
  <1>7. The(c.res) = v
    BY <1>1, <1>3, <1>6, TheOnly DEF OneResult
  <1>. QED
    BY <1>5, <1>6, <1>7 DEF Exact

\* What an operation computes, as far as it is defined, of the numbers it was folded of.
LEMMA FoldedResult ==
  ASSUME NEW n, n.op \in Folds, NodeAccepted(n), OneResult(n),
         n.op \in {"lt", "le", "gt", "ge"} => n.args[1].typ # "bool",
         NEW p \in Int \X Nat, Literal(n.args[1].typ, p) = p,
         NEW q \in Int \X Nat, Literal(n.args[2].typ, q) = q,
         NEW r \in Fold(n.op, p, q), r \in Int \X Nat, Literal(The(n.res).typ, r) = r,
         NEW x, x[1] = p, x[2] = q
  PROVE  ResultsOf(n, x) \subseteq {r}
  <1> DEFINE v == The(n.res)
  <1>1. v \in n.res /\ n.res = {v}
    BY TheOnly DEF OneResult, Droppable, Folds
  <1>2. DOMAIN n.args = 1 .. 2 /\ {n.args[1], n.args[2]} \subseteq Range(n.args)
    BY DEF NodeAccepted, NodeComplete, Folds, Range
  <1>. HIDE DEF v
  <1>3. CASE n.op \in Arith
    <2>1. Types(n.args) = {v.typ} /\ v.typ \in Scalars
      BY <1>1, <1>3 DEF NodeAccepted, ArithTyped, ResTypes
    <2>2. n.args[2].typ = v.typ
      BY <1>2, <2>1 DEF Types
    <2>3. ResultsOf(n, x) = Arithmetic(n.op, v.typ, p, q)
      BY <1>3 DEF ResultsOf, Arith, Compares, v
    <2>4. Literal(v.typ, r) = r
      BY DEF v
    <2>. QED
      BY <1>3, <2>1, <2>2, <2>3, <2>4, ArithmeticFolds
  <1>4. CASE n.op \in Compares
    <2>1. n.args[1].typ = n.args[2].typ
      BY <1>4 DEF NodeAccepted, MemoryTyped
    <2>2. ResultsOf(n, x) = Comparison(n.op, n.args[1].typ, p, q)
      BY <1>4 DEF ResultsOf, Arith, Compares
    <2>3. n.args[1].typ = "bool" => n.op \in {"eq", "ne"}
      BY <1>4 DEF Compares
    <2>4. Comparison(n.op, n.args[1].typ, p, q) = {r}
      <3> DEFINE typ == n.args[1].typ
      <3>1. typ = "bool" => n.op \in {"eq", "ne"} /\ Literal(typ, p) = p /\ Literal(typ, q) = q
        BY <2>1, <2>3
      <3>. HIDE DEF typ
      <3>2. Comparison(n.op, typ, p, q) = {r}
        BY <1>4, <3>1, ComparisonFolds
      <3>. QED
        BY <3>2 DEF typ
    <2>. QED
      BY <2>2, <2>4
  <1>5. CASE n.op = "id"
    <2>1. ResultsOf(n, x) = {p}
      BY <1>5 DEF ResultsOf, Arith, Compares
    <2>2. r = p
      BY <1>5 DEF Fold, Compute
    <2>. QED
      BY <2>1, <2>2
  <1>. QED
    BY <1>3, <1>4, <1>5 DEF Folds

\* A node that the pass folds.
LEMMA StepFolded ==
  ASSUME NEW bs, NEW cs, Optimises(bs, cs), NEW n \in NodesOf(bs), NEW m \in NodesOf(cs),
         m # n, Becomes(n, m, cs), NEW s, NEW t, Sim(s, t, bs, cs)
  PROVE  Sim(Step(s, n), Step(t, m), bs, cs)
  <1> DEFINE x == OperandsOf(s, n)
             v == The(n.res)
  <1>0. DOMAIN s = Fields /\ ExactLiterals(cs)
    BY DEF Sim, Becomes
  <1>1. PICK b, c \in NodesOf(cs) :
          /\ n.op \in Folds /\ b.op = "const" /\ n.args[1].name \in ResNames(b)
          /\ c.op = "const" /\ n.args[2].name \in ResNames(c)
          /\ \E p \in Fold(n.op, The(b.imm), The(c.imm)) : m = ConstNode(The(n.res), p)
    BY DEF Becomes, FoldsTo
  <1>2. PICK r \in Fold(n.op, The(b.imm), The(c.imm)) : m = ConstNode(v, r)
    BY <1>1
  <1>3. ~IsPhi(n) /\ ~IsPhi(m)
    BY <1>1, <1>2 DEF IsPhi, Folds, Arith, Compares, ConstNode
  <1>4. CASE s.k # "run" \/ \E w \in Range(n.args) : w.name \notin DOMAIN s.env
    <2>1. Step(s, n) = Undefined(s)
      BY <1>0, <1>3, <1>4, StepUndefined
    <2>. QED
      BY <1>0, <2>1, UndefinedKeeps
  <1>5. CASE s.k = "run" /\ \A w \in Range(n.args) : w.name \in DOMAIN s.env
    <2>1. Alike(s, t, bs, cs) /\ t.k = "run"
      BY <1>5 DEF Sim, Alike
    <2>2. /\ NodeAccepted(n) /\ OneResult(n) /\ OneResult(m)
          /\ DefinesOnce(bs) /\ DefinesOnce(cs)
      BY OptimisesFacts
    <2>3. v \in n.res /\ n.res = {v} /\ ~IsPtr(v.typ)
      <3>1. v \in n.res /\ n.res = {v}
        BY <1>1, <2>2, TheOnly DEF OneResult, Droppable, Folds
      <3>2. n.op \in Defining \ {"gep"}
        BY <1>1 DEF Folds, Defining, Arith, Compares
      <3>. QED
        BY <2>2, <3>1, <3>2, ResultType
    <2>4. m.op = "const" /\ m.args = <<>> /\ m.res = n.res /\ The(m.imm) = r
      BY <1>2, <2>3 DEF ConstNode, The
    <2>5. DOMAIN n.args = 1 .. 2
      BY <1>1, <2>2 DEF NodeAccepted, NodeComplete, Folds
    <2>6. {n.args[1], n.args[2]} \subseteq Range(n.args)
      BY <2>5 DEF Range
    <2>7. x[1] = s.env[n.args[1].name] /\ x[2] = s.env[n.args[2].name]
      BY <2>5 DEF OperandsOf
    <2>. HIDE DEF x
    <2>8. /\ x[1] = The(b.imm) /\ The(b.imm) \in Int \X Nat
          /\ Literal(n.args[1].typ, The(b.imm)) = The(b.imm)
      BY <1>0, <1>1, <1>5, <2>1, <2>6, <2>7, LiteralOperand
    <2>9. /\ x[2] = The(c.imm) /\ The(c.imm) \in Int \X Nat
          /\ Literal(n.args[2].typ, The(c.imm)) = The(c.imm)
      BY <1>0, <1>1, <1>5, <2>1, <2>6, <2>7, LiteralOperand
    <2>10. r \in Int \X Nat /\ Literal(v.typ, r) = r
      <3>1. Exact(m)
        BY <1>0 DEF ExactLiterals, NodesOf
      <3>. QED
        BY <2>3, <2>4, <3>1 DEF Exact
    <2>11. ResultsOf(n, x) \subseteq {r}
      <3>1. n.op \in {"lt", "le", "gt", "ge"} => n.args[1].typ # "bool"
        BY DEF Optimises, NoOrderOfBooleans
      <3>. QED
        BY <1>1, <2>2, <2>8, <2>9, <2>10, <3>1, FoldedResult
    <2>12. Step(s, n) = Define(s, n, ResultsOf(n, x))
      <3>1. n.op \in Defining
        BY <1>1 DEF Folds, Defining
      <3>. QED
        BY <1>3, <1>5, <3>1, StepRuns, ExecuteDefining DEF x
    <2>13. Step(t, m) = Define(t, m, {r})
      <3>1. Range(m.args) = {}
        BY <2>4 DEF Range
      <3>2. Step(t, m) = Execute(t, m, OperandsOf(t, m))
        BY <1>3, <2>1, <3>1, StepRuns
      <3>3. ResultsOf(m, OperandsOf(t, m)) = {Literal(The(m.res).typ, The(m.imm))}
        BY <2>4 DEF ResultsOf, Arith, Compares
      <3>4. Execute(t, m, OperandsOf(t, m)) = Define(t, m, ResultsOf(m, OperandsOf(t, m)))
        BY <2>4, ExecuteDefining DEF Defining
      <3>. QED
        BY <2>4, <2>10, <3>2, <3>3, <3>4
    <2>14. Fits(v.name, r, bs, cs)
      BY <2>2, <2>3, <2>4, <2>10, ResultFits
    <2>15. CASE ResultsOf(n, x) = {r}
      <3>1. Sim(Define(s, n, {r}), Define(t, m, {r}), bs, cs)
        <4>. HIDE DEF v
        <4>. QED
          BY <1>0, <2>1, <2>4, <2>14, DefineKeeps DEF v
      <3>. QED
        BY <2>12, <2>13, <2>15, <3>1
    <2>16. CASE ResultsOf(n, x) = {}
      <3>1. Step(s, n) = Undefined(s)
        BY <2>12, <2>16 DEF Define
      <3>. QED
        BY <1>0, <3>1, UndefinedKeeps
    <2>. QED
      BY <2>11, <2>15, <2>16
  <1>. QED
    BY <1>4, <1>5

-----------------------------------------------------------------------------
(* One block, in both runs. *)

PhisOf(block) == {n \in Range(block.nodes) : IsPhi(n)}
Named(n) == The(n.res).name

\* A phi of cs is one of bs, and one of bs that is read is one of cs.
LEMMA PhisKept ==
  ASSUME NEW bs, NEW cs, Optimises(bs, cs), NEW l \in DOMAIN bs
  PROVE  /\ PhisOf(cs[l]) \subseteq PhisOf(bs[l])
         /\ \A n \in PhisOf(bs[l]) :
              /\ n \in NodesOf(bs) /\ n.op = "phi" /\ The(n.res) \in n.res
              /\ Named(n) \in ReadNames(bs) => n \in PhisOf(cs[l]) /\ n \in NodesOf(cs)
  <1> DEFINE old == bs[l].nodes
             new == cs[l].nodes
  <1>1. PICK e : Turns(e, old, new, ReadNames(bs), cs)
    BY DEF Optimises
  <1>2. /\ HasPositions(old) /\ HasPositions(new) /\ l \in DOMAIN cs
        /\ \A i \in 1 .. Len(new) : e[i] \in 1 .. Len(old) /\ Becomes(old[e[i]], new[i], cs)
    BY <1>1, TurnsFacts
  <1>3. ASSUME NEW n \in PhisOf(cs[l]) PROVE n \in PhisOf(bs[l])
    <2>1. n \in Range(new) /\ n.op = "phi"
      BY DEF PhisOf, IsPhi
    <2>2. PICK i \in 1 .. Len(new) : new[i] = n
      BY <1>2, <2>1 DEF HasPositions
    <2>3. e[i] \in 1 .. Len(old) /\ Becomes(old[e[i]], n, cs)
      BY <1>2, <2>2
    <2>4. n = old[e[i]]
      BY <2>1, <2>3 DEF Becomes, FoldsTo, ConstNode
    <2>5. n \in Range(old)
      BY <1>2, <2>3, <2>4 DEF HasPositions
    <2>. QED
      BY <2>1, <2>5 DEF PhisOf, IsPhi
  <1>4. ASSUME NEW n \in PhisOf(bs[l])
        PROVE  /\ n \in NodesOf(bs) /\ n.op = "phi" /\ The(n.res) \in n.res
               /\ Named(n) \in ReadNames(bs) => n \in PhisOf(cs[l]) /\ n \in NodesOf(cs)
    <2>1. n \in Range(old) /\ n.op = "phi"
      BY DEF PhisOf, IsPhi
    <2>2. n \in NodesOf(bs)
      BY <2>1 DEF NodesOf
    <2>3. The(n.res) \in n.res
      BY <2>1, <2>2, OptimisesFacts, TheOnly DEF OneResult, Droppable
    <2>4. PICK j \in 1 .. Len(old) : old[j] = n
      BY <1>2, <2>1 DEF HasPositions
    <2>5. ASSUME Named(n) \in ReadNames(bs) PROVE n \in Range(new)
      <3>1. ~Unread(n, ReadNames(bs))
        BY <2>3, <2>5 DEF Unread, NamesOf, Named
      <3>2. PICK i \in 1 .. Len(new) : e[i] = j
        BY <1>1, <2>4, <3>1 DEF Turns
      <3>3. Becomes(n, new[i], cs)
        BY <1>2, <2>4, <3>2
      <3>4. new[i] = n
        BY <2>1, <3>3 DEF Becomes, FoldsTo, Folds, Arith, Compares
      <3>. QED
        BY <1>2, <3>4 DEF HasPositions
    <2>6. ASSUME n \in Range(new) PROVE n \in PhisOf(cs[l]) /\ n \in NodesOf(cs)
      BY <1>2, <2>1, <2>6 DEF PhisOf, IsPhi, NodesOf
    <2>. QED
      BY <2>1, <2>2, <2>3, <2>5, <2>6
  <1>. QED
    BY <1>3, <1>4

\* The values that phis take: those of the edge that was taken.
Taken(s, phis) ==
  [x \in {The(n.res).name : n \in phis} |->
     s.env[(CHOOSE n \in phis : The(n.res).name = x).inc[s.from].name]]

LEMMA TakenFacts ==
  ASSUME NEW s, NEW phis, \A n, m \in phis : Named(n) = Named(m) => n = m
  PROVE  /\ \A x \in DOMAIN Taken(s, phis) : \E n \in phis : Named(n) = x
         /\ \A n \in phis : /\ Named(n) \in DOMAIN Taken(s, phis)
                            /\ Taken(s, phis)[Named(n)] = s.env[n.inc[s.from].name]
  <1>1. DOMAIN Taken(s, phis) = {Named(n) : n \in phis}
    BY DEF Taken, Named
  <1>2. ASSUME NEW n \in phis
        PROVE  Taken(s, phis)[Named(n)] = s.env[n.inc[s.from].name]
    <2> DEFINE m == CHOOSE m \in phis : Named(m) = Named(n)
    <2>1. m \in phis /\ Named(m) = Named(n)
      OBVIOUS
    <2>2. m = n
      BY <2>1
    <2>3. Taken(s, phis)[Named(n)] = s.env[m.inc[s.from].name]
      BY DEF Taken, Named
    <2>. QED
      BY <2>2, <2>3
  <1>. QED
    BY <1>1, <1>2

\* The value that a phi takes, if it is a pointer, is one to an array that is read.
LEMMA TakenFits ==
  ASSUME NEW bs, NEW cs, Optimises(bs, cs), NEW l \in DOMAIN bs, NEW n \in PhisOf(bs[l]),
         Named(n) \in ReadNames(bs), NEW s, NEW t, Alike(s, t, bs, cs),
         s.from \in DOMAIN n.inc, n.inc[s.from].name \in DOMAIN s.env
  PROVE  /\ n.inc[s.from].name \in ReadNames(bs)
         /\ Fits(Named(n), s.env[n.inc[s.from].name], bs, cs)
  <1> DEFINE w == n.inc[s.from]
             v == The(n.res)
  <1>1. n \in NodesOf(bs) /\ n \in NodesOf(cs) /\ n.op = "phi" /\ v \in n.res
    BY PhisKept
  <1>2. w \in Range(n.inc) /\ w.name \in DOMAIN s.env
    BY DEF Range
  <1>3. w.typ = v.typ
    <2>1. w.typ \in ResTypes(n)
      <3>1. {n.inc[p].typ : p \in DOMAIN n.inc} = ResTypes(n)
        BY <1>1, OptimisesFacts DEF NodeAccepted, PhiTyped
      <3>. QED
        BY <3>1
    <2>2. OneResult(n)
      BY <1>1, OptimisesFacts
    <2>. QED
      BY <1>1, <2>1, <2>2 DEF ResTypes, OneResult
  <1>. HIDE DEF w
  <1>4. w.name \in ReadNames(bs)
    BY <1>1, <1>2, NodeReads
  <1>5. ASSUME IsPtr(v.typ)
        PROVE  "base" \in DOMAIN s.env[w.name] /\ s.env[w.name].base \in ReadNames(bs)
    <2>1. w \notin Range(Args)
      BY <1>3, <1>5 DEF Optimises, ScalarArgs
    <2>2. PICK o \in NodesOf(bs) : w \in o.res
      BY <1>1, <1>2, <2>1, ReadIsDefined DEF Optimises
    <2>3. Fits(w.name, s.env[w.name], bs, cs)
      BY <1>2, <1>4 DEF Alike
    <2>. QED
      BY <1>3, <1>5, <2>2, <2>3 DEF Fits
  <1>6. OneResult(n) /\ DefinesOnce(bs) /\ DefinesOnce(cs)
    BY <1>1, OptimisesFacts
  <1>. HIDE DEF v
  <1>7. Fits(v.name, s.env[w.name], bs, cs)
    BY <1>1, <1>5, <1>6, ResultFits
  <1>. QED
    BY <1>4, <1>7 DEF v, w, Named

LEMMA EnterKeeps ==
  ASSUME NEW bs, NEW cs, Optimises(bs, cs), NEW l \in DOMAIN bs,
         NEW s, NEW t, DOMAIN s = Fields, Alike(s, t, bs, cs)
  PROVE  Sim(EnterBlock(s, PhisOf(bs[l])), EnterBlock(t, PhisOf(cs[l])), bs, cs)
  <1> DEFINE P == PhisOf(bs[l])
             Q == PhisOf(cs[l])
             N == ReadNames(bs)
             f == Taken(s, P)
             g == Taken(t, Q)
             e == Over(f, s.env)
             h == Over(g, t.env)
             u == [s EXCEPT !.env = e]
             w == [t EXCEPT !.env = h]
  <1>1. CASE \E n \in P : s.from \notin DOMAIN n.inc \/ n.inc[s.from].name \notin DOMAIN s.env
    <2>1. EnterBlock(s, P) = Undefined(s)
      BY <1>1 DEF EnterBlock
    <2>. QED
      BY <2>1, UndefinedKeeps
  <1>2. CASE \A n \in P : s.from \in DOMAIN n.inc /\ n.inc[s.from].name \in DOMAIN s.env
    <2>1. /\ Q \subseteq P
          /\ \A n \in P : /\ n \in NodesOf(bs) /\ n.op = "phi" /\ The(n.res) \in n.res
                          /\ Named(n) \in N => n \in Q /\ n \in NodesOf(cs)
      BY PhisKept
    <2>2. /\ s.from = t.from /\ DOMAIN t = Fields /\ Agree(s.env, t.env, N)
          /\ \A x \in N \cap DOMAIN s.env : Fits(x, s.env[x], bs, cs)
      BY DEF Alike
    <2>3. ASSUME NEW n \in P
          PROVE  /\ n.inc[s.from].name \in N \cap DOMAIN s.env \cap DOMAIN t.env
                 /\ s.env[n.inc[s.from].name] = t.env[n.inc[s.from].name]
      <3>1. n.inc[s.from] \in Range(n.inc)
        BY <1>2 DEF Range
      <3>2. n.inc[s.from].name \in N
        BY <2>1, <3>1, NodeReads
      <3>. QED
        BY <1>2, <2>2, <3>2 DEF Agree
    <2>4. EnterBlock(s, P) = u
      BY <1>2 DEF EnterBlock, Taken
    <2>5. EnterBlock(t, Q) = w
      <3>1. \A n \in Q : t.from \in DOMAIN n.inc /\ n.inc[t.from].name \in DOMAIN t.env
        BY <1>2, <2>1, <2>2, <2>3
      <3>. QED
        BY <3>1 DEF EnterBlock, Taken
    <2>6. \A n, m \in P : Named(n) = Named(m) => n = m
      BY <2>1, OptimisesFacts DEF DefinesOnce, Named
    <2>. HIDE DEF P, Q
    <2>7. /\ \A x \in DOMAIN f : \E n \in P : Named(n) = x
          /\ \A n \in P : Named(n) \in DOMAIN f /\ f[Named(n)] = s.env[n.inc[s.from].name]
      BY <2>6, TakenFacts
    <2>8. /\ \A x \in DOMAIN g : \E n \in Q : Named(n) = x
          /\ \A n \in Q : Named(n) \in DOMAIN g /\ g[Named(n)] = t.env[n.inc[t.from].name]
      <3>1. \A n, m \in Q : Named(n) = Named(m) => n = m
        BY <2>1, <2>6
      <3>. QED
        BY <3>1, TakenFacts
    <2>. HIDE DEF f, g
    <2>9. Agree(f, g, N)
      <3> SUFFICES ASSUME NEW x \in N
                   PROVE  (x \in DOMAIN f <=> x \in DOMAIN g) /\ (x \in DOMAIN f => f[x] = g[x])
        BY DEF Agree
      <3>1. ASSUME x \in DOMAIN f PROVE x \in DOMAIN g /\ f[x] = g[x]
        <4>1. PICK n \in P : Named(n) = x
          BY <2>7, <3>1
        <4>2. n \in Q
          BY <2>1, <4>1
        <4>. QED
          BY <2>2, <2>3, <2>7, <2>8, <4>1, <4>2
      <3>2. ASSUME x \in DOMAIN g PROVE x \in DOMAIN f
        BY <2>1, <2>7, <2>8, <3>2
      <3>. QED
        BY <3>1, <3>2
    <2>10. \A x \in N \cap DOMAIN f : Fits(x, f[x], bs, cs)
      <3> SUFFICES ASSUME NEW x \in N \cap DOMAIN f PROVE Fits(x, f[x], bs, cs)
        OBVIOUS
      <3>1. PICK n \in P : Named(n) = x
        BY <2>7
      <3>2. f[x] = s.env[n.inc[s.from].name]
        BY <2>7, <3>1
      <3>3. Fits(Named(n), s.env[n.inc[s.from].name], bs, cs)
        BY <1>2, <3>1, TakenFits DEF P
      <3>. QED
        BY <3>1, <3>2, <3>3
    <2>11. Agree(e, h, N)
      BY <2>2, <2>9 DEF Agree, Over
    <2>12. \A x \in N \cap DOMAIN e : Fits(x, e[x], bs, cs)
      BY <2>2, <2>10 DEF Over
    <2>13. /\ u.k = s.k /\ u.at = s.at /\ u.from = s.from /\ u.val = s.val /\ u.mem = s.mem
           /\ u.env = e /\ DOMAIN u = Fields
      BY DEF Fields
    <2>14. /\ w.k = t.k /\ w.at = t.at /\ w.from = t.from /\ w.val = t.val /\ w.mem = t.mem
           /\ w.env = h /\ DOMAIN w = Fields
      BY <2>2 DEF Fields
    <2>. HIDE DEF u, w, e, h, N
    <2>15. Sim(u, w, bs, cs)
      BY <2>11, <2>12, <2>13, <2>14 DEF Sim, Alike, N
    <2>. QED
      BY <2>4, <2>5, <2>15 DEF P, Q
  <1>. QED
    BY <1>1, <1>2

LEMMA LeaveKeeps ==
  ASSUME NEW bs, NEW cs, Optimises(bs, cs), NEW l \in DOMAIN bs, NEW s, NEW t, Sim(s, t, bs, cs)
  PROVE  Sim(LeaveBlock(s, bs[l].term), LeaveBlock(t, cs[l].term), bs, cs)
  <1> DEFINE term == bs[l].term
             N == ReadNames(bs)
  <1>0. DOMAIN s = Fields /\ cs[l].term = term
    BY DEF Sim, Optimises, SameGraph
  <1>1. CASE s.k # "run" \/ ~({v.name : v \in Range(term.uses)} \subseteq DOMAIN s.env)
    <2>1. LeaveBlock(s, term) = Undefined(s)
      BY <1>1 DEF LeaveBlock
    <2>. QED
      BY <1>0, <2>1, UndefinedKeeps
  <1>2. CASE s.k = "run" /\ {v.name : v \in Range(term.uses)} \subseteq DOMAIN s.env
    <2>1. /\ Alike(s, t, bs, cs) /\ t.k = "run" /\ DOMAIN t = Fields
          /\ t.at = s.at /\ t.from = s.from /\ t.val = s.val /\ s.at \in DOMAIN bs
          /\ Agree(s.env, t.env, N) /\ Agree(s.mem, t.mem, N)
          /\ \A x \in N \cap DOMAIN s.env : Fits(x, s.env[x], bs, cs)
      BY <1>2 DEF Sim, Alike
    <2>2. ASSUME NEW v \in Range(term.uses)
          PROVE  v.name \in DOMAIN t.env /\ t.env[v.name] = s.env[v.name]
      <3>1. v.name \in N
        BY ReadIsNamed
      <3>2. v.name \in DOMAIN s.env
        BY <1>2
      <3>. QED
        BY <2>1, <3>1, <3>2 DEF Agree
    <2>3. {v.name : v \in Range(term.uses)} \subseteq DOMAIN t.env
      BY <2>2
    <2>4. /\ term.k \in {"jump", "br", "ret"} /\ Range(term.to) \subseteq DOMAIN bs
          /\ term.k = "jump" => DOMAIN term.to = 1 .. 1
          /\ term.k = "br" => DOMAIN term.uses = 1 .. 1 /\ DOMAIN term.to = 1 .. 2
      BY DEF Optimises, Accepted, Verifies, BlocksEnd, TermComplete, Succ
    <2>. HIDE DEF term
    <2>5. ASSUME NEW j \in DOMAIN bs
          PROVE  Sim([s EXCEPT !.from = s.at, !.at = j], [t EXCEPT !.from = t.at, !.at = j], bs, cs)
      <3> DEFINE u == [s EXCEPT !.from = s.at, !.at = j]
                 w == [t EXCEPT !.from = t.at, !.at = j]
      <3>1. /\ u.k = s.k /\ u.at = j /\ u.from = s.at /\ u.val = s.val /\ u.mem = s.mem
            /\ u.env = s.env /\ DOMAIN u = Fields
        BY <1>0 DEF Fields
      <3>2. /\ w.k = t.k /\ w.at = j /\ w.from = t.at /\ w.val = t.val /\ w.mem = t.mem
            /\ w.env = t.env /\ DOMAIN w = Fields
        BY <2>1 DEF Fields
      <3>. HIDE DEF u, w, N
      <3>3. Sim(u, w, bs, cs)
        BY <1>2, <2>1, <3>1, <3>2 DEF Sim, Alike, N
      <3>. QED
        BY <3>3 DEF u, w
    <2>6. CASE term.k = "jump"
      <3> DEFINE j == term.to[1]
      <3>1. /\ LeaveBlock(s, term) = [s EXCEPT !.from = s.at, !.at = j]
            /\ LeaveBlock(t, term) = [t EXCEPT !.from = t.at, !.at = j]
        BY <1>2, <2>1, <2>3, <2>6 DEF LeaveBlock
      <3>2. j \in DOMAIN bs
        BY <2>4, <2>6 DEF Range
      <3>. HIDE DEF j
      <3>. QED
        BY <1>0, <2>5, <3>1, <3>2 DEF term
    <2>7. CASE term.k = "br"
      <3> DEFINE i == IF s.env[term.uses[1].name] = Whole(1) THEN 1 ELSE 2
                 j == term.to[i]
      <3>1. term.uses[1] \in Range(term.uses) /\ i \in DOMAIN term.to
        BY <2>4, <2>7 DEF Range
      <3>2. t.env[term.uses[1].name] = s.env[term.uses[1].name]
        BY <2>2, <3>1
      <3>3. /\ LeaveBlock(s, term) = [s EXCEPT !.from = s.at, !.at = j]
            /\ LeaveBlock(t, term) = [t EXCEPT !.from = t.at, !.at = j]
        BY <1>2, <2>1, <2>3, <2>7, <3>2 DEF LeaveBlock
      <3>4. j \in DOMAIN bs
        BY <2>4, <3>1 DEF Range
      <3>. HIDE DEF j
      <3>. QED
        BY <1>0, <2>5, <3>3, <3>4 DEF term
    <2>8. CASE term.k = "ret"
      <3> DEFINE a == [i \in DOMAIN term.uses |-> s.env[term.uses[i].name]]
                 b == [i \in DOMAIN term.uses |-> t.env[term.uses[i].name]]
                 u == [s EXCEPT !.k = "ret", !.val = a]
                 w == [t EXCEPT !.k = "ret", !.val = b]
      <3>1. a = b
        <4>1. \A i \in DOMAIN term.uses : term.uses[i] \in Range(term.uses)
          BY DEF Range
        <4>. QED
          BY <2>2, <4>1
      <3>2. LeaveBlock(s, term) = u /\ LeaveBlock(t, term) = w
        BY <1>2, <2>1, <2>3, <2>8 DEF LeaveBlock
      <3>. HIDE DEF a, b
      <3>3. /\ u.k = "ret" /\ u.at = s.at /\ u.from = s.from /\ u.val = a /\ u.mem = s.mem
            /\ u.env = s.env /\ DOMAIN u = Fields
        BY <1>0 DEF Fields
      <3>4. /\ w.k = "ret" /\ w.at = t.at /\ w.from = t.from /\ w.val = b /\ w.mem = t.mem
            /\ w.env = t.env /\ DOMAIN w = Fields
        BY <2>1 DEF Fields
      <3>. HIDE DEF u, w, N
      <3>5. Sim(u, w, bs, cs)
        BY <2>1, <3>1, <3>3, <3>4 DEF Sim, Alike, N
      <3>. QED
        BY <1>0, <3>2, <3>5 DEF term
    <2>. QED
      BY <2>4, <2>6, <2>7, <2>8
  <1>. QED
    BY <1>0, <1>1, <1>2

NodesN(p) == Len(p[2])
NodesBase(p) == p[1]
NodesOp(p, s, i) == Step(s, p[2][i])
AfterNodes == INSTANCE Recursion WITH N <- NodesN, Base <- NodesBase, Op <- NodesOp

\* The run of a block, node by node.
LEMMA RunNodesFacts ==
  ASSUME NEW s, NEW nodes, HasPositions(nodes)
  PROVE  LET a == AfterNodes!Fold(<<s, nodes>>)
         IN  /\ RunNodes(s, nodes) = a[Len(nodes)] /\ a[0] = s
             /\ \A i \in 1 .. Len(nodes) : a[i] = Step(a[i - 1], nodes[i])
  <1> DEFINE p == <<s, nodes>>
             a == AfterNodes!Fold(p)
  <1>1. RunNodes(s, nodes) = a[Len(nodes)]
    BY DEF RunNodes, AfterNodes!Fold, NodesN, NodesBase, NodesOp
  <1>2. NodesN(p) \in Nat /\ NodesN(p) = Len(nodes)
    BY DEF NodesN, HasPositions
  <1>. HIDE DEF a
  <1>3. a[0] = NodesBase(p) /\ \A i \in 1 .. Len(nodes) : a[i] = NodesOp(p, a[i - 1], i)
    BY <1>2, AfterNodes!FoldDef DEF a
  <1>4. NodesBase(p) = s /\ \A i : NodesOp(p, a[i - 1], i) = Step(a[i - 1], nodes[i])
    BY DEF NodesBase, NodesOp
  <1>. QED
    BY <1>1, <1>3, <1>4 DEF a

LEMMA NodesKeep ==
  ASSUME NEW bs, NEW cs, Optimises(bs, cs), NEW l \in DOMAIN bs, NEW s, NEW t, Sim(s, t, bs, cs)
  PROVE  Sim(RunNodes(s, bs[l].nodes), RunNodes(t, cs[l].nodes), bs, cs)
  <1> DEFINE old == bs[l].nodes
             new == cs[l].nodes
             a == AfterNodes!Fold(<<s, old>>)
             b == AfterNodes!Fold(<<t, new>>)
             k == Len(old)
             m == Len(new)
  <1>1. PICK e : Turns(e, old, new, ReadNames(bs), cs)
    BY DEF Optimises
  <1>2. /\ HasPositions(old) /\ HasPositions(new)
        /\ \A i \in 1 .. m :
             /\ new[i] \in NodesOf(cs) /\ e[i] \in 1 .. k /\ old[e[i]] \in NodesOf(bs)
             /\ Becomes(old[e[i]], new[i], cs)
        /\ \A j \in 1 .. k : old[j] \in NodesOf(bs)
    BY <1>1, TurnsFacts
  <1>3. /\ RunNodes(s, old) = a[k] /\ a[0] = s
        /\ \A i \in 1 .. k : a[i] = Step(a[i - 1], old[i])
    BY <1>2, RunNodesFacts
  <1>4. /\ RunNodes(t, new) = b[m] /\ b[0] = t
        /\ \A i \in 1 .. m : b[i] = Step(b[i - 1], new[i])
    BY <1>2, RunNodesFacts
  <1>5. k \in Nat /\ m \in Nat
    BY <1>2 DEF HasPositions
  <1>6. /\ \A i, j \in 1 .. m : i < j => e[i] < e[j]
        /\ \A j \in 1 .. k : (\E i \in 1 .. m : e[i] = j) \/ Unread(old[j], ReadNames(bs))
    BY <1>1 DEF Turns
  <1>. HIDE DEF a, b, k, m, old, new
  <1> DEFINE Upto(i, j) == \A h \in 1 .. m : h <= i <=> e[h] <= j
             I == {j \in 0 .. k : \E i \in 0 .. m : Upto(i, j) /\ Sim(a[j], b[i], bs, cs)}
  <1>7. 0 \in I
    <2>1. Upto(0, 0)
      BY <1>2, <1>5
    <2>2. 0 \in 0 .. m /\ 0 \in 0 .. k /\ Sim(a[0], b[0], bs, cs)
      BY <1>3, <1>4, <1>5
    <2>. HIDE DEF Upto
    <2>. QED
      BY <2>1, <2>2
  <1>8. \A j \in 0 .. k - 1 : j \in I => j + 1 \in I
    <2> SUFFICES ASSUME NEW j \in 0 .. k - 1, j \in I PROVE j + 1 \in I
      OBVIOUS
    <2>1. j + 1 \in 1 .. k /\ (j + 1) - 1 = j /\ j \in Nat /\ j + 1 \in 0 .. k
      BY <1>5
    <2>2. PICK i \in 0 .. m : Upto(i, j) /\ Sim(a[j], b[i], bs, cs)
      OBVIOUS
    <2>3. a[j + 1] = Step(a[j], old[j + 1]) /\ old[j + 1] \in NodesOf(bs)
      BY <1>2, <1>3, <2>1
    <2>4. CASE \E h \in 1 .. m : e[h] = j + 1
      <3>1. PICK h \in 1 .. m : e[h] = j + 1
        BY <2>4
      <3>2. h = i + 1
        <4>1. ~(h <= i)
          BY <2>1, <2>2, <3>1
        <4>2. ASSUME i + 1 < h PROVE FALSE
          <5>1. i + 1 \in 1 .. m
            BY <1>5, <4>2
          <5>2. e[i + 1] < j + 1 /\ e[i + 1] \in 1 .. k
            BY <1>2, <1>6, <3>1, <4>2, <5>1
          <5>3. e[i + 1] <= j
            BY <1>5, <2>1, <5>2
          <5>4. i + 1 <= i
            BY <2>2, <5>1, <5>3
          <5>. QED
            BY <5>4
        <4>. QED
          BY <1>5, <4>1, <4>2
      <3>3. i + 1 \in 1 .. m /\ (i + 1) - 1 = i /\ i + 1 \in 0 .. m
        BY <1>5, <3>2
      <3>4. Upto(i + 1, j + 1)
        <4> SUFFICES ASSUME NEW g \in 1 .. m PROVE g <= i + 1 <=> e[g] <= j + 1
          OBVIOUS
        <4>1. e[g] \in 1 .. k /\ e[i + 1] = j + 1
          BY <1>2, <3>1, <3>2
        <4>2. g < i + 1 => e[g] < j + 1
          BY <1>6, <3>3, <4>1
        <4>3. i + 1 < g => j + 1 < e[g]
          BY <1>6, <3>3, <4>1
        <4>. QED
          BY <1>5, <2>1, <4>1, <4>2, <4>3
      <3>5. b[i + 1] = Step(b[i], new[i + 1]) /\ new[i + 1] \in NodesOf(cs)
            /\ Becomes(old[j + 1], new[i + 1], cs)
        BY <1>2, <1>4, <3>1, <3>2, <3>3
      <3>6. Sim(a[j + 1], b[i + 1], bs, cs)
        <4>1. CASE new[i + 1] = old[j + 1]
          BY <2>2, <2>3, <3>5, <4>1, StepKept
        <4>2. CASE new[i + 1] # old[j + 1]
          BY <2>2, <2>3, <3>5, <4>2, StepFolded
        <4>. QED
          BY <4>1, <4>2
      <3>. HIDE DEF Upto
      <3>. QED
        BY <2>1, <3>3, <3>4, <3>6
    <2>5. CASE ~\E h \in 1 .. m : e[h] = j + 1
      <3>1. Unread(old[j + 1], ReadNames(bs))
        BY <1>6, <2>1, <2>5
      <3>2. Sim(a[j + 1], b[i], bs, cs)
        BY <2>2, <2>3, <3>1, StepDropped
      <3>3. Upto(i, j + 1)
        <4> SUFFICES ASSUME NEW g \in 1 .. m PROVE g <= i <=> e[g] <= j + 1
          OBVIOUS
        <4>1. e[g] \in 1 .. k /\ e[g] # j + 1
          BY <1>2, <2>5
        <4>2. e[g] <= j <=> e[g] <= j + 1
          BY <1>5, <2>1, <4>1
        <4>. QED
          BY <2>2, <4>2
      <3>. HIDE DEF Upto
      <3>. QED
        BY <2>1, <3>2, <3>3
    <2>. QED
      BY <2>4, <2>5
  <1>9. k \in I
    <2>. HIDE DEF I
    <2>1. \A j \in 0 .. k : j \in I
      BY <1>5, <1>7, <1>8, AfterNodes!Induction
    <2>. QED
      BY <1>5, <2>1
  <1>10. PICK i \in 0 .. m : Upto(i, k) /\ Sim(a[k], b[i], bs, cs)
    BY <1>9
  <1>11. i = m
    <2>1. CASE m = 0
      BY <2>1
    <2>2. CASE m # 0
      <3>1. m \in 1 .. m
        BY <1>5, <2>2
      <3>2. e[m] <= k
        BY <1>2, <1>5, <3>1
      <3>3. m <= i
        BY <1>10, <3>1, <3>2
      <3>. QED
        BY <1>5, <3>3
    <2>. QED
      BY <2>1, <2>2
  <1>. QED
    BY <1>3, <1>4, <1>10, <1>11 DEF old, new

-----------------------------------------------------------------------------
(* A whole run. *)

LEMMA VisitKeeps ==
  ASSUME NEW bs, NEW cs, Optimises(bs, cs), NEW s, NEW t, Sim(s, t, bs, cs)
  PROVE  Sim(Visit(bs, s), Visit(cs, t), bs, cs)
  <1>1. CASE s.k = "undefined"
    BY <1>1 DEF Visit, Sim
  <1>2. CASE s.k # "undefined" /\ s.k # "run"
    BY <1>2 DEF Visit, Sim, Alike
  <1>3. CASE s.k = "run"
    <2> DEFINE l == s.at
               u == EnterBlock(s, PhisOf(bs[l]))
               w == EnterBlock(t, PhisOf(cs[l]))
               y == RunNodes(u, bs[l].nodes)
               z == RunNodes(w, cs[l].nodes)
    <2>1. DOMAIN s = Fields /\ Alike(s, t, bs, cs) /\ t.k = "run" /\ t.at = l /\ l \in DOMAIN bs
      BY <1>3 DEF Sim, Alike
    <2>2. Visit(bs, s) = LeaveBlock(y, bs[l].term) /\ Visit(cs, t) = LeaveBlock(z, cs[l].term)
      BY <1>3, <2>1 DEF Visit, RunBlock, PhisOf
    <2>. HIDE DEF l
    <2>3. Sim(u, w, bs, cs)
      BY <2>1, EnterKeeps
    <2>. HIDE DEF u, w
    <2>4. Sim(y, z, bs, cs)
      BY <2>1, <2>3, NodesKeep
    <2>. HIDE DEF y, z
    <2>5. Sim(LeaveBlock(y, bs[l].term), LeaveBlock(z, cs[l].term), bs, cs)
      BY <2>1, <2>4, LeaveKeeps
    <2>. QED
      BY <2>2, <2>5
  <1>. QED
    BY <1>1, <1>2, <1>3

RunN(p) == Steps
RunBase(p) == Start(p[2])
RunOp(p, s, i) == Visit(p[1], s)
AfterVisits == INSTANCE Recursion WITH N <- RunN, Base <- RunBase, Op <- RunOp

LEMMA RunFacts ==
  ASSUME NEW bs, NEW env
  PROVE  LET a == AfterVisits!Fold(<<bs, env>>)
         IN  /\ Run(bs, env) = a[Steps] /\ a[0] = Start(env)
             /\ \A i \in 1 .. Steps : a[i] = Visit(bs, a[i - 1])
  <1> DEFINE p == <<bs, env>>
             a == AfterVisits!Fold(p)
  <1>1. Run(bs, env) = a[Steps]
    BY DEF Run, AfterVisits!Fold, RunN, RunBase, RunOp
  <1>2. RunN(p) \in Nat /\ RunN(p) = Steps
    BY ExecutionAssumption DEF RunN
  <1>. HIDE DEF a
  <1>3. a[0] = RunBase(p) /\ \A i \in 1 .. Steps : a[i] = RunOp(p, a[i - 1], i)
    BY <1>2, AfterVisits!FoldDef DEF a
  <1>4. RunBase(p) = Start(env) /\ \A i : RunOp(p, a[i - 1], i) = Visit(bs, a[i - 1])
    BY DEF RunBase, RunOp
  <1>. QED
    BY <1>1, <1>3, <1>4 DEF a

\* The run r2 returns what r1 returns.
Keeps(r1, r2) == r1.k = "ret" => Returns(r2, r1.val)

\* Called with the same arguments, cs returns what bs returns.
LEMMA RunKeeps ==
  ASSUME NEW bs, NEW cs, Optimises(bs, cs), NEW env, DOMAIN env \subseteq NamesOf(Range(Args))
  PROVE  Keeps(Run(bs, env), Run(cs, env))
  <1> DEFINE a == AfterVisits!Fold(<<bs, env>>)
             b == AfterVisits!Fold(<<cs, env>>)
             I == {i \in 0 .. Steps : Sim(a[i], b[i], bs, cs)}
  <1>1. /\ Run(bs, env) = a[Steps] /\ a[0] = Start(env)
        /\ \A i \in 1 .. Steps : a[i] = Visit(bs, a[i - 1])
    BY RunFacts
  <1>2. /\ Run(cs, env) = b[Steps] /\ b[0] = Start(env)
        /\ \A i \in 1 .. Steps : b[i] = Visit(cs, b[i - 1])
    BY RunFacts
  <1>. HIDE DEF a, b
  <1>3. Steps \in Nat
    BY ExecutionAssumption
  <1>4. Sim(Start(env), Start(env), bs, cs)
    <2> DEFINE s == Start(env)
    <2>1. /\ DOMAIN s = Fields /\ s.at = Entry /\ s.env = env
      BY DEF Start, Fields
    <2>2. \A x \in DOMAIN env : Fits(x, env[x], bs, cs)
      BY OptimisesFacts DEF DefinesOnce, Fits
    <2>. HIDE DEF s
    <2>3. Alike(s, s, bs, cs)
      BY <2>1, <2>2 DEF Alike, Agree, Optimises
    <2>. QED
      BY <2>1, <2>3 DEF Sim, s
  <1>5. 0 \in I
    BY <1>1, <1>2, <1>3, <1>4
  <1>6. \A i \in 0 .. Steps - 1 : i \in I => i + 1 \in I
    <2> SUFFICES ASSUME NEW i \in 0 .. Steps - 1, Sim(a[i], b[i], bs, cs) PROVE i + 1 \in I
      OBVIOUS
    <2>1. i + 1 \in 1 .. Steps /\ (i + 1) - 1 = i /\ i + 1 \in 0 .. Steps
      BY <1>3
    <2>2. a[i + 1] = Visit(bs, a[i]) /\ b[i + 1] = Visit(cs, b[i])
      BY <1>1, <1>2, <2>1
    <2>3. Sim(Visit(bs, a[i]), Visit(cs, b[i]), bs, cs)
      BY VisitKeeps
    <2>. QED
      BY <2>1, <2>2, <2>3
  <1>7. Steps \in I
    <2>. HIDE DEF I
    <2>1. \A i \in 0 .. Steps : i \in I
      BY <1>3, <1>5, <1>6, AfterVisits!Induction
    <2>. QED
      BY <1>3, <2>1
  <1>8. Sim(Run(bs, env), Run(cs, env), bs, cs)
    BY <1>1, <1>2, <1>7
  <1>. QED
    BY <1>8 DEF Sim, Alike, Keeps, Returns

-----------------------------------------------------------------------------
(* Each pass keeps the meaning of the function it is given. *)

\* Whatever refines a function orders booleans no more than it does.
LEMMA OrderStays ==
  ASSUME NEW bs, NEW cs, Ready(bs), Ready(cs), Refines(bs, cs), NoOrderOfBooleans(bs)
  PROVE  NoOrderOfBooleans(cs)
  <1>1. PICK at : Placed(at, bs, cs)
    BY PlacesExist
  <1>2. ASSUME NEW n \in NodesOf(cs) PROVE n \in NodesOf(bs) \/ n.op = "const"
    <2>1. PICK l \in DOMAIN cs : n \in Range(cs[l].nodes)
      BY DEF NodesOf
    <2>2. l \in DOMAIN bs /\ HasPositions(cs[l].nodes)
      BY <1>1, <2>1, PlacedFacts DEF Refines, SameGraph
    <2>3. PICK i \in 1 .. Len(cs[l].nodes) : cs[l].nodes[i] = n
      BY <2>1, <2>2 DEF HasPositions
    <2>4. /\ bs[l].nodes[at[l][i]] \in Range(bs[l].nodes)
          /\ Simplifies(bs[l].nodes[at[l][i]], n)
      BY <1>1, <2>2, <2>3, Origin
    <2>. QED
      BY <2>2, <2>4 DEF Simplifies, NodesOf
  <1>. QED
    BY <1>2 DEF NoOrderOfBooleans

\* Folding, with exact literals: node by node.
LEMMA FoldingTurns ==
  ASSUME NEW bs, Ready(bs), NEW cs, Folding(bs, cs), ExactLiterals(cs), NEW l \in DOMAIN bs
  PROVE  \E e : Turns(e, bs[l].nodes, cs[l].nodes, ReadNames(bs), cs)
  <1> DEFINE old == bs[l].nodes
             new == cs[l].nodes
             k == Len(old)
             e == [i \in 1 .. k |-> i]
  <1>1. k \in Nat
    BY Positioned DEF HasPositions
  <1>2. Len(new) = k /\ \A i \in 1 .. k : FoldsTo(old[i], new[i], NodesOf(cs))
    BY DEF Folding, OneByOne
  <1>3. e \in [1 .. k -> 1 .. k] /\ \A i \in 1 .. k : e[i] = i
    OBVIOUS
  <1>. HIDE DEF e, old, new
  <1>4. Turns(e, old, new, ReadNames(bs), cs)
    <2>1. Len(old) = k
      OBVIOUS
    <2>. HIDE DEF k
    <2>. QED
      BY <1>1, <1>2, <1>3, <2>1 DEF Turns, Becomes
  <1>. QED
    BY <1>4 DEF old, new

\* A sweep drops what no one reads.
LEMMA SweptTurns ==
  ASSUME NEW nodes, nodes \in Seq(Range(nodes)), NEW names, NEW cs
  PROVE  \E e : Turns(e, nodes, Swept(nodes, names), names, cs)
  <1> DEFINE S == {n \in Range(nodes) : ~Unread(n, names)}
             r == Swept(nodes, names)
  <1>1. r = Filter(nodes, S)
    BY DEF Swept
  <1>2. \A j \in 1 .. Len(nodes) : nodes[j] \in S \/ Unread(nodes[j], names)
    BY DEF Range
  <1>. HIDE DEF S, r
  <1>3. PICK e : Picks(e, nodes, Len(nodes), S, r)
    BY <1>1, FilterPicks
  <1>4. \A i \in 1 .. Len(r) : Becomes(nodes[e[i]], r[i], cs)
    BY <1>3 DEF Picks, Becomes, FoldsTo
  <1>5. Turns(e, nodes, r, names, cs)
    BY <1>2, <1>3, <1>4 DEF Picks, Turns
  <1>. QED
    BY <1>5 DEF r

LEMMA SweepTurns ==
  ASSUME NEW bs, Ready(bs), NEW l \in DOMAIN bs
  PROVE  \E e : Turns(e, bs[l].nodes, SweepBlocks(bs, ReadNames(bs))[l].nodes, ReadNames(bs),
                      SweepBlocks(bs, ReadNames(bs)))
  <1>1. /\ DOMAIN bs[l] = {"nodes", "term"} /\ bs[l].nodes \in Seq(Range(bs[l].nodes))
    BY DEF Ready
  <1>2. SweepBlocks(bs, ReadNames(bs))[l].nodes = Swept(bs[l].nodes, ReadNames(bs))
    BY <1>1 DEF SweepBlocks, Swept
  <1>. QED
    BY <1>1, <1>2, SweptTurns

\* As long as the literals were exact, the blocks return what those lowered return.
Preserves(bs, cs) ==
  Accepted(bs) /\ NoOrderOfBooleans(bs) =>
    /\ NoOrderOfBooleans(cs)
    /\ \A i \in Inputs : Keeps(Run(bs, CallWith(i)), Run(cs, CallWith(i)))

MeaningInv ==
  /\ Entry \in DOMAIN blocks
  /\ phase # "lower" => (exact => Preserves(blocks, opt))

LEMMA KeepsTwice ==
  ASSUME NEW r1, NEW r2, NEW r3, Keeps(r1, r2), Keeps(r2, r3)
  PROVE  Keeps(r1, r3)
  BY DEF Keeps, Returns

\* The arguments of a call are those the function declares, and are numbers.
LEMMA CallFacts ==
  ASSUME NEW i \in Inputs
  PROVE  ScalarArgs /\ DOMAIN CallWith(i) \subseteq NamesOf(Range(Args))
  <1>1. DOMAIN i = {Params[j].id : j \in DOMAIN Params}
        /\ \A j \in DOMAIN Params : Params[j].typ \in Scalars
    BY CompilerAssumption
  <1>2. /\ DOMAIN Args = DOMAIN Params
        /\ \A j \in DOMAIN Params : /\ Args[j].name = <<Params[j].id, 0>>
                                    /\ Args[j].typ = Params[j].typ
                                    /\ Args[j] \in Range(Args)
    BY DEF Args, Value, Range
  <1>3. ASSUME NEW v \in Range(Args) PROVE ~IsPtr(v.typ)
    <2>1. PICK j \in DOMAIN Params : v = Args[j]
      BY <1>2 DEF Range
    <2>2. v.typ \in Scalars
      BY <1>1, <1>2, <2>1
    <2>. QED
      BY <2>2 DEF IsPtr, Pointers, PtrTo, Scalars
  <1>4. ASSUME NEW x \in DOMAIN CallWith(i) PROVE x \in NamesOf(Range(Args))
    <2>1. PICK id \in DOMAIN i : x = <<id, 0>>
      BY DEF CallWith
    <2>2. PICK j \in DOMAIN Params : id = Params[j].id
      BY <1>1
    <2>. QED
      BY <1>2, <2>1, <2>2 DEF NamesOf
  <1>. QED
    BY <1>3, <1>4 DEF ScalarArgs

\* A pass that refines opt and turns its nodes preserves the meaning.
LEMMA TurningKeepsMeaning ==
  ASSUME PassInv, Entry \in DOMAIN blocks, Preserves(blocks, opt),
         NEW cs, Ready(cs), Refines(opt, cs),
         \A l \in DOMAIN opt : \E e : Turns(e, opt[l].nodes, cs[l].nodes, ReadNames(opt), cs)
  PROVE  Preserves(blocks, cs)
  <1> SUFFICES ASSUME Accepted(blocks), NoOrderOfBooleans(blocks)
               PROVE  /\ NoOrderOfBooleans(cs)
                      /\ \A i \in Inputs : Keeps(Run(blocks, CallWith(i)), Run(cs, CallWith(i)))
    BY DEF Preserves
  <1>1. /\ Ready(opt) /\ Accepted(opt) /\ NoOrderOfBooleans(opt) /\ Entry \in DOMAIN opt
        /\ \A i \in Inputs : Keeps(Run(blocks, CallWith(i)), Run(opt, CallWith(i)))
    BY DEF PassInv, Preserves, SameGraph
  <1>2. NoOrderOfBooleans(cs)
    BY <1>1, OrderStays
  <1>3. Accepted(cs) /\ SameGraph(opt, cs)
    BY <1>1, RefinementIsAccepted DEF Refines
  <1>4. ASSUME NEW i \in Inputs PROVE Keeps(Run(blocks, CallWith(i)), Run(cs, CallWith(i)))
    <2>1. Optimises(opt, cs)
      BY <1>1, <1>3, CallFacts DEF Optimises
    <2>2. Keeps(Run(opt, CallWith(i)), Run(cs, CallWith(i)))
      BY <2>1, CallFacts, RunKeeps
    <2>. QED
      BY <1>1, <2>2, KeepsTwice
  <1>. QED
    BY <1>2, <1>4

\* The entry block is never lost.
LEMMA EntryStays ==
  ASSUME Entry \in DOMAIN blocks, [Next]_vars
  PROVE  Entry \in DOMAIN blocks'
  <1>. USE DEF FallTo, NewBlocks
  <1>1. ASSUME NEW s, Simple(s) PROVE Entry \in DOMAIN blocks'
    BY <1>1 DEF Simple, Append1
  <1>2. ASSUME NEW s, ReturnStmt(s) PROVE Entry \in DOMAIN blocks'
    BY <1>2 DEF ReturnStmt
  <1>3. ASSUME NEW s, OpenIf(s) PROVE Entry \in DOMAIN blocks'
    BY <1>3 DEF OpenIf
  <1>4. ASSUME NEW c, NEW code, NEW test, NEW step, Open(c, code, test, step)
        PROVE  Entry \in DOMAIN blocks'
    BY <1>4 DEF Open
  <1>5. ASSUME NEW s, BeginElse(s) PROVE Entry \in DOMAIN blocks'
    BY <1>5 DEF BeginElse
  <1>6. ASSUME NEW s, CloseIf(s) PROVE Entry \in DOMAIN blocks'
    BY <1>6 DEF CloseIf
  <1>7. ASSUME NEW s, CloseLoop(s) PROVE Entry \in DOMAIN blocks'
    BY <1>7 DEF CloseLoop, Append1
  <1>8. CASE Finish
    <2>1. blocks' = blocks \/ blocks' = [blocks EXCEPT ![cur].term = Return(<<>>)]
      BY <1>8 DEF Finish
    <2>. QED
      BY <2>1
  <1>9. ASSUME NEW s, Lowers(s) PROVE Entry \in DOMAIN blocks'
    BY <1>1, <1>2, <1>3, <1>4, <1>5, <1>6, <1>7, <1>9 DEF Lowers, OpenWhile, OpenFor, Raise
  <1>10. CASE UNCHANGED vars
    BY <1>10 DEF vars
  <1>. QED
    BY <1>8, <1>9, <1>10 DEF Next

LEMMA MeaningInvInit == CompilerInit => MeaningInv
  <1> SUFFICES ASSUME CompilerInit PROVE MeaningInv
    OBVIOUS
  <1>1. blocks = [l \in {Entry} |-> NewBlock] /\ phase = "lower"
    BY DEF CompilerInit, Init
  <1>. QED
    BY <1>1 DEF MeaningInv

LEMMA MeaningInvNext == CompilerInv /\ MeaningInv /\ [CompilerNext]_allVars => MeaningInv'
  <1> SUFFICES ASSUME CompilerInv, MeaningInv, [CompilerNext]_allVars PROVE MeaningInv'
    OBVIOUS
  <1>1. [Next]_vars
    BY DEF CompilerNext, LowerNext, Select, FoldingPass, Inlining, SweepPass, EndSweeps, Emits, allVars
  <1>2. (Entry \in DOMAIN blocks)'
    BY <1>1, EntryStays DEF MeaningInv
  <1> DEFINE StaysSo == exact' => Preserves(blocks', opt')
  <1>3. ASSUME NEW ps \in PassLists, Select(ps) PROVE StaysSo
    <2>1. opt' = blocks /\ blocks' = blocks
      BY <1>3 DEF Select, vars
    <2>2. Preserves(blocks, blocks)
      BY DEF Preserves, Keeps, Returns
    <2>. QED
      BY <2>1, <2>2
  <1>4. ASSUME FoldingPass PROVE StaysSo
    <2> SUFFICES ASSUME exact' PROVE Preserves(blocks', opt')
      OBVIOUS
    <2> DEFINE cs == FoldConstants(opt, order)
    <2>1. PassInv /\ blocks' = blocks /\ opt' = cs /\ exact' = (exact /\ ExactLiterals(cs))
          /\ phase # "lower"
      BY <1>4 DEF CompilerInv, FoldingPass, Running, NextPass, vars
    <2>2. Folding(opt, cs) /\ Ready(opt)
      <3>1. order \in Seq(DOMAIN opt) /\ Ready(opt)
        BY <2>1 DEF CompilerInv, LoweringInv, OrderInv, IsOrder, PassInv, SameGraph
      <3>. QED
        BY <3>1, FoldConstantsFacts
    <2>. HIDE DEF cs
    <2>3. Ready(cs) /\ Refines(opt, cs)
      BY <2>2, FoldingRefines DEF Folding
    <2>4. \A l \in DOMAIN opt : \E e : Turns(e, opt[l].nodes, cs[l].nodes, ReadNames(opt), cs)
      BY <2>1, <2>2, FoldingTurns
    <2>5. Preserves(blocks, cs)
      BY <2>1, <2>3, <2>4, TurningKeepsMeaning DEF MeaningInv
    <2>. QED
      BY <2>1, <2>5
  <1>5. ASSUME SweepPass PROVE StaysSo
    <2> SUFFICES ASSUME exact' PROVE Preserves(blocks', opt')
      OBVIOUS
    <2> DEFINE cs == SweepBlocks(opt, ReadNames(opt))
    <2>1. PassInv /\ blocks' = blocks /\ opt' = cs /\ exact' = exact /\ phase # "lower"
      BY <1>5 DEF CompilerInv, SweepPass, Running, vars
    <2>2. Ready(opt)
      BY <2>1 DEF PassInv
    <2>3. Ready(cs) /\ Refines(opt, cs)
      BY <2>2, SweepFacts
    <2>4. \A l \in DOMAIN opt : \E e : Turns(e, opt[l].nodes, cs[l].nodes, ReadNames(opt), cs)
      BY <2>2, SweepTurns
    <2>. HIDE DEF cs
    <2>5. Preserves(blocks, cs)
      BY <2>1, <2>3, <2>4, TurningKeepsMeaning DEF MeaningInv
    <2>. QED
      BY <2>1, <2>5
  <1>6. ASSUME Inlining \/ EndSweeps \/ Emits \/ UNCHANGED allVars PROVE phase' # "lower" => StaysSo
    <2>1. blocks' = blocks /\ opt' = opt /\ exact' = exact /\ (phase' # "lower" => phase # "lower")
      BY <1>6 DEF Inlining, EndSweeps, Emits, NextPass, Running, allVars, passVars, vars
    <2>. QED
      BY <2>1 DEF MeaningInv
  <1>7. ASSUME LowerNext PROVE phase' = "lower"
    BY <1>7 DEF LowerNext, passVars
  <1>8. phase' # "lower" => StaysSo
    <2>. HIDE DEF StaysSo
    <2>. QED
      BY <1>3, <1>4, <1>5, <1>6, <1>7 DEF CompilerNext
  <1>. QED
    BY <1>2, <1>8 DEF MeaningInv

\* For every program, every selection of passes, every width of an int, every
\* number of digits, every bound on a run and every argument: what an accepted
\* function returns, the function the passes leave returns, unless folding met a
\* number that the type of its name cannot hold.
THEOREM PassesPreserveMeaning == CompilerSpec => []PassesKeepMeaning
  <1>1. MeaningInv => PassesKeepMeaning
    BY DEF MeaningInv, PassesKeepMeaning, Preserves, Keeps
  <1>. QED
    BY <1>1, CompilerIsSound, MeaningInvInit, MeaningInvNext, PTL DEF CompilerSpec
=============================================================================
