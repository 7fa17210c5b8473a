------------------------------ MODULE DeadCode ------------------------------
(***************************************************************************)
(* DeadCodeEliminationPass.run: sweeps over a function until one drops      *)
(* nothing.  A sweep collects the names that the remaining nodes and the    *)
(* terminators read, then drops every droppable node whose result is not    *)
(* among them.  Blocks play no part: the names are those of the function.   *)
(***************************************************************************)
EXTENDS Integers, FiniteSets

CONSTANTS
  Nodes,      \* positions of the nodes of a function
  Names,      \* names of values
  Functions   \* the functions given to the pass

\* What the pass looks at in a node: its class, its result (a set of at most one
\* name), the names it reads.
Node == [droppable : BOOLEAN, res : SUBSET Names, uses : SUBSET Names]

ASSUME DeadCodeAssumption ==
  \A f \in Functions : f.node \in [Nodes -> Node] /\ f.ends \in SUBSET Names

VARIABLES
  fn,         \* the function: its nodes, and the names its terminators read
  kept,       \* the nodes not dropped yet
  changed     \* the last sweep dropped something (TRUE before the first)

vars == <<fn, kept, changed>>

-----------------------------------------------------------------------------
\* Mutant: the terminators are not looked at.
ReferencedByNodes(f, S) == UNION {f.node[i].uses : i \in S}

\* _collect_referenced_values
Referenced(f, S) == (UNION {f.node[i].uses : i \in S}) \cup f.ends

\* A node that may be dropped has a result, and no one reads it.  Calls and
\* stores are never droppable.
CanDrop(f, i) == f.node[i].droppable /\ f.node[i].res # {}

Remaining(f, S) ==
  {i \in S : CanDrop(f, i) => f.node[i].res \cap Referenced(f, S) # {}}

\* Mutants: one sweep only; sweeps without end; the function loses what is dropped.
SweepOnce ==
  changed /\ kept' = Remaining(fn, kept) /\ changed' = FALSE /\ UNCHANGED fn
SweepForever ==
  changed /\ kept' = Remaining(fn, kept) /\ UNCHANGED <<fn, changed>>
SweepInPlace ==
  /\ changed
  /\ kept' = Remaining(fn, kept)
  /\ changed' = (kept' # kept)
  /\ fn' = [fn EXCEPT !.node = [i \in kept' |-> @[i]]]

Sweep ==
  /\ changed
  /\ kept' = Remaining(fn, kept)
  /\ changed' = (kept' # kept)
  /\ UNCHANGED fn

Init ==
  /\ fn \in Functions
  /\ kept = Nodes
  /\ changed = TRUE

Next == Sweep

\* The pass is a loop: it does not stop between two sweeps.
Spec == Init /\ [][Next]_vars /\ WF_vars(Next)

-----------------------------------------------------------------------------
TypeOK ==
  /\ fn \in Functions
  /\ kept \in SUBSET Nodes
  /\ changed \in BOOLEAN

\* What a function needs: its effects, and the definitions of every name that a
\* needed node or a terminator reads; no less than any set so closed.
Reads(f, S, n) == n \in f.ends \/ \E j \in S : n \in f.node[j].uses

Closed(f, S) ==
  /\ \A i \in Nodes : ~f.node[i].droppable \/ f.node[i].res = {} => i \in S
  /\ \A i \in Nodes : (\E n \in f.node[i].res : Reads(f, S, n)) => i \in S

Needed(f) == {i \in Nodes : \A S \in SUBSET Nodes : Closed(f, S) => i \in S}

\* No sweep ever drops a node that the function needs, however long the chain of
\* uses that leads to it: no name read by what remains, or by a terminator,
\* loses a definition.
NeededNodesStay == Closed(fn, kept) /\ Needed(fn) \subseteq kept

\* A set of nodes the pass could not make smaller.
Stable(f, S) == S \subseteq Remaining(f, S)

\* Dropping in sweeps, with names collected before the sweep, loses nothing: when
\* the pass ends it has found the largest set that no sweep makes smaller, so
\* running it again, or in another order, changes nothing.
LargestFixpoint ==
  /\ \A S \in SUBSET Nodes : Stable(fn, S) => S \subseteq kept
  /\ ~changed => Stable(fn, kept)

\* The pass ends: a sweep that changes something drops a node for good.
Terminates == <>~changed
=============================================================================
