--------------------------- MODULE DeadCode_proofs ---------------------------
(***************************************************************************)
(* For functions of any size: the pass drops nothing that is needed, and    *)
(* where it stops is the largest set no sweep can shrink.                   *)
(***************************************************************************)
EXTENDS DeadCode, TLAPS

\* Fewer nodes read fewer names, and a sweep over them leaves fewer.
LEMMA RemainingMonotone ==
  ASSUME NEW f, NEW S, NEW T, S \subseteq T
  PROVE  /\ Referenced(f, S) \subseteq Referenced(f, T)
         /\ Remaining(f, S) \subseteq Remaining(f, T)
  <1>1. Referenced(f, S) \subseteq Referenced(f, T)
    BY DEF Referenced
  <1>. QED
    BY <1>1 DEF Remaining

\* The names a function's nodes S and its terminators read are those collected.
LEMMA ReferencedAreRead ==
  ASSUME NEW f, NEW S, NEW i
  PROVE  (\E n \in f.node[i].res : Reads(f, S, n)) <=> f.node[i].res \cap Referenced(f, S) # {}
  <1>1. ASSUME NEW n PROVE Reads(f, S, n) <=> n \in Referenced(f, S)
    BY DEF Reads, Referenced
  <1>. QED
    BY <1>1

\* A sweep over a set that holds all a function needs leaves such a set.
LEMMA SweepKeepsClosed ==
  ASSUME NEW f, NEW S, Closed(f, S)
  PROVE  Closed(f, Remaining(f, S))
  <1>1. Remaining(f, S) \subseteq S
    BY DEF Remaining
  <1>2. Referenced(f, Remaining(f, S)) \subseteq Referenced(f, S)
    BY <1>1, RemainingMonotone
  <1>3. ASSUME NEW i \in Nodes, ~f.node[i].droppable \/ f.node[i].res = {}
        PROVE  i \in Remaining(f, S)
    BY <1>3 DEF Closed, Remaining, CanDrop
  <1>4. ASSUME NEW i \in Nodes, \E n \in f.node[i].res : Reads(f, Remaining(f, S), n)
        PROVE  i \in Remaining(f, S)
    <2>1. f.node[i].res \cap Referenced(f, Remaining(f, S)) # {}
      BY <1>4, ReferencedAreRead
    <2>2. f.node[i].res \cap Referenced(f, S) # {}
      BY <1>2, <2>1
    <2>3. \E n \in f.node[i].res : Reads(f, S, n)
      BY <2>2, ReferencedAreRead
    <2>4. i \in S
      BY <2>3 DEF Closed
    <2>. QED
      BY <2>2, <2>4 DEF Remaining
  <1>. QED
    BY <1>3, <1>4 DEF Closed

\* Type correctness.
THEOREM TypeCorrect == Spec => []TypeOK
  <1>1. Init => TypeOK
    BY DEF Init, TypeOK
  <1>2. TypeOK /\ [Next]_vars => TypeOK'
    BY DEF TypeOK, Next, Sweep, Remaining, vars
  <1>. QED
    BY <1>1, <1>2, PTL DEF Spec

\* No sweep drops a node whose effect or whose result the function needs.
THEOREM NeededStay == Spec => []NeededNodesStay
  <1> DEFINE I == Closed(fn, kept)
  <1>1. Init => I
    BY DEF Init, Closed
  <1>2. I /\ [Next]_vars => I'
    <2> SUFFICES ASSUME I, [Next]_vars PROVE I'
      OBVIOUS
    <2>1. CASE Next
      <3>1. kept' = Remaining(fn, kept) /\ fn' = fn
        BY <2>1 DEF Next, Sweep
      <3>2. Closed(fn, Remaining(fn, kept))
        BY SweepKeepsClosed
      <3>. QED
        BY <3>1, <3>2
    <2>2. CASE UNCHANGED vars
      BY <2>2 DEF vars, Closed
    <2>. QED
      BY <2>1, <2>2
  <1>3. TypeOK /\ I => NeededNodesStay
    BY DEF TypeOK, NeededNodesStay, Needed
  <1>. QED
    BY <1>1, <1>2, <1>3, TypeCorrect, PTL DEF Spec

\* Where the pass stops does not depend on the order of its sweeps: it is the
\* largest set of nodes that a sweep leaves as it is.
THEOREM StopsAtLargestFixpoint == Spec => []LargestFixpoint
  <1> DEFINE All == \A S \in SUBSET Nodes : Stable(fn, S) => S \subseteq kept
             End == ~changed => Stable(fn, kept)
  <1>1. Init => All /\ End
    BY DEF Init
  <1>2. All /\ End /\ [Next]_vars => All' /\ End'
    <2> SUFFICES ASSUME All, End, [Next]_vars PROVE All' /\ End'
      OBVIOUS
    <2>1. CASE Next
      <3>1. kept' = Remaining(fn, kept) /\ fn' = fn /\ changed' = (kept' # kept)
        BY <2>1 DEF Next, Sweep
      <3>2. ASSUME NEW S \in SUBSET Nodes, Stable(fn, S) PROVE S \subseteq kept'
        <4>1. S \subseteq kept
          BY <3>2
        <4>2. Remaining(fn, S) \subseteq Remaining(fn, kept)
          BY <4>1, RemainingMonotone
        <4>. QED
          BY <3>1, <3>2, <4>2 DEF Stable
      <3>3. End'
        BY <3>1 DEF Stable
      <3>. QED
        BY <3>1, <3>2, <3>3 DEF Stable
    <2>2. CASE UNCHANGED vars
      BY <2>2 DEF vars, Stable
    <2>. QED
      BY <2>1, <2>2
  <1>3. All /\ End => LargestFixpoint
    BY DEF LargestFixpoint
  <1>. QED
    BY <1>1, <1>2, <1>3, PTL DEF Spec
=============================================================================
