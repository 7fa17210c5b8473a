------------------------------ MODULE Collections ------------------------------
(***************************************************************************)
(* Operators on functions and sequences that are easy to reason about.       *)
(***************************************************************************)
EXTENDS Integers, Sequences, SequencesExt

\* f, with x mapped to v
Put(f, x, v) == [y \in DOMAIN f \cup {x} |-> IF y = x THEN v ELSE f[y]]

\* f, and g where f says nothing
Over(f, g) == [y \in DOMAIN f \cup DOMAIN g |-> IF y \in DOMAIN f THEN f[y] ELSE g[y]]

\* The elements of seq that are in S, in the order of seq.
Filter(seq, S) ==
  LET kept[i \in 0 .. Len(seq)] ==
        IF i = 0 THEN <<>>
        ELSE IF seq[i] \in S THEN Append(kept[i - 1], seq[i]) ELSE kept[i - 1]
  IN  kept[Len(seq)]
=============================================================================
