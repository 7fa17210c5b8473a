----------------------------- MODULE ControlFlow -----------------------------
(***************************************************************************)
(* What the lowering of a function promises about its blocks, whatever the  *)
(* statements compute: the graph that _lower_if and _lower_while build, one *)
(* statement at a time, with returns anywhere.  Lowering.tla implements it. *)
(*                                                                         *)
(* The statements that have begun and not ended are a stack of frames: the  *)
(* current block will fall to the block "to" when the innermost frame ends, *)
(* and lowering goes on in the block "next".                                *)
(***************************************************************************)
EXTENDS Integers, Sequences

CONSTANTS
  IsVoid,     \* the function is declared to return nothing
  MaxBlocks   \* bound on the block counter

ASSUME ControlFlowAssumption == IsVoid \in BOOLEAN /\ MaxBlocks \in Nat

VARIABLES
  status,     \* "lowering", "done" or "rejected"
  succ,       \* the blocks, each with the blocks it may continue in
  open,       \* the blocks without a terminator
  cur,        \* the current block
  frames,     \* the statements begun and not ended: [k, to, next]
  blk         \* the block counter

vars == <<status, succ, open, cur, frames, blk>>

Entry == <<"entry", 0>>
Prefixes == {"if_then", "if_else", "if_join", "while_cond", "while_body", "while_exit"}

\* The labels that the next if and the next loop take from the counter.
IfThen == <<"if_then", blk + 1>>
IfElse == <<"if_else", blk + 2>>
IfJoin == <<"if_join", blk + 3>>
WhileCond == <<"while_cond", blk + 1>>
WhileBody == <<"while_body", blk + 2>>
WhileExit == <<"while_exit", blk + 3>>

\* Mutant: a block that falls to another stays open.
FallToOpen(l) ==
  /\ succ' = IF cur \in open THEN [succ EXCEPT ![cur] = {l}] ELSE succ
  /\ UNCHANGED open

\* The current block falls to l, unless it already ended in a return.
FallTo(l) ==
  /\ succ' = IF cur \in open THEN [succ EXCEPT ![cur] = {l}] ELSE succ
  /\ open' = open \ {cur}

Push(f) == frames' = Append(frames, f)
Top == frames[Len(frames)]
Pop == [i \in 1 .. Len(frames) - 1 |-> frames[i]]

-----------------------------------------------------------------------------
\* A return takes the place of whatever ended the current block before.
ReturnStmt ==
  /\ succ' = [succ EXCEPT ![cur] = {}]
  /\ open' = open \ {cur}
  /\ UNCHANGED <<status, cur, frames, blk>>

OpenIf ==
  /\ blk + 3 <= MaxBlocks
  /\ succ' = [l \in DOMAIN succ \cup {IfThen, IfElse, IfJoin} |->
                IF l \in {IfThen, IfElse, IfJoin} THEN {}
                ELSE IF l = cur THEN {IfThen, IfElse} ELSE succ[l]]
  /\ open' = (open \ {cur}) \cup {IfThen, IfElse, IfJoin}
  /\ cur' = IfThen
  /\ Push([k |-> "then", to |-> IfJoin, next |-> IfElse])
  /\ blk' = blk + 3
  /\ UNCHANGED status

\* The condition block is complete at once: it branches to body and exit.
OpenWhile ==
  /\ blk + 3 <= MaxBlocks
  /\ succ' = [l \in DOMAIN succ \cup {WhileCond, WhileBody, WhileExit} |->
                IF l \in {WhileBody, WhileExit} THEN {}
                ELSE IF l = WhileCond THEN {WhileBody, WhileExit}
                ELSE IF l = cur THEN {WhileCond} ELSE succ[l]]
  /\ open' = (open \ {cur}) \cup {WhileBody, WhileExit}
  /\ cur' = WhileBody
  /\ Push([k |-> "while", to |-> WhileCond, next |-> WhileExit])
  /\ blk' = blk + 3
  /\ UNCHANGED status

BeginElse ==
  /\ frames # <<>> /\ Top.k = "then"
  /\ FallTo(Top.to)
  /\ cur' = Top.next
  /\ frames' = Append(Pop, [k |-> "else", to |-> Top.to, next |-> Top.to])
  /\ UNCHANGED <<status, blk>>

\* Mutant: lowering goes on in the block of the condition.
CloseInCondition ==
  /\ frames # <<>> /\ Top.k # "then"
  /\ FallTo(Top.to)
  /\ cur' = Top.to
  /\ frames' = Pop
  /\ UNCHANGED <<status, blk>>

\* The end of an if, in its join block, or of a loop, in its exit block.
Close ==
  /\ frames # <<>> /\ Top.k # "then"
  /\ FallTo(Top.to)
  /\ cur' = Top.next
  /\ frames' = Pop
  /\ UNCHANGED <<status, blk>>

Raise ==
  /\ status' = "rejected"
  /\ UNCHANGED <<succ, open, cur, frames, blk>>

\* Mutant: a function without a return gets none.
FinishOpen ==
  /\ frames = <<>>
  /\ cur \in open => IsVoid
  /\ status' = "done"
  /\ UNCHANGED <<succ, open, cur, frames, blk>>

Finish ==
  /\ frames = <<>>
  /\ cur \in open => IsVoid
  /\ status' = "done"
  /\ open' = open \ {cur}
  /\ UNCHANGED <<succ, cur, frames, blk>>

Init ==
  /\ status = "lowering"
  /\ succ = [l \in {Entry} |-> {}]
  /\ open = {Entry}
  /\ cur = Entry
  /\ frames = <<>>
  /\ blk = 0

Next ==
  /\ status = "lowering"
  /\ ReturnStmt \/ OpenIf \/ OpenWhile \/ BeginElse \/ Close \/ Raise \/ Finish

Spec == Init /\ [][Next]_vars

-----------------------------------------------------------------------------
Labels == {Entry} \cup (Prefixes \X Nat)
Frame == [k : {"then", "else", "while"}, to : Labels, next : Labels]

TypeOK ==
  /\ status \in {"lowering", "done", "rejected"}
  /\ blk \in Nat
  /\ DOMAIN succ \subseteq {Entry} \cup (Prefixes \X (1 .. blk))
  /\ succ \in [DOMAIN succ -> SUBSET DOMAIN succ]
  /\ open \subseteq DOMAIN succ
  /\ cur \in DOMAIN succ
  /\ frames \in Seq(Frame)

\* A finished function has no block without a terminator, which emit_function
\* would refuse, and no branch back to the entry block, which LLVM would.
AllBlocksEnd ==
  status = "done" => open = {} /\ \A l \in DOMAIN succ : succ[l] \subseteq DOMAIN succ \ {Entry}

\* A block that was left by a jump or a branch keeps it: no statement lowered
\* later reopens, replaces or redirects it.
BranchesStay ==
  [][\A l \in DOMAIN succ : succ[l] # {} => l \in DOMAIN succ' /\ succ'[l] = succ[l]]_vars

-----------------------------------------------------------------------------
(* The inductive invariant behind both: the open blocks are the current one   *)
(* and those the frames hold back, each held back once; no branch leads away  *)
(* from any of them yet.                                                      *)

HeldBy(f) == IF f.k = "then" THEN {f.to, f.next} ELSE {f.next}
HeldOf(fs) == UNION {HeldBy(fs[i]) : i \in 1 .. Len(fs)}
Held == HeldOf(frames)

Disjoint(fs) ==
  /\ \A i, j \in 1 .. Len(fs) : i # j => HeldBy(fs[i]) \cap HeldBy(fs[j]) = {}
  /\ \A i \in 1 .. Len(fs) : fs[i].k = "then" => fs[i].to # fs[i].next

OpenAreHeld == open \subseteq {cur} \cup Held
HeldEmpty == \A l \in {cur} \cup Held : l \in DOMAIN succ /\ succ[l] = {}
HeldOnce == cur \notin Held /\ Disjoint(frames)
EntryHasNoPreds == \A l \in DOMAIN succ : Entry \notin succ[l]
TargetsExist == \A i \in 1 .. Len(frames) : frames[i].to \in DOMAIN succ \ {Entry}

Inv ==
  /\ TypeOK
  /\ status = "lowering" => OpenAreHeld /\ HeldEmpty /\ HeldOnce /\ TargetsExist
  /\ EntryHasNoPreds
  /\ status = "done" => open = {}
=============================================================================
