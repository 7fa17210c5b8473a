------------------------- MODULE ControlFlow_proofs -------------------------
(***************************************************************************)
(* The invariant of the block graph is inductive for every program, of any  *)
(* length and nesting depth; a finished function has no open block, and a   *)
(* branch, once taken down, stays.                                          *)
(***************************************************************************)
EXTENDS ControlFlow, TLAPS

\* The labels the counter yields next are new, and different from each other
\* and from the entry.
LEMMA FreshLabels ==
  ASSUME TypeOK
  PROVE  /\ {IfThen, IfElse, IfJoin} \cap DOMAIN succ = {}
         /\ {WhileCond, WhileBody, WhileExit} \cap DOMAIN succ = {}
         /\ IfThen # IfElse /\ IfThen # IfJoin /\ IfElse # IfJoin
         /\ WhileCond # WhileBody /\ WhileCond # WhileExit /\ WhileBody # WhileExit
         /\ Entry \notin {IfThen, IfElse, IfJoin, WhileCond, WhileBody, WhileExit}
         /\ {IfThen, IfElse, IfJoin, WhileCond, WhileBody, WhileExit}
              \subseteq Prefixes \X (1 .. blk + 3)
BY DEF TypeOK, IfThen, IfElse, IfJoin, WhileCond, WhileBody, WhileExit, Prefixes, Entry

\* The stack without its top.
LEMMA PopFacts ==
  ASSUME frames \in Seq(Frame), frames # <<>>
  PROVE  /\ Len(frames) \in Nat \ {0}
         /\ Top \in Frame
         /\ Pop \in Seq(Frame)
         /\ Len(Pop) = Len(frames) - 1
         /\ \A i \in 1 .. Len(Pop) : Pop[i] = frames[i]
BY DEF Top, Pop


\* Pushing a frame holds its blocks back; popping one releases them.
LEMMA HeldAppend ==
  ASSUME NEW fs \in Seq(Frame), NEW f \in Frame
  PROVE  /\ Append(fs, f) \in Seq(Frame)
         /\ HeldOf(Append(fs, f)) = HeldOf(fs) \cup HeldBy(f)
         /\ Disjoint(fs) /\ HeldOf(fs) \cap HeldBy(f) = {} /\ (f.k = "then" => f.to # f.next)
              => Disjoint(Append(fs, f))
  <1> DEFINE gs == Append(fs, f)
  <1>1. /\ gs \in Seq(Frame) /\ Len(gs) = Len(fs) + 1 /\ gs[Len(fs) + 1] = f
        /\ \A i \in 1 .. Len(fs) : gs[i] = fs[i]
        /\ Len(fs) \in Nat
    OBVIOUS
  <1> HIDE DEF gs
  <1>2. HeldOf(gs) = HeldOf(fs) \cup HeldBy(f)
    <2>1. ASSUME NEW l \in HeldOf(gs) PROVE l \in HeldOf(fs) \cup HeldBy(f)
      <3>1. PICK i \in 1 .. Len(gs) : l \in HeldBy(gs[i])
        BY <2>1 DEF HeldOf
      <3>2. CASE i = Len(fs) + 1
        BY <1>1, <3>1, <3>2
      <3>3. CASE i \in 1 .. Len(fs)
        BY <1>1, <3>1, <3>3 DEF HeldOf
      <3>. QED
        BY <1>1, <3>2, <3>3
    <2>2. ASSUME NEW l \in HeldOf(fs) PROVE l \in HeldOf(gs)
      <3>1. PICK i \in 1 .. Len(fs) : l \in HeldBy(fs[i])
        BY <2>2 DEF HeldOf
      <3>. QED
        BY <1>1, <3>1 DEF HeldOf
    <2>3. ASSUME NEW l \in HeldBy(f) PROVE l \in HeldOf(gs)
      <3>1. Len(fs) + 1 \in 1 .. Len(gs)
        BY <1>1
      <3>. QED
        BY <1>1, <2>3, <3>1 DEF HeldOf
    <2>. QED
      BY <2>1, <2>2, <2>3
  <1>3. ASSUME Disjoint(fs), HeldOf(fs) \cap HeldBy(f) = {}, f.k = "then" => f.to # f.next
        PROVE  Disjoint(gs)
    <2>1. \A i \in 1 .. Len(fs) : HeldBy(fs[i]) \subseteq HeldOf(fs)
      BY DEF HeldOf
    <2>2. ASSUME NEW i \in 1 .. Len(gs), NEW j \in 1 .. Len(gs), i # j
          PROVE  HeldBy(gs[i]) \cap HeldBy(gs[j]) = {}
      <3>1. CASE i = Len(fs) + 1
        BY <1>1, <1>3, <2>1, <2>2, <3>1
      <3>2. CASE j = Len(fs) + 1
        BY <1>1, <1>3, <2>1, <2>2, <3>2
      <3>3. CASE i \in 1 .. Len(fs) /\ j \in 1 .. Len(fs)
        BY <1>1, <1>3, <2>2, <3>3 DEF Disjoint
      <3>. QED
        BY <1>1, <3>1, <3>2, <3>3
    <2>3. \A i \in 1 .. Len(gs) : gs[i].k = "then" => gs[i].to # gs[i].next
      BY <1>1, <1>3 DEF Disjoint
    <2>. QED
      BY <2>2, <2>3 DEF Disjoint
  <1>. QED
    BY <1>1, <1>2, <1>3 DEF gs

LEMMA HeldPop ==
  ASSUME frames \in Seq(Frame), frames # <<>>
  PROVE  /\ Held = HeldOf(Pop) \cup HeldBy(Top)
         /\ Disjoint(frames) => /\ Disjoint(Pop) /\ HeldOf(Pop) \cap HeldBy(Top) = {}
                                /\ Top.k = "then" => Top.to # Top.next
  <1>1. /\ Pop \in Seq(Frame) /\ Top \in Frame /\ frames = Append(Pop, Top)
        /\ Len(Pop) = Len(frames) - 1 /\ Len(frames) \in Nat \ {0}
        /\ \A i \in 1 .. Len(Pop) : Pop[i] = frames[i]
    BY PopFacts DEF Top, Pop
  <1>2. Held = HeldOf(Pop) \cup HeldBy(Top)
    BY <1>1, HeldAppend DEF Held
  <1>3. ASSUME Disjoint(frames)
        PROVE  /\ Disjoint(Pop) /\ HeldOf(Pop) \cap HeldBy(Top) = {}
               /\ Top.k = "then" => Top.to # Top.next
    <2> DEFINE n == Len(frames)
    <2>a. n \in Nat \ {0} /\ Len(Pop) = n - 1 /\ Top = frames[n]
      BY <1>1 DEF Top
    <2>b. \A i \in 1 .. n - 1 : i \in 1 .. n /\ i # n /\ Pop[i] = frames[i]
      BY <1>1, <2>a
    <2>c. /\ \A i, j \in 1 .. n : i # j => HeldBy(frames[i]) \cap HeldBy(frames[j]) = {}
          /\ \A i \in 1 .. n : frames[i].k = "then" => frames[i].to # frames[i].next
      BY <1>3 DEF Disjoint
    <2> HIDE DEF n
    <2>1. Disjoint(Pop)
      BY <2>a, <2>b, <2>c DEF Disjoint
    <2>2. HeldOf(Pop) \cap HeldBy(Top) = {}
      <3>1. ASSUME NEW i \in 1 .. Len(Pop) PROVE HeldBy(Pop[i]) \cap HeldBy(Top) = {}
        <4>1. i \in 1 .. n /\ i # n /\ Pop[i] = frames[i] /\ n \in 1 .. n
          BY <2>a, <2>b, <3>1
        <4>. QED
          BY <2>a, <2>c, <4>1
      <3>. QED
        BY <3>1 DEF HeldOf
    <2>3. Top.k = "then" => Top.to # Top.next
      BY <1>1, <1>3 DEF Disjoint, Top
    <2>. QED
      BY <2>1, <2>2, <2>3
  <1>. QED
    BY <1>2, <1>3

LEMMA InitInv == Init => Inv
  <1> SUFFICES ASSUME Init PROVE Inv
    OBVIOUS
  <1>1. TypeOK
    BY DEF Init, TypeOK, Entry
  <1>2. Held = {} /\ Disjoint(frames)
    BY DEF Init, Held, HeldOf, Disjoint
  <1>. QED
    BY <1>1, <1>2 DEF Init, Inv, OpenAreHeld, HeldEmpty, HeldOnce, TargetsExist, EntryHasNoPreds, Entry

\* One lemma per action: each preserves the invariant.
LEMMA ReturnStmtInv == Inv /\ status = "lowering" /\ ReturnStmt => Inv'
  <1> SUFFICES ASSUME Inv, status = "lowering", ReturnStmt PROVE Inv'
    OBVIOUS
  <1>1. TypeOK'
    BY DEF Inv, TypeOK, ReturnStmt
  <1>2. Held' = Held /\ (Disjoint(frames))' = Disjoint(frames)
    BY DEF ReturnStmt, Held
  <1>3. OpenAreHeld' /\ HeldEmpty' /\ HeldOnce' /\ TargetsExist'
    BY <1>2 DEF Inv, TypeOK, ReturnStmt, OpenAreHeld, HeldEmpty, HeldOnce, TargetsExist
  <1>4. EntryHasNoPreds'
    BY DEF Inv, TypeOK, ReturnStmt, EntryHasNoPreds
  <1>. QED
    BY <1>1, <1>3, <1>4 DEF Inv, ReturnStmt

LEMMA OpenIfInv == Inv /\ status = "lowering" /\ OpenIf => Inv'
  <1> SUFFICES ASSUME Inv, status = "lowering", OpenIf PROVE Inv'
    OBVIOUS
  <1> DEFINE f == [k |-> "then", to |-> IfJoin, next |-> IfElse]
             new == {IfThen, IfElse, IfJoin}
  <1>1. TypeOK /\ OpenAreHeld /\ HeldEmpty /\ HeldOnce /\ TargetsExist /\ EntryHasNoPreds
    BY DEF Inv
  <1>2. /\ new \cap DOMAIN succ = {} /\ Entry \notin new
        /\ IfThen # IfElse /\ IfThen # IfJoin /\ IfElse # IfJoin
        /\ new \subseteq Prefixes \X (1 .. blk')
    BY <1>1, FreshLabels DEF OpenIf
  <1>3. f \in Frame /\ HeldBy(f) = {IfJoin, IfElse}
    BY DEF Frame, Labels, HeldBy, IfJoin, IfElse, Prefixes, Inv, TypeOK
  <1>4. Held \subseteq DOMAIN succ
    BY <1>1 DEF HeldEmpty
  <1>5. /\ frames' \in Seq(Frame) /\ Held' = Held \cup {IfJoin, IfElse} /\ Disjoint(frames)'
    BY <1>1, <1>2, <1>3, <1>4, HeldAppend DEF OpenIf, Push, TypeOK, Held, HeldOnce
  <1>6. /\ DOMAIN succ' = DOMAIN succ \cup new
        /\ \A l \in new : succ'[l] = {}
        /\ succ'[cur] = {IfThen, IfElse}
        /\ \A l \in DOMAIN succ \ {cur} : succ'[l] = succ[l]
    BY <1>1, <1>2 DEF OpenIf, TypeOK
  <1>7. TypeOK'
    <2>1. DOMAIN succ' \subseteq {Entry} \cup (Prefixes \X (1 .. blk'))
      BY <1>1, <1>2, <1>6 DEF OpenIf, TypeOK
    <2>2. succ' \in [DOMAIN succ' -> SUBSET DOMAIN succ']
      BY <1>1, <1>6 DEF OpenIf, TypeOK
    <2>. QED
      BY <1>1, <1>5, <1>6, <2>1, <2>2 DEF OpenIf, TypeOK
  <1>8. OpenAreHeld'
    BY <1>1, <1>5 DEF OpenIf, OpenAreHeld
  <1>9. HeldEmpty'
    BY <1>1, <1>4, <1>5, <1>6 DEF OpenIf, HeldEmpty, HeldOnce
  <1>10. HeldOnce'
    BY <1>1, <1>2, <1>4, <1>5 DEF OpenIf, HeldOnce
  <1>11. TargetsExist'
    BY <1>1, <1>2, <1>6 DEF OpenIf, Push, TargetsExist, TypeOK
  <1>12. EntryHasNoPreds'
    BY <1>1, <1>2, <1>6 DEF EntryHasNoPreds
  <1>. QED
    BY <1>7, <1>8, <1>9, <1>10, <1>11, <1>12 DEF Inv, OpenIf

LEMMA OpenWhileInv == Inv /\ status = "lowering" /\ OpenWhile => Inv'
  <1> SUFFICES ASSUME Inv, status = "lowering", OpenWhile PROVE Inv'
    OBVIOUS
  <1> DEFINE f == [k |-> "while", to |-> WhileCond, next |-> WhileExit]
             new == {WhileCond, WhileBody, WhileExit}
  <1>1. TypeOK /\ OpenAreHeld /\ HeldEmpty /\ HeldOnce /\ TargetsExist /\ EntryHasNoPreds
    BY DEF Inv
  <1>2. /\ new \cap DOMAIN succ = {} /\ Entry \notin new
        /\ WhileCond # WhileBody /\ WhileCond # WhileExit /\ WhileBody # WhileExit
        /\ new \subseteq Prefixes \X (1 .. blk')
    BY <1>1, FreshLabels DEF OpenWhile
  <1>3. f \in Frame /\ HeldBy(f) = {WhileExit}
    BY DEF Frame, Labels, HeldBy, WhileCond, WhileExit, Prefixes, Inv, TypeOK
  <1>4. Held \subseteq DOMAIN succ
    BY <1>1 DEF HeldEmpty
  <1>5. /\ frames' \in Seq(Frame) /\ Held' = Held \cup {WhileExit} /\ Disjoint(frames)'
    BY <1>1, <1>2, <1>3, <1>4, HeldAppend DEF OpenWhile, Push, TypeOK, Held, HeldOnce
  <1>6. /\ DOMAIN succ' = DOMAIN succ \cup new
        /\ succ'[WhileBody] = {} /\ succ'[WhileExit] = {}
        /\ succ'[WhileCond] = {WhileBody, WhileExit}
        /\ succ'[cur] = {WhileCond}
        /\ \A l \in DOMAIN succ \ {cur} : succ'[l] = succ[l]
    BY <1>1, <1>2 DEF OpenWhile, TypeOK
  <1>7. TypeOK'
    <2>1. DOMAIN succ' \subseteq {Entry} \cup (Prefixes \X (1 .. blk'))
      BY <1>1, <1>2, <1>6 DEF OpenWhile, TypeOK
    <2>2. succ' \in [DOMAIN succ' -> SUBSET DOMAIN succ']
      BY <1>1, <1>6 DEF OpenWhile, TypeOK
    <2>. QED
      BY <1>1, <1>5, <1>6, <2>1, <2>2 DEF OpenWhile, TypeOK
  <1>8. OpenAreHeld'
    BY <1>1, <1>5 DEF OpenWhile, OpenAreHeld
  <1>9. HeldEmpty'
    BY <1>1, <1>4, <1>5, <1>6 DEF OpenWhile, HeldEmpty, HeldOnce
  <1>10. HeldOnce'
    BY <1>1, <1>2, <1>4, <1>5 DEF OpenWhile, HeldOnce
  <1>11. TargetsExist'
    BY <1>1, <1>2, <1>6 DEF OpenWhile, Push, TargetsExist, TypeOK
  <1>12. EntryHasNoPreds'
    BY <1>1, <1>2, <1>6 DEF EntryHasNoPreds
  <1>. QED
    BY <1>7, <1>8, <1>9, <1>10, <1>11, <1>12 DEF Inv, OpenWhile

LEMMA BeginElseInv == Inv /\ status = "lowering" /\ BeginElse => Inv'
  <1> SUFFICES ASSUME Inv, status = "lowering", BeginElse PROVE Inv'
    OBVIOUS
  <1> DEFINE f == [k |-> "else", to |-> Top.to, next |-> Top.to]
  <1>1. TypeOK /\ OpenAreHeld /\ HeldEmpty /\ HeldOnce /\ TargetsExist /\ EntryHasNoPreds
    BY DEF Inv
  <1>2. frames \in Seq(Frame) /\ frames # <<>> /\ Top \in Frame /\ Top.k = "then"
    BY <1>1, PopFacts DEF BeginElse, TypeOK
  <1>3. /\ Held = HeldOf(Pop) \cup {Top.to, Top.next}
        /\ Disjoint(Pop) /\ HeldOf(Pop) \cap {Top.to, Top.next} = {}
        /\ Top.to # Top.next /\ Pop \in Seq(Frame)
        /\ Top.to \in DOMAIN succ \ {Entry}
    BY <1>1, <1>2, HeldPop, PopFacts DEF HeldBy, HeldOnce, TargetsExist, Top
  <1>4. f \in Frame /\ HeldBy(f) = {Top.to}
    BY <1>2 DEF Frame, HeldBy
  <1>5. frames' \in Seq(Frame) /\ Held' = HeldOf(Pop) \cup {Top.to} /\ Disjoint(frames)'
    BY <1>3, <1>4, HeldAppend DEF BeginElse, Held
  <1>6. /\ DOMAIN succ' = DOMAIN succ
        /\ \A l \in DOMAIN succ \ {cur} : succ'[l] = succ[l]
        /\ succ'[cur] \in {succ[cur], {Top.to}}
    BY <1>1 DEF BeginElse, FallTo, TypeOK
  <1>7. TypeOK'
    <2>1. succ' \in [DOMAIN succ' -> SUBSET DOMAIN succ']
      BY <1>1, <1>3 DEF BeginElse, FallTo, TypeOK
    <2>2. Top.next \in DOMAIN succ
      BY <1>1, <1>3 DEF HeldEmpty
    <2>. QED
      BY <1>1, <1>5, <1>6, <2>1, <2>2 DEF BeginElse, FallTo, TypeOK
  <1>8. OpenAreHeld'
    BY <1>1, <1>3, <1>5 DEF BeginElse, FallTo, OpenAreHeld
  <1>9. HeldEmpty'
    BY <1>1, <1>3, <1>5, <1>6 DEF BeginElse, HeldEmpty, HeldOnce
  <1>10. HeldOnce'
    BY <1>1, <1>3, <1>5 DEF BeginElse, HeldOnce
  <1>11. TargetsExist'
    <2>1. /\ Len(frames') = Len(Pop) + 1 /\ frames'[Len(Pop) + 1] = f
          /\ Len(Pop) \in Nat /\ Len(Pop) = Len(frames) - 1
          /\ \A i \in 1 .. Len(Pop) : frames'[i] = frames[i]
      BY <1>2, <1>3, PopFacts DEF BeginElse
    <2>. QED
      BY <1>1, <1>3, <1>6, <2>1 DEF TargetsExist
  <1>12. EntryHasNoPreds'
    BY <1>1, <1>3, <1>6 DEF EntryHasNoPreds, TypeOK
  <1>. QED
    BY <1>7, <1>8, <1>9, <1>10, <1>11, <1>12 DEF Inv, BeginElse

LEMMA CloseInv == Inv /\ status = "lowering" /\ Close => Inv'
  <1> SUFFICES ASSUME Inv, status = "lowering", Close PROVE Inv'
    OBVIOUS
  <1>1. TypeOK /\ OpenAreHeld /\ HeldEmpty /\ HeldOnce /\ TargetsExist /\ EntryHasNoPreds
    BY DEF Inv
  <1>2. frames \in Seq(Frame) /\ frames # <<>> /\ Top \in Frame /\ Top.k # "then"
    BY <1>1, PopFacts DEF Close, TypeOK
  <1>3. /\ Held = HeldOf(Pop) \cup {Top.next}
        /\ Disjoint(Pop) /\ HeldOf(Pop) \cap {Top.next} = {}
        /\ Pop \in Seq(Frame)
        /\ Top.to \in DOMAIN succ \ {Entry}
    BY <1>1, <1>2, HeldPop, PopFacts DEF HeldBy, HeldOnce, TargetsExist, Top
  <1>5. frames' = Pop /\ Held' = HeldOf(Pop) /\ Disjoint(frames)'
    BY <1>3 DEF Close, Held
  <1>6. /\ DOMAIN succ' = DOMAIN succ
        /\ \A l \in DOMAIN succ \ {cur} : succ'[l] = succ[l]
        /\ succ'[cur] \in {succ[cur], {Top.to}}
    BY <1>1 DEF Close, FallTo, TypeOK
  <1>7. TypeOK'
    <2>1. succ' \in [DOMAIN succ' -> SUBSET DOMAIN succ']
      BY <1>1, <1>3 DEF Close, FallTo, TypeOK
    <2>2. Top.next \in DOMAIN succ
      BY <1>1, <1>3 DEF HeldEmpty
    <2>. QED
      BY <1>1, <1>3, <1>5, <1>6, <2>1, <2>2 DEF Close, FallTo, TypeOK
  <1>8. OpenAreHeld'
    BY <1>1, <1>3, <1>5 DEF Close, FallTo, OpenAreHeld
  <1>9. HeldEmpty'
    BY <1>1, <1>3, <1>5, <1>6 DEF Close, HeldEmpty, HeldOnce
  <1>10. HeldOnce'
    BY <1>1, <1>3, <1>5 DEF Close, HeldOnce
  <1>11. TargetsExist'
    BY <1>1, <1>2, <1>5, <1>6, PopFacts DEF TargetsExist
  <1>12. EntryHasNoPreds'
    BY <1>1, <1>3, <1>6 DEF EntryHasNoPreds, TypeOK
  <1>. QED
    BY <1>7, <1>8, <1>9, <1>10, <1>11, <1>12 DEF Inv, Close

\* The function ends with an empty stack: only the current block can be open.
LEMMA FinishInv == Inv /\ status = "lowering" /\ Finish => Inv'
  <1> SUFFICES ASSUME Inv, status = "lowering", Finish PROVE Inv'
    OBVIOUS
  <1>1. TypeOK'
    BY DEF Inv, TypeOK, Finish
  <1>2. Held = {}
    BY DEF Finish, Held, HeldOf
  <1>3. open' = {}
    BY <1>2 DEF Inv, OpenAreHeld, Finish
  <1>4. EntryHasNoPreds'
    BY DEF Inv, Finish, EntryHasNoPreds
  <1>. QED
    BY <1>1, <1>3, <1>4 DEF Inv, Finish

LEMMA NextInv == Inv /\ [Next]_vars => Inv'
  <1> SUFFICES ASSUME Inv, [Next]_vars PROVE Inv'
    OBVIOUS
  <1>1. CASE Next /\ (ReturnStmt \/ OpenIf \/ OpenWhile \/ BeginElse \/ Close \/ Finish)
    BY <1>1, ReturnStmtInv, OpenIfInv, OpenWhileInv, BeginElseInv, CloseInv, FinishInv DEF Next
  <1>2. CASE Next /\ Raise
    BY <1>2 DEF Raise, Inv, TypeOK, EntryHasNoPreds
  <1>3. CASE UNCHANGED vars
    BY <1>3 DEF vars, Inv, TypeOK, OpenAreHeld, HeldEmpty, HeldOnce, Held, TargetsExist,
                EntryHasNoPreds
  <1>. QED
    BY <1>1, <1>2, <1>3 DEF Next

THEOREM Invariant == Spec => []Inv
  <1>. QED
    BY InitInv, NextInv, PTL DEF Spec

\* Type correctness, for functions of any length.
THEOREM TypeCorrect == Spec => []TypeOK
  <1>1. Inv => TypeOK
    BY DEF Inv
  <1>. QED
    BY <1>1, Invariant, PTL

\* emit_function never meets a block without a terminator, and no branch leads
\* back to the entry block.
THEOREM EveryBlockEnds == Spec => []AllBlocksEnd
  <1>1. Inv => AllBlocksEnd
    BY DEF Inv, AllBlocksEnd, TypeOK, EntryHasNoPreds
  <1>. QED
    BY <1>1, Invariant, PTL

\* A step never redirects a block that has been left by a branch or a jump.
THEOREM BranchesAreFinal == Spec => BranchesStay
  <1> DEFINE A == \A l \in DOMAIN succ : succ[l] # {} => l \in DOMAIN succ' /\ succ'[l] = succ[l]
  <1>1. Inv /\ [Next]_vars => [A]_vars
    <2> SUFFICES ASSUME Inv, Next PROVE A
      OBVIOUS
    <2>1. TypeOK /\ succ[cur] = {}
      BY DEF Next, Inv, HeldEmpty
    <2>2. CASE OpenIf
      BY <2>1, <2>2, FreshLabels DEF OpenIf, TypeOK
    <2>3. CASE OpenWhile
      BY <2>1, <2>3, FreshLabels DEF OpenWhile, TypeOK
    <2>4. CASE ReturnStmt \/ BeginElse \/ Close \/ Raise \/ Finish
      BY <2>1, <2>4 DEF ReturnStmt, BeginElse, Close, Raise, Finish, FallTo, TypeOK
    <2>. QED
      BY <2>2, <2>3, <2>4 DEF Next
  <1>. QED
    BY <1>1, Invariant, PTL DEF Spec, BranchesStay
=============================================================================
