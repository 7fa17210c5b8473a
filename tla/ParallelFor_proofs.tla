------------------------- MODULE ParallelFor_proofs -------------------------
(***************************************************************************)
(* For every range and every number of threads: the chunks tile the range   *)
(* and are even, each index is given to one body, no body outlives the      *)
(* call, the results are in order and the exception raised is the earliest. *)
(***************************************************************************)
EXTENDS ParallelFor, FiniteSetTheorems, TLAPS

\* One future of the sequence changes state.
LEMMA FutureChanges ==
  ASSUME NEW fs \in Seq(States), NEW i \in DOMAIN fs, NEW s \in States
  PROVE  /\ [fs EXCEPT ![i] = s] \in Seq(States)
         /\ Len([fs EXCEPT ![i] = s]) = Len(fs)
OBVIOUS

LEMMA PoolStep ==
  ASSUME TypeOK, NEW i \in DOMAIN futures, StartBody(i) \/ EndBody(i)
  PROVE  \E s \in States \ {"queued"} :
           /\ futures' = [futures EXCEPT ![i] = s]
           /\ futures' \in Seq(States) /\ Len(futures') = Len(futures)
           /\ futures[i] \in {"queued", "running"}
           /\ start' = start /\ stop' = stop /\ threads' = threads /\ pc' = pc
           /\ cursor' = cursor /\ chunks' = chunks /\ results' = results /\ raised' = raised
  <1>1. CASE StartBody(i)
    <2>1. futures' = [futures EXCEPT ![i] = "running"] /\ "running" \in States \ {"queued"}
      BY <1>1 DEF StartBody, States
    <2>2. futures' \in Seq(States) /\ Len(futures') = Len(futures)
      BY <2>1, FutureChanges DEF TypeOK
    <2>. QED
      BY <1>1, <2>1, <2>2 DEF StartBody
  <1>2. CASE EndBody(i)
    <2>1. PICK s \in {"ok", "error"} : futures' = [futures EXCEPT ![i] = s]
      BY <1>2 DEF EndBody
    <2>2. s \in States \ {"queued"}
      BY DEF States
    <2>3. futures' \in Seq(States) /\ Len(futures') = Len(futures)
      BY <2>1, <2>2, FutureChanges DEF TypeOK
    <2>. QED
      BY <1>2, <2>1, <2>2, <2>3 DEF EndBody
  <1>. QED
    BY <1>1, <1>2

\* A call without threads has one chunk, the range.
LEMMA DirectStep ==
  ASSUME TypeOK, Direct
  PROVE  /\ chunks' \in Seq(Chunk) /\ Len(chunks') = 1
         /\ futures' \in Seq(States) /\ Len(futures') = 1
         /\ results' \in Seq(Chunk)
         /\ \/ /\ pc' = "returned" /\ raised' = 0
               /\ futures'[1] = "ok" /\ Len(results') = 1
            \/ /\ pc' = "raised" /\ raised' = 1
               /\ futures'[1] = "error" /\ Len(results') = 0
         /\ threads <= 1
         /\ start' = start /\ stop' = stop /\ threads' = threads /\ cursor' = cursor
  <1>1. <<start, stop>> \in Chunk
    BY DEF TypeOK, Chunk
  <1>2. /\ <<<<start, stop>>>> \in Seq(Chunk) /\ Len(<<<<start, stop>>>>) = 1
        /\ <<>> \in Seq(Chunk)
    BY <1>1
  <1>3. /\ <<"ok">> \in Seq(States) /\ Len(<<"ok">>) = 1
        /\ <<"error">> \in Seq(States) /\ Len(<<"error">>) = 1
    BY DEF States
  <1>4. CASE futures' = <<"ok">> /\ results' = chunks' /\ pc' = "returned" /\ raised' = 0
    BY <1>2, <1>3, <1>4 DEF Direct
  <1>5. CASE futures' = <<"error">> /\ results' = <<>> /\ pc' = "raised" /\ raised' = 1
    BY <1>2, <1>3, <1>5 DEF Direct
  <1>. QED
    BY <1>4, <1>5 DEF Direct

\* Type correctness.
THEOREM TypeCorrect == Spec => []TypeOK
  <1>1. Init => TypeOK
    BY ParallelForAssumption DEF Init, TypeOK, States, Chunk
  <1>2. TypeOK /\ [Next]_vars => TypeOK'
    <2> SUFFICES ASSUME TypeOK, [Next]_vars PROVE TypeOK'
      OBVIOUS
    <2> USE DEF TypeOK
    <2>1. CASE Direct
      BY <2>1, DirectStep
    <2>2. CASE Call \/ CollectedAll \/ Leave
      BY <2>2 DEF Call, CollectedAll, Leave
    <2>3. CASE Cut
      <3>1. threads > 0 => Base \in Int /\ Extra \in Int
        BY DEF Base, Extra, Total
      <3>2. threads > 0
        BY <2>3 DEF Cut
      <3>3. Width(Len(chunks)) \in Int
        BY <3>1, <3>2 DEF Width
      <3>. QED
        BY <2>3, <3>3 DEF Cut, Chunk
    <2>4. CASE Submit
      <3>1. "queued" \in States
        BY DEF States
      <3>. QED
        BY <2>4, <3>1 DEF Submit
    <2>5. CASE Collect
      <3>1. Len(results) + 1 \in 1 .. Len(chunks)
        BY <2>5 DEF Collect
      <3>2. chunks[Len(results) + 1] \in Chunk
        BY <3>1
      <3>3. CASE results' = Append(results, chunks[Len(results) + 1]) /\ UNCHANGED <<pc, raised>>
        BY <2>5, <3>2, <3>3 DEF Collect
      <3>4. CASE raised' = Len(results) + 1 /\ pc' = "leave" /\ UNCHANGED results
        BY <2>5, <3>4 DEF Collect
      <3>. QED
        BY <2>5, <3>3, <3>4 DEF Collect
    <2>6. ASSUME NEW i \in DOMAIN futures, StartBody(i) \/ EndBody(i) PROVE TypeOK'
      BY <2>6, PoolStep
    <2>7. CASE UNCHANGED vars
      BY <2>7 DEF vars
    <2>. QED
      BY <2>1, <2>2, <2>3, <2>4, <2>5, <2>6, <2>7 DEF Next, Caller, Pool
  <1>. QED
    BY <1>1, <1>2, PTL DEF Spec

-----------------------------------------------------------------------------
(* The chunks.  After n of them the cursor has moved by n times the base and  *)
(* by one more for each of the first "Extra" ones.                            *)

Least(m, n) == IF m <= n THEN m ELSE n

CutInv ==
  threads > 1 =>
    /\ Len(chunks) <= threads
    /\ cursor = start + Len(chunks) * Base + Least(Len(chunks), Extra)
    /\ Tiles(chunks, start, cursor)

\* Division with remainder.
LEMMA Division ==
  ASSUME TypeOK, threads > 1
  PROVE  /\ Total \in Nat /\ Base \in Nat /\ Extra \in 0 .. threads - 1
         /\ Total = threads * Base + Extra
  <1>1. Total \in Nat
    BY DEF TypeOK, Total
  <1>2. threads \in Int /\ threads > 0
    BY DEF TypeOK
  <1>3. ASSUME NEW t \in Nat, NEW d \in Int, d > 0
        PROVE  /\ t \div d \in Nat /\ t % d \in 0 .. d - 1
               /\ t = d * (t \div d) + (t % d)
    BY <1>3
  <1>. QED
    BY <1>1, <1>2, <1>3 DEF Base, Extra

LEMMA InitCut == Init => CutInv
  <1> SUFFICES ASSUME Init, threads > 1 PROVE CutInv
    BY DEF CutInv
  <1>1. TypeOK
    BY ParallelForAssumption DEF Init, TypeOK, States, Chunk
  <1>2. Base \in Nat /\ Extra \in Nat
    BY <1>1, Division
  <1>. QED
    BY <1>1, <1>2 DEF Init, CutInv, Tiles, Least, TypeOK

LEMMA CutStep == TypeOK /\ CutInv /\ Cut => CutInv'
  <1> SUFFICES ASSUME TypeOK, CutInv, Cut, threads > 1 PROVE CutInv'
    BY DEF CutInv, Cut
  <1> DEFINE n == Len(chunks)
             next == cursor + Width(n)
  <1>0. /\ n \in Nat /\ n < threads
        /\ chunks' = Append(chunks, <<cursor, next>>) /\ cursor' = next
        /\ threads' = threads /\ start' = start /\ Base' = Base /\ Extra' = Extra
    BY DEF TypeOK, Cut, Base, Extra, Total
  <1>1. cursor = start + n * Base + Least(n, Extra) /\ Tiles(chunks, start, cursor)
    BY DEF CutInv
  <1>2. Base \in Nat /\ Extra \in Nat /\ threads \in Int /\ cursor \in Int /\ start \in Int
    BY Division DEF TypeOK
  <1>3. Width(n) = Base + Least(n + 1, Extra) - Least(n, Extra) /\ Width(n) \in Nat
    <2>1. CASE n < Extra
      <3>1. Width(n) = Base + 1
        BY <2>1 DEF Width
      <3>2. Least(n, Extra) = n /\ Least(n + 1, Extra) = n + 1
        BY <1>0, <1>2, <2>1 DEF Least
      <3>. QED
        BY <1>0, <1>2, <3>1, <3>2
    <2>2. CASE ~(n < Extra)
      BY <1>0, <1>2, <2>2 DEF Width, Least
    <2>. QED
      BY <2>1, <2>2
  <1>4. Len(chunks') = n + 1
    BY <1>0 DEF TypeOK
  <1>6. cursor' = start' + Len(chunks') * Base' + Least(Len(chunks'), Extra')
    <2> DEFINE p == n * Base
               q == (n + 1) * Base
               m == Least(n, Extra)
               m1 == Least(n + 1, Extra)
               w == Width(n)
    <2>1. q = p + Base /\ p \in Int
      BY <1>0, <1>2
    <2>2. m \in Int /\ m1 \in Int
      BY <1>0, <1>2 DEF Least
    <2>3. cursor = start + p + m /\ w = Base + m1 - m /\ cursor' = cursor + w /\ w \in Int
      BY <1>0, <1>1, <1>3
    <2>4. cursor' = start + q + m1
      <3> HIDE DEF p, q, m, m1, w
      <3>. QED
        BY <1>2, <2>1, <2>2, <2>3
    <2>. QED
      BY <1>0, <1>4, <2>4
  <1>7. Tiles(chunks', start', cursor')
    <2>1. /\ chunks'[n + 1] = <<cursor, next>>
          /\ \A i \in 1 .. n : chunks'[i] = chunks[i]
      BY <1>0, <1>1 DEF TypeOK
    <2>2. chunks'[n + 1][1] = cursor /\ chunks'[n + 1][2] = next /\ cursor <= next
      BY <1>2, <1>3, <2>1
    <2>3. chunks'[1][1] = start
      BY <1>0, <1>1, <2>1, <2>2 DEF Tiles, TypeOK
    <2>4. \A i \in 1 .. n + 1 : chunks'[i][1] <= chunks'[i][2]
      BY <1>0, <1>1, <2>1, <2>2 DEF Tiles
    <2>5. ASSUME NEW i \in 1 .. n PROVE chunks'[i][2] = chunks'[i + 1][1]
      <3>1. CASE i = n
        <4>1. chunks # <<>> /\ chunks'[n] = chunks[n]
          BY <1>0, <1>1, <2>1, <3>1 DEF TypeOK
        <4>2. chunks[n][2] = cursor
          BY <1>0, <1>1, <4>1 DEF Tiles
        <4>. QED
          BY <2>2, <3>1, <4>1, <4>2
      <3>2. CASE i \in 1 .. n - 1
        BY <1>0, <1>1, <2>1, <3>2 DEF Tiles
      <3>. QED
        BY <1>0, <1>1, <3>1, <3>2
    <2>. QED
      BY <1>0, <1>1, <1>4, <2>1, <2>2, <2>3, <2>4, <2>5 DEF Tiles
  <1>. QED
    BY <1>0, <1>1, <1>2, <1>4, <1>6, <1>7 DEF CutInv

LEMMA CutHolds == Spec => []CutInv
  <1>1. TypeOK /\ CutInv /\ [Next]_vars => CutInv'
    <2> SUFFICES ASSUME TypeOK, CutInv, [Next]_vars PROVE CutInv'
      OBVIOUS
    <2>1. CASE Cut
      BY <2>1, CutStep
    <2>2. CASE Direct
      BY <2>2 DEF Direct, CutInv, TypeOK
    <2>3. CASE UNCHANGED <<start, stop, threads, cursor, chunks>>
      BY <2>3 DEF CutInv, Base, Extra, Total
    <2>. QED
      BY <2>1, <2>2, <2>3 DEF Next, Caller, Pool, Call, Submit, Collect, CollectedAll, Leave,
                              StartBody, EndBody, vars
  <1>. QED
    BY <1>1, InitCut, TypeCorrect, PTL DEF Spec

\* The chunks cover the range from its start without gap or overlap, and all of
\* it when there is one for each thread.
THEOREM ChunksTileTheRange == Spec => []ChunksTile
  <1>1. TypeOK /\ CutInv => ChunksTile
    <2> SUFFICES ASSUME TypeOK, CutInv, threads > 1 PROVE ChunksTile
      BY DEF ChunksTile
    <2> DEFINE n == Len(chunks)
    <2>1. /\ n \in 0 .. threads /\ Tiles(chunks, start, cursor)
          /\ cursor = start + n * Base + Least(n, Extra)
      BY DEF CutInv, TypeOK
    <2>2. /\ Base \in Nat /\ Extra \in 0 .. threads - 1 /\ threads \in Int /\ start \in Int
          /\ Total = threads * Base + Extra
      BY Division DEF TypeOK
    <2>3. n * Base <= threads * Base
      BY <2>1, <2>2
    <2>4. Least(n, Extra) <= Extra /\ Least(threads, Extra) = Extra
      BY <2>1, <2>2 DEF Least
    <2>5. n * Base \in Int /\ threads * Base \in Int /\ Least(n, Extra) \in Int
      BY <2>1, <2>2 DEF Least
    <2>6. cursor <= start + Total
      BY <2>1, <2>2, <2>3, <2>4, <2>5
    <2>7. n = threads => cursor = start + Total
      BY <2>1, <2>2, <2>4, <2>5
    <2>. QED
      BY <2>1, <2>6, <2>7 DEF ChunksTile
  <1>. QED
    BY <1>1, CutHolds, TypeCorrect, PTL

-----------------------------------------------------------------------------
\* When parallel_for gives control back, every body has ended.
THEOREM BodiesEndFirst == Spec => []NoBodyOutlivesCall
  <1>1. Init => NoBodyOutlivesCall
    BY DEF Init, NoBodyOutlivesCall, Over
  <1>2. TypeOK /\ NoBodyOutlivesCall /\ [Next]_vars => NoBodyOutlivesCall'
    <2> SUFFICES ASSUME TypeOK, NoBodyOutlivesCall, [Next]_vars PROVE NoBodyOutlivesCall'
      OBVIOUS
    <2> USE DEF NoBodyOutlivesCall, Over, Ended
    <2>1. CASE Direct
      <3>1. Len(futures') = 1 /\ futures'[1] \in {"ok", "error"}
        BY <2>1, DirectStep
      <3>. QED
        BY <3>1
    <2>2. CASE Leave
      BY <2>2 DEF Leave, TypeOK
    <2>3. CASE Call \/ Cut \/ Submit \/ Collect \/ CollectedAll
      BY <2>3 DEF Call, Cut, Submit, Collect, CollectedAll
    <2>4. ASSUME NEW i \in DOMAIN futures, StartBody(i) \/ EndBody(i)
          PROVE  NoBodyOutlivesCall'
      <3>1. i \in 1 .. Len(futures)
        BY DEF TypeOK
      <3>2. futures[i] \in {"queued", "running"} /\ pc' = pc
        BY <2>4, PoolStep
      <3>3. ~Over
        BY <3>1, <3>2
      <3>. QED
        BY <3>2, <3>3
    <2>5. CASE UNCHANGED vars
      BY <2>5 DEF vars
    <2>. QED
      BY <2>1, <2>2, <2>3, <2>4, <2>5 DEF Next, Caller, Pool
  <1>. QED
    BY <1>1, <1>2, TypeCorrect, PTL DEF Spec

\* What the caller has collected so far ended well; it stops at the first that
\* did not.
CollectInv ==
  /\ Len(results) <= Len(futures)
  /\ \A i \in 1 .. Len(results) : futures[i] = "ok"
  /\ raised # 0 => /\ raised = Len(results) + 1 /\ raised \in 1 .. Len(futures)
                   /\ futures[raised] = "error"
  /\ pc = "raised" => raised # 0

LEMMA CollectHolds == Spec => []CollectInv
  <1>1. Init => CollectInv
    BY DEF Init, CollectInv
  <1>2. TypeOK /\ CollectInv /\ [Next]_vars => CollectInv'
    <2> SUFFICES ASSUME TypeOK, CollectInv, [Next]_vars PROVE CollectInv'
      OBVIOUS
    <2> USE DEF CollectInv, TypeOK
    <2>1. CASE Direct
      BY <2>1, DirectStep
    <2>2. CASE Call \/ Cut \/ CollectedAll \/ Leave
      BY <2>2 DEF Call, Cut, CollectedAll, Leave
    <2>3. CASE Submit
      BY <2>3 DEF Submit
    <2>4. CASE Collect
      BY <2>4 DEF Collect
    <2>5. ASSUME NEW i \in DOMAIN futures, StartBody(i) \/ EndBody(i) PROVE CollectInv'
      BY <2>5, PoolStep
    <2>6. CASE UNCHANGED vars
      BY <2>6 DEF vars
    <2>. QED
      BY <2>1, <2>2, <2>3, <2>4, <2>5, <2>6 DEF Next, Caller, Pool
  <1>. QED
    BY <1>1, <1>2, TypeCorrect, PTL DEF Spec

\* The exception that reaches the caller is that of the earliest failed chunk.
THEOREM EarliestError == Spec => []EarliestErrorRaised
  <1>1. TypeOK /\ CollectInv => EarliestErrorRaised
    BY DEF TypeOK, CollectInv, EarliestErrorRaised
  <1>. QED
    BY <1>1, CollectHolds, TypeCorrect, PTL

-----------------------------------------------------------------------------
(* The indices.  Chunks follow each other up to the cursor, each as wide as    *)
(* the base or wider by one, and every index before the cursor is in one.     *)

SpreadOver(s, end) ==
  /\ \A i \in 1 .. Len(s) : s[i][2] <= end /\ s[i][2] - s[i][1] \in {Base, Base + 1}
  /\ \A i, j \in 1 .. Len(s) : i < j => s[i][2] <= s[j][1]
  /\ \A x \in start .. end - 1 : \E i \in 1 .. Len(s) : s[i][1] <= x /\ x < s[i][2]

\* With threads the caller cuts before it leaves; without, it does neither.
SpreadInv ==
  /\ threads > 1 => SpreadOver(chunks, cursor)
  /\ threads <= 1 => \/ pc = "call" /\ chunks = <<>>
                     \/ Over /\ chunks = <<<<start, stop>>>> /\ Len(futures) = 1

LEMMA SpreadCut ==
  ASSUME TypeOK, SpreadInv, threads > 1, Cut
  PROVE  SpreadOver(chunks, cursor)'
  <1> DEFINE n == Len(chunks)
             next == cursor + Width(n)
  <1>1. /\ n \in Nat /\ chunks' = Append(chunks, <<cursor, next>>) /\ cursor' = next
        /\ start' = start /\ Base' = Base
    BY DEF TypeOK, Cut, Base, Total
  <1>2. /\ Base \in Nat /\ Width(n) \in {Base, Base + 1}
        /\ cursor \in Int /\ start \in Int /\ next \in Int /\ cursor <= next
    <2>1. Base \in Nat /\ cursor \in Int /\ start \in Int
      BY Division DEF TypeOK
    <2>2. Width(n) \in {Base, Base + 1}
      BY DEF Width
    <2>. QED
      BY <2>1, <2>2
  <1>3. /\ Len(chunks') = n + 1 /\ chunks'[n + 1] = <<cursor, next>>
        /\ \A i \in 1 .. n : chunks'[i] = chunks[i] /\ chunks[i] \in Chunk
    BY <1>1 DEF TypeOK
  <1>4. SpreadOver(chunks, cursor)
    BY DEF SpreadInv
  <1>5. next - cursor \in {Base, Base + 1}
    BY <1>2
  <1>6. ASSUME NEW i \in 1 .. n + 1
        PROVE  chunks'[i][2] <= next /\ chunks'[i][2] - chunks'[i][1] \in {Base, Base + 1}
    <2>1. CASE i = n + 1
      BY <1>2, <1>3, <1>5, <2>1
    <2>2. CASE i \in 1 .. n
      <3>1. chunks[i][1] \in Int /\ chunks[i][2] \in Int
        BY <1>3, <2>2 DEF Chunk
      <3>2. chunks[i][2] <= cursor /\ chunks[i][2] - chunks[i][1] \in {Base, Base + 1}
        BY <1>4, <2>2 DEF SpreadOver
      <3>3. chunks'[i] = chunks[i]
        BY <1>3, <2>2
      <3>4. chunks[i][2] <= next
        BY <1>2, <3>1, <3>2
      <3>. QED
        BY <3>2, <3>3, <3>4
    <2>. QED
      BY <1>1, <2>1, <2>2
  <1>7. ASSUME NEW i \in 1 .. n + 1, NEW j \in 1 .. n + 1, i < j
        PROVE  chunks'[i][2] <= chunks'[j][1]
    <2>1. i \in 1 .. n
      BY <1>1, <1>7
    <2>2. CASE j = n + 1
      BY <1>3, <1>4, <2>1, <2>2 DEF SpreadOver
    <2>3. CASE j \in 1 .. n
      BY <1>3, <1>4, <1>7, <2>1, <2>3 DEF SpreadOver
    <2>. QED
      BY <1>1, <2>2, <2>3
  <1>8. ASSUME NEW x \in start .. next - 1
        PROVE  \E i \in 1 .. n + 1 : chunks'[i][1] <= x /\ x < chunks'[i][2]
    <2>1. CASE x < cursor
      <3>1. PICK i \in 1 .. n : chunks[i][1] <= x /\ x < chunks[i][2]
        <4>1. x \in start .. cursor - 1
          BY <1>2, <2>1
        <4>. QED
          BY <1>4, <4>1 DEF SpreadOver
      <3>. QED
        BY <1>1, <1>3, <3>1
    <2>2. CASE x >= cursor
      <3>1. chunks'[n + 1][1] <= x /\ x < chunks'[n + 1][2] /\ n + 1 \in 1 .. n + 1
        BY <1>1, <1>2, <1>3, <2>2
      <3>. QED
        BY <3>1
    <2>. QED
      BY <1>2, <2>1, <2>2
  <1>. QED
    BY <1>1, <1>3, <1>6, <1>7, <1>8 DEF SpreadOver

LEMMA SpreadHolds == Spec => []SpreadInv
  <1>1. Init => SpreadInv
    <2> SUFFICES ASSUME Init PROVE SpreadInv
      OBVIOUS
    <2>1. start .. cursor - 1 = {} /\ Len(chunks) = 0
      BY ParallelForAssumption DEF Init
    <2>. QED
      BY <2>1 DEF Init, SpreadInv, SpreadOver
  <1>2. TypeOK /\ SpreadInv /\ [Next]_vars => SpreadInv'
    <2> SUFFICES ASSUME TypeOK, SpreadInv, [Next]_vars PROVE SpreadInv'
      OBVIOUS
    <2>1. CASE Direct
      <3>1. threads' <= 1 /\ ~(threads' > 1)
        BY <2>1 DEF Direct, TypeOK
      <3>2. Over' /\ chunks' = <<<<start', stop'>>>> /\ Len(futures') = 1
        BY <2>1, DirectStep DEF Direct, Over
      <3>. QED
        BY <3>1, <3>2 DEF SpreadInv
    <2>2. CASE Cut
      <3>1. threads > 1 /\ threads' = threads
        BY <2>2 DEF Cut, SpreadInv, Over, TypeOK
      <3>. QED
        BY <2>2, <3>1, SpreadCut DEF SpreadInv, TypeOK
    <2>3. CASE Call \/ Submit \/ Collect \/ CollectedAll \/ Leave
      <3>1. threads > 1 /\ UNCHANGED <<start, stop, threads, cursor, chunks>>
        BY <2>3 DEF Call, Submit, Collect, CollectedAll, Leave, SpreadInv, Over, TypeOK
      <3>. QED
        BY <3>1 DEF SpreadInv, SpreadOver, Base, Total, TypeOK
    <2>4. ASSUME NEW i \in DOMAIN futures, StartBody(i) \/ EndBody(i) PROVE SpreadInv'
      BY <2>4, PoolStep DEF SpreadInv, SpreadOver, Base, Total, Over
    <2>5. CASE UNCHANGED vars
      BY <2>5 DEF vars, SpreadInv, SpreadOver, Base, Total, Over
    <2>. QED
      BY <2>1, <2>2, <2>3, <2>4, <2>5 DEF Next, Caller, Pool
  <1>. QED
    BY <1>1, <1>2, TypeCorrect, PTL DEF Spec

\* No chunk is more than one index longer than another, whatever the remainder.
THEOREM ChunksEven == Spec => []ChunksAreEven
  <1>1. TypeOK /\ SpreadInv => ChunksAreEven
    <2> SUFFICES ASSUME TypeOK, SpreadInv, NEW i \in 1 .. Len(chunks), NEW j \in 1 .. Len(chunks)
                 PROVE  chunks[i][2] - chunks[i][1] <= chunks[j][2] - chunks[j][1] + 1
      BY DEF ChunksAreEven
    <2>1. chunks[i] \in Chunk /\ chunks[j] \in Chunk
      BY DEF TypeOK
    <2>2. CASE threads > 1
      <3>1. Base \in Nat
        BY <2>2, Division
      <3>. QED
        <4>1. /\ chunks[i][2] - chunks[i][1] \in {Base, Base + 1}
              /\ chunks[j][2] - chunks[j][1] \in {Base, Base + 1}
          BY <2>2 DEF SpreadInv, SpreadOver
        <4>2. chunks[i][2] - chunks[i][1] <= Base + 1 /\ Base <= chunks[j][2] - chunks[j][1]
          BY <3>1, <4>1
        <4>3. chunks[i][2] - chunks[i][1] \in Int /\ chunks[j][2] - chunks[j][1] \in Int
          BY <2>1 DEF Chunk
        <4>. QED
          BY <3>1, <4>2, <4>3
    <2>3. CASE threads <= 1
      <3>1. i = j
        BY <2>3 DEF SpreadInv
      <3>. QED
        BY <2>1, <3>1 DEF Chunk
    <2>. QED
      BY <2>2, <2>3 DEF TypeOK
  <1>. QED
    BY <1>1, SpreadHolds, TypeCorrect, PTL

-----------------------------------------------------------------------------
(* The results are those of a prefix of the chunks; all of them when the call  *)
(* returns, and every chunk is submitted when it ends.                        *)

ResultsInv ==
  /\ Len(results) <= Len(chunks)
  /\ \A i \in 1 .. Len(results) : results[i] = chunks[i]
  /\ threads > 1 /\ pc \in {"leave", "returned", "raised"} =>
       Len(futures) = threads /\ Len(chunks) = threads
  /\ threads > 1 /\ (pc = "returned" \/ (pc = "leave" /\ raised = 0)) => Len(results) = threads
  /\ threads <= 1 /\ pc = "returned" => Len(results) = 1 /\ futures[1] = "ok"

LEMMA ResultsHold == Spec => []ResultsInv
  <1>1. Init => ResultsInv
    BY DEF Init, ResultsInv
  <1>2. TypeOK /\ CutInv /\ CollectInv /\ SpreadInv /\ ResultsInv /\ [Next]_vars => ResultsInv'
    <2> SUFFICES ASSUME TypeOK, CutInv, CollectInv, SpreadInv, ResultsInv, [Next]_vars
                 PROVE  ResultsInv'
      OBVIOUS
    <2>1. CASE Direct
      <3>1. CASE pc' = "returned"
        <4>1. results' = chunks' /\ Len(results') = 1 /\ futures'[1] = "ok" /\ ~(threads' > 1)
          BY <2>1, <3>1, DirectStep DEF Direct, TypeOK
        <4>. QED
          BY <4>1 DEF ResultsInv
      <3>2. CASE pc' = "raised"
        <4>1. Len(results') = 0 /\ Len(chunks') = 1 /\ ~(threads' > 1)
          BY <2>1, <3>2, DirectStep DEF TypeOK
        <4>. QED
          BY <3>2, <4>1 DEF ResultsInv
      <3>. QED
        BY <2>1, <3>1, <3>2, DirectStep
    <2>2. CASE Cut
      BY <2>2 DEF Cut, ResultsInv, TypeOK
    <2>3. CASE Call \/ Submit
      BY <2>3 DEF Call, Submit, ResultsInv, TypeOK
    <2>4. CASE Collect
      <3> DEFINE k == Len(results) + 1
      <3>1. /\ k \in 1 .. Len(chunks) /\ pc = "cut" /\ threads > 1
            /\ Len(futures) = threads /\ Len(chunks) = threads
            /\ UNCHANGED <<start, stop, threads, cursor, chunks, futures>>
        BY <2>4 DEF Collect, CutInv, SpreadInv, Over, TypeOK
      <3>2. CASE results' = Append(results, chunks[k]) /\ pc' = pc /\ raised' = raised
        <4>1. /\ Len(results') = k /\ results'[k] = chunks[k]
              /\ \A i \in 1 .. Len(results) : results'[i] = results[i]
          BY <3>1, <3>2 DEF TypeOK
        <4>2. \A i \in 1 .. k : i = k \/ i \in 1 .. Len(results)
          BY DEF TypeOK
        <4>3. \A i \in 1 .. k : results'[i] = chunks'[i]
          BY <3>1, <4>1, <4>2 DEF ResultsInv
        <4>. QED
          BY <3>1, <3>2, <4>1, <4>3 DEF ResultsInv
      <3>3. CASE raised' = k /\ pc' = "leave" /\ results' = results
        BY <3>1, <3>3 DEF ResultsInv, TypeOK
      <3>. QED
        BY <2>4, <3>2, <3>3 DEF Collect
    <2>5. CASE CollectedAll
      BY <2>5 DEF CollectedAll, ResultsInv, CollectInv, CutInv, TypeOK
    <2>6. CASE Leave
      <3>1. threads > 1
        BY <2>6 DEF Leave, SpreadInv, Over, TypeOK
      <3>. QED
        BY <2>6, <3>1 DEF Leave, ResultsInv, TypeOK
    <2>7. ASSUME NEW i \in DOMAIN futures, StartBody(i) \/ EndBody(i) PROVE ResultsInv'
      <3>1. i \in 1 .. Len(futures) /\ futures[i] # "ok"
        BY <2>7, PoolStep DEF TypeOK
      <3>2. threads <= 1 /\ pc = "returned" => i = 1
        BY <3>1 DEF SpreadInv
      <3>. QED
        BY <2>7, <3>1, <3>2, PoolStep DEF ResultsInv
    <2>8. CASE UNCHANGED vars
      BY <2>8 DEF vars, ResultsInv
    <2>. QED
      BY <2>1, <2>2, <2>3, <2>4, <2>5, <2>6, <2>7, <2>8 DEF Next, Caller, Pool
  <1>. QED
    BY <1>1, <1>2, TypeCorrect, CutHolds, CollectHolds, SpreadHolds, PTL DEF Spec

\* A call that returns has the results of all chunks, in the order of the range.
THEOREM ResultsOrdered == Spec => []ResultsInOrder
  <1>1. TypeOK /\ CollectInv /\ ChunksTile /\ SpreadInv /\ ResultsInv => ResultsInOrder
    <2> SUFFICES ASSUME TypeOK, CollectInv, ChunksTile, SpreadInv, ResultsInv, pc = "returned",
                        threads > 1 \/ start <= stop
                 PROVE  /\ Tiles(results, start, start + Total)
                        /\ \A i \in DOMAIN futures : futures[i] = "ok"
      BY DEF ResultsInOrder
    <2>1. CASE threads > 1
      <3>1. /\ Len(results) = threads /\ Len(futures) = threads /\ Len(chunks) = threads
            /\ results = chunks
        BY <2>1 DEF ResultsInv, TypeOK
      <3>2. Tiles(chunks, start, start + Total)
        BY <2>1, <3>1 DEF ChunksTile
      <3>. QED
        BY <3>1, <3>2 DEF CollectInv, TypeOK
    <2>2. CASE threads <= 1
      <3>1. /\ Len(results) = 1 /\ results[1] = <<start, stop>>
            /\ Len(futures) = 1 /\ futures[1] = "ok"
        BY <2>2 DEF ResultsInv, SpreadInv, Over
      <3>2. start \in Int /\ stop \in Int /\ start <= stop /\ stop = start + Total
        BY <2>2 DEF TypeOK, Total
      <3>3. results # <<>> /\ results[Len(results)] = results[1]
        BY <3>1
      <3>4. Tiles(results, start, start + Total)
        BY <3>1, <3>2, <3>3 DEF Tiles
      <3>. QED
        BY <3>1, <3>4 DEF TypeOK
    <2>. QED
      BY <2>1, <2>2 DEF TypeOK
  <1>. QED
    BY <1>1, TypeCorrect, CollectHolds, ChunksTileTheRange, SpreadHolds, ResultsHold, PTL

\* No index is given to two bodies, and none is left out when the call is over,
\* by an exception or not.
THEOREM IndicesOnce == Spec => []EachIndexOnce
  <1>1. /\ TypeOK /\ CutInv /\ ChunksTile /\ SpreadInv /\ ResultsInv /\ NoBodyOutlivesCall
        => EachIndexOnce
    <2> SUFFICES ASSUME TypeOK, CutInv, ChunksTile, SpreadInv, ResultsInv, NoBodyOutlivesCall,
                        NEW x \in start .. stop - 1
                 PROVE  Cardinality(VisitsOf(x)) <= 1 /\ (Over => VisitsOf(x) # {})
      BY DEF EachIndexOnce
    <2>0. /\ start \in Int /\ stop \in Int /\ x \in Int /\ Total = stop - start
          /\ DOMAIN chunks = 1 .. Len(chunks) /\ DOMAIN futures = 1 .. Len(futures)
          /\ \A i \in 1 .. Len(chunks) : chunks[i] \in Chunk
      BY DEF TypeOK, Total
    <2>1. ASSUME NEW i \in VisitsOf(x), NEW j \in VisitsOf(x) PROVE i = j
      <3>1. /\ i \in 1 .. Len(chunks) /\ j \in 1 .. Len(chunks)
            /\ chunks[i][1] <= x /\ x < chunks[i][2] /\ chunks[j][1] <= x /\ x < chunks[j][2]
            /\ chunks[i] \in Chunk /\ chunks[j] \in Chunk
        BY <2>0 DEF VisitsOf
      <3>2. CASE threads > 1
        BY <2>0, <3>1, <3>2 DEF SpreadInv, SpreadOver, Chunk
      <3>3. CASE threads <= 1
        BY <3>1, <3>3 DEF SpreadInv
      <3>. QED
        BY <3>2, <3>3 DEF TypeOK
    <2>2. Cardinality(VisitsOf(x)) <= 1
      <3>1. CASE VisitsOf(x) = {}
        BY <3>1, FS_EmptySet
      <3>2. ASSUME NEW i \in VisitsOf(x) PROVE Cardinality(VisitsOf(x)) = 1
        <4>1. VisitsOf(x) = {i}
          BY <2>1, <3>2
        <4>. QED
          BY <4>1, FS_Singleton
      <3>. QED
        BY <3>1, <3>2
    <2>3. ASSUME Over PROVE VisitsOf(x) # {}
      <3>1. CASE threads > 1
        <4>1. /\ Len(futures) = threads /\ Len(chunks) = threads /\ cursor = stop
          BY <2>0, <2>3, <3>1 DEF ResultsInv, ChunksTile, Over
        <4>2. PICK i \in 1 .. Len(chunks) : chunks[i][1] <= x /\ x < chunks[i][2]
          BY <2>0, <3>1, <4>1 DEF SpreadInv, SpreadOver
        <4>3. Started(i)
          BY <2>0, <2>3, <4>1, <4>2 DEF NoBodyOutlivesCall, Ended, Started
        <4>. QED
          BY <2>0, <4>2, <4>3 DEF VisitsOf
      <3>2. CASE threads <= 1
        <4>1. chunks = <<<<start, stop>>>> /\ Len(futures) = 1
          BY <2>3, <3>2 DEF SpreadInv, Over
        <4>2. Started(1)
          BY <2>0, <2>3, <4>1 DEF NoBodyOutlivesCall, Ended, Started
        <4>3. 1 \in VisitsOf(x)
          BY <2>0, <4>1, <4>2 DEF VisitsOf
        <4>. QED
          BY <4>3
      <3>. QED
        BY <3>1, <3>2 DEF TypeOK
    <2>. QED
      BY <2>2, <2>3
  <1>. QED
    BY <1>1, TypeCorrect, CutHolds, ChunksTileTheRange, SpreadHolds, ResultsHold, BodiesEndFirst, PTL
=============================================================================
