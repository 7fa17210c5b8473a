----------------------------- MODULE ParallelFor -----------------------------
(***************************************************************************)
(* parallel_for: a range is cut into chunks, one per thread, the body is    *)
(* run on each of them by a pool of threads, and the caller collects what   *)
(* the bodies return.  The body is the user's: it takes a chunk, takes any  *)
(* time, and returns something of that chunk or raises.  The pool is the    *)
(* ThreadPoolExecutor of Python's library, as parallel_for uses it: futures *)
(* are started in the order they were submitted, leaving the with block     *)
(* waits for all of them and cancels none.                                  *)
(***************************************************************************)
EXTENDS Integers, Sequences, FiniteSets

CONSTANTS
  Starts, Stops,   \* the bounds of the ranges
  Threads          \* the values of the "threads" argument

ASSUME ParallelForAssumption ==
  Starts \subseteq Int /\ Stops \subseteq Int /\ Threads \subseteq Int

VARIABLES
  start, stop, threads,   \* the arguments
  pc,        \* where the caller is
  cursor,    \* _chunk_ranges: where the next chunk begins
  chunks,    \* the chunks cut so far: <<first, end>>, the end excluded
  futures,   \* the futures submitted so far, each "queued", "running", "ok" or "error"
  results,   \* the results collected so far: the chunk each one is of
  raised     \* the future whose exception the caller met, or 0

vars == <<start, stop, threads, pc, cursor, chunks, futures, results, raised>>

-----------------------------------------------------------------------------
(* _chunk_ranges *)

Total == IF stop > start THEN stop - start ELSE 0
Base == Total \div threads
Extra == Total % threads

\* Mutants: the remainder is lost; the last chunk takes all of it.
WidthRounded(i) == Base
WidthLast(i) == IF i = threads - 1 THEN Base + Extra ELSE Base

Width(i) == IF i < Extra THEN Base + 1 ELSE Base

\* Mutant: a chunk includes its end.
CutInclusive ==
  LET next == cursor + Width(Len(chunks))
  IN  /\ pc = "cut"
      /\ Len(chunks) < threads
      /\ chunks' = Append(chunks, <<cursor, next + 1>>)
      /\ cursor' = next
      /\ UNCHANGED <<start, stop, threads, pc, futures, results, raised>>

\* One turn of its loop; the number of chunks so far is the loop's counter.
Cut ==
  LET next == cursor + Width(Len(chunks))
  IN  /\ pc = "cut"
      /\ Len(chunks) < threads
      /\ chunks' = Append(chunks, <<cursor, next>>)
      /\ cursor' = next
      /\ UNCHANGED <<start, stop, threads, pc, futures, results, raised>>

-----------------------------------------------------------------------------
(* The caller. *)

\* One thread or less: the caller runs the body itself on the range as it is.
Direct ==
  /\ pc = "call" /\ threads <= 1
  /\ chunks' = <<<<start, stop>>>>
  /\ \/ /\ futures' = <<"ok">> /\ results' = <<<<start, stop>>>>
        /\ pc' = "returned" /\ raised' = 0
     \/ /\ futures' = <<"error">> /\ results' = <<>>
        /\ pc' = "raised" /\ raised' = 1
  /\ UNCHANGED <<start, stop, threads, cursor>>

Call ==
  /\ pc = "call" /\ threads > 1
  /\ pc' = "cut"
  /\ UNCHANGED <<start, stop, threads, cursor, chunks, futures, results, raised>>

\* Mutant: one future too many.
SubmitOneMore ==
  /\ pc = "cut" /\ Len(chunks) = threads
  /\ Len(futures) <= Len(chunks)
  /\ futures' = Append(futures, "queued")
  /\ UNCHANGED <<start, stop, threads, pc, cursor, chunks, results, raised>>

\* Empty chunks are submitted like the others.
Submit ==
  /\ pc = "cut" /\ Len(chunks) = threads
  /\ Len(futures) < Len(chunks)
  /\ futures' = Append(futures, "queued")
  /\ UNCHANGED <<start, stop, threads, pc, cursor, chunks, results, raised>>

\* Mutant: futures are collected as they complete.
CollectAsCompleted ==
  /\ pc = "cut" /\ Len(futures) = threads
  /\ \E k \in 1 .. threads :
       \/ /\ futures[k] = "ok"
          /\ \A i \in DOMAIN results : results[i] # chunks[k]
          /\ results' = Append(results, chunks[k])
          /\ UNCHANGED <<pc, raised>>
       \/ /\ futures[k] = "error"
          /\ raised' = k
          /\ pc' = "leave"
          /\ UNCHANGED results
  /\ UNCHANGED <<start, stop, threads, cursor, chunks, futures>>

\* future.result() of the next future, once all are submitted
Collect ==
  LET k == Len(results) + 1
  IN  /\ pc = "cut" /\ Len(futures) = threads
      /\ k <= threads
      /\ \/ /\ futures[k] = "ok"
            /\ results' = Append(results, chunks[k])
            /\ UNCHANGED <<pc, raised>>
         \/ /\ futures[k] = "error"
            /\ raised' = k
            /\ pc' = "leave"
            /\ UNCHANGED results
      /\ UNCHANGED <<start, stop, threads, cursor, chunks, futures>>

CollectedAll ==
  /\ pc = "cut" /\ Len(results) = threads
  /\ pc' = "leave"
  /\ UNCHANGED <<start, stop, threads, cursor, chunks, futures, results, raised>>

Ended(i) == futures[i] \in {"ok", "error"}

\* Mutants: the pool is not waited for; it is waited for until every body succeeds.
LeaveAtOnce ==
  /\ pc = "leave"
  /\ pc' = IF raised = 0 THEN "returned" ELSE "raised"
  /\ UNCHANGED <<start, stop, threads, cursor, chunks, futures, results, raised>>
LeaveOnSuccess ==
  LeaveAtOnce /\ \A i \in DOMAIN futures : futures[i] = "ok"

\* The end of the with block
Leave ==
  /\ pc = "leave"
  /\ \A i \in DOMAIN futures : Ended(i)
  /\ pc' = IF raised = 0 THEN "returned" ELSE "raised"
  /\ UNCHANGED <<start, stop, threads, cursor, chunks, futures, results, raised>>

-----------------------------------------------------------------------------
(* The pool: max_workers = threads. *)

Running == {i \in DOMAIN futures : futures[i] = "running"}

StartBody(i) ==
  /\ futures[i] = "queued"
  /\ \A j \in 1 .. i - 1 : futures[j] # "queued"
  /\ Cardinality(Running) < threads
  /\ futures' = [futures EXCEPT ![i] = "running"]
  /\ UNCHANGED <<start, stop, threads, pc, cursor, chunks, results, raised>>

EndBody(i) ==
  /\ futures[i] = "running"
  /\ \E r \in {"ok", "error"} : futures' = [futures EXCEPT ![i] = r]
  /\ UNCHANGED <<start, stop, threads, pc, cursor, chunks, results, raised>>

Pool == \E i \in DOMAIN futures : StartBody(i) \/ EndBody(i)
Caller == Direct \/ Call \/ Cut \/ Submit \/ Collect \/ CollectedAll \/ Leave

-----------------------------------------------------------------------------
Init ==
  /\ start \in Starts /\ stop \in Stops /\ threads \in Threads
  /\ pc = "call"
  /\ cursor = start
  /\ chunks = <<>> /\ futures = <<>> /\ results = <<>>
  /\ raised = 0

Next == Caller \/ Pool

\* The caller and the pool's threads are threads of the operating system, and the
\* bodies end.
Spec == Init /\ [][Next]_vars /\ WF_vars(Caller) /\ WF_vars(Pool)

-----------------------------------------------------------------------------
States == {"queued", "running", "ok", "error"}
Chunk == Int \X Int

TypeOK ==
  /\ start \in Int /\ stop \in Int /\ threads \in Int
  /\ pc \in {"call", "cut", "leave", "returned", "raised"}
  /\ cursor \in Int
  /\ chunks \in Seq(Chunk)
  /\ futures \in Seq(States)
  /\ results \in Seq(Chunk)
  /\ Len(futures) <= Len(chunks)
  /\ raised \in Nat

Over == pc \in {"returned", "raised"}

\* s covers the integers from lo to hi - 1, in order and without overlap.
Tiles(s, lo, hi) ==
  /\ s # <<>> => s[1][1] = lo /\ s[Len(s)][2] = hi
  /\ s = <<>> => lo = hi
  /\ \A i \in 1 .. Len(s) : s[i][1] <= s[i][2]
  /\ \A i \in 1 .. Len(s) - 1 : s[i][2] = s[i + 1][1]

\* The chunks cut so far cover the range up to the cursor, never overshoot it,
\* and end at its end when there is one for each thread, whatever the remainder
\* of the division.
ChunksTile ==
  threads > 1 =>
    /\ Tiles(chunks, start, cursor)
    /\ cursor <= start + Total
    /\ Len(chunks) = threads => cursor = start + Total

\* No chunk is more than one index longer than another.
ChunksAreEven ==
  \A i, j \in 1 .. Len(chunks) :
    chunks[i][2] - chunks[i][1] <= chunks[j][2] - chunks[j][1] + 1

\* When parallel_for gives control back, by returning or by raising, no body
\* is running or will run: the buffers the bodies work on may be released.
NoBodyOutlivesCall == Over => \A i \in 1 .. Len(futures) : Ended(i)

Started(i) == i \in DOMAIN futures /\ futures[i] # "queued"
VisitsOf(x) == {i \in DOMAIN chunks : Started(i) /\ chunks[i][1] <= x /\ x < chunks[i][2]}

\* No index is ever given to two bodies; when the call is over, each was given
\* to one, even if a body of an earlier chunk raised.
EachIndexOnce ==
  \A x \in start .. stop - 1 :
    /\ Cardinality(VisitsOf(x)) <= 1
    /\ Over => VisitsOf(x) # {}

\* A call that returns has the results in the order of the range, whatever the
\* order in which the bodies ended.  (An empty range with its bounds swapped is
\* passed on as it is by a call without threads.)
ResultsInOrder ==
  pc = "returned" /\ (threads > 1 \/ start <= stop) =>
    Tiles(results, start, start + Total) /\ \A i \in DOMAIN futures : futures[i] = "ok"

\* A call that raises raises the exception of the earliest chunk that failed,
\* even if a later one failed first.
EarliestErrorRaised ==
  pc = "raised" => /\ futures[raised] = "error"
                   /\ \A i \in 1 .. raised - 1 : futures[i] = "ok"

\* The call always ends.
CallEnds == <>Over
=============================================================================
