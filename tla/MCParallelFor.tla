---------------------------- MODULE MCParallelFor ----------------------------
(* Ranges shorter than, as long as and longer than the number of threads. *)
EXTENDS ParallelFor

MCStarts == {-1, 0}
MCStops == -1 .. 5
MCThreads == 0 .. 4
=============================================================================
