---------------------------- MODULE MCControlFlow ----------------------------
(* The block graph of every function of at most MaxBlocks \div 3 ifs and loops. *)
EXTENDS ControlFlow
=============================================================================
