----------------------------- MODULE MCNativeCall -----------------------------
(***************************************************************************)
(* A module with f, which calls g, then g; and calls with a buffer that is  *)
(* accepted, alone or before one that is not.  For the wrapper of a name    *)
(* that is defined again, a module with two functions g.                    *)
(***************************************************************************)
EXTENDS NativeCall

MCDefs == <<"f1", "g1">>
MCDefsAgain == <<"f1", "g1", "g2">>
MCFnNames == {"f", "g"}
MCNameOf == [f \in Fns |-> IF f = "f1" THEN "f" ELSE "g"]
MCUses == [f \in Fns |-> IF f = "f1" THEN {"g"} ELSE {}]
MCKind == [a |-> "good", w |-> "wrongsize", s |-> "strided"]
MCArgs == {<<"a">>, <<"a", "w">>, <<"s">>}
=============================================================================
