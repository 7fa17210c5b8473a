------------------------------- MODULE Compiler -------------------------------
(***************************************************************************)
(* The compiler from source to optimised IR: FrontEndParser lowers a         *)
(* function (Lowering.tla), then PassManager.run_module runs the selected    *)
(* passes on it, one after the other, each rewriting the blocks in place.    *)
(* The function as lowered stays in "blocks"; "opt" is what the passes have  *)
(* made of it.                                                              *)
(***************************************************************************)
EXTENDS Lowering, ConstantFolding, SourceMeaning

CONSTANTS
  PassLists,  \* the selections of passes: sequences over "cf", "dce", "inline"
  Inputs      \* the arguments of a call: functions from parameters to numbers

ASSUME CompilerAssumption ==
  /\ PassLists \subseteq Seq({"cf", "dce", "inline"})
  /\ \A i \in Inputs : DOMAIN i = {Params[j].id : j \in DOMAIN Params}
  /\ Inputs # {} => \A j \in DOMAIN Params : Params[j].typ \in Scalars

VARIABLES
  phase,      \* "lower", "passes" or "end"
  todo,       \* PassManager._passes not run yet; the first one is running
  opt,        \* the blocks the passes work on
  given,      \* history: the blocks as the running pass found them
  changed,    \* DeadCodeEliminationPass.run: the last sweep dropped something
  exact       \* history: every literal that folding wrote stands for its number

passVars == <<phase, todo, opt, given, changed, exact>>
allVars == <<vars, passVars>>

Running(name) == phase = "passes" /\ todo # <<>> /\ Head(todo) = name

\* The front end runs to its end first.  Which passes were selected makes no
\* difference before that, so the choice is made here.
LowerNext == phase = "lower" /\ Next /\ UNCHANGED passVars

Select(ps) ==
  /\ phase = "lower" /\ Done
  /\ phase' = "passes"
  /\ todo' = ps
  /\ opt' = blocks
  /\ given' = blocks
  /\ changed' = TRUE
  /\ exact' = TRUE
  /\ UNCHANGED vars

NextPass(bs) ==
  /\ todo' = Tail(todo)
  /\ opt' = bs
  /\ given' = bs
  /\ changed' = TRUE

FoldingPass ==
  /\ Running("cf")
  /\ \E folded \in {FoldConstants(opt, order)} :
       NextPass(folded) /\ exact' = (exact /\ ExactLiterals(folded))
  /\ UNCHANGED <<vars, phase>>

\* InlinePass keeps the module as it is.
Inlining ==
  /\ Running("inline")
  /\ NextPass(opt)
  /\ UNCHANGED <<vars, phase, exact>>

-----------------------------------------------------------------------------
(* Dead code elimination, on nodes. *)

Droppable == Arith \cup Compares \cup {"const", "id", "phi", "alloca", "gep", "load", "cast"}
NamesOf(vs) == {v.name : v \in vs}

\* Mutants: the incoming values of phis are not looked at; nor are terminators.
ReadsButPhis(bs) ==
  UNION {NamesOf(Range(bs[l].term.uses)) : l \in DOMAIN bs}
    \cup UNION {UNION {NamesOf(Range(n.args)) : n \in Range(bs[l].nodes)} : l \in DOMAIN bs}
ReadsButTerminators(bs) ==
  UNION {UNION {NamesOf(Range(n.args) \cup Range(n.inc)) : n \in Range(bs[l].nodes)} :
           l \in DOMAIN bs}

\* _collect_referenced_values
ReadNames(bs) ==
  (UNION {NamesOf(Range(bs[l].term.uses)) : l \in DOMAIN bs})
    \cup UNION {UNION {NamesOf(Range(n.args) \cup Range(n.inc)) : n \in Range(bs[l].nodes)} :
                  l \in DOMAIN bs}

\* _can_drop, and a result that no one reads
Unread(n, names) ==
  n.op \in Droppable /\ n.res # {} /\ NamesOf(n.res) \cap names = {}

SweepBlocks(bs, names) ==
  [l \in DOMAIN bs |->
     [bs[l] EXCEPT !.nodes = Filter(@, {n \in Range(@) : ~Unread(n, names)})]]

SweepPass ==
  /\ Running("dce") /\ changed
  /\ \E swept \in {SweepBlocks(opt, ReadNames(opt))} :
       opt' = swept /\ changed' = (swept # opt)
  /\ UNCHANGED <<vars, phase, todo, given, exact>>

EndSweeps ==
  /\ Running("dce") /\ ~changed
  /\ NextPass(opt)
  /\ UNCHANGED <<vars, phase, exact>>

Emits ==
  /\ phase = "passes" /\ todo = <<>>
  /\ phase' = "end"
  /\ UNCHANGED <<vars, todo, opt, given, changed, exact>>

CompilerInit ==
  /\ Init
  /\ phase = "lower"
  /\ todo = <<>>
  /\ opt = <<>>
  /\ given = <<>>
  /\ changed = TRUE
  /\ exact = TRUE

CompilerNext ==
  \/ LowerNext
  \/ \E ps \in PassLists : Select(ps)
  \/ FoldingPass \/ Inlining \/ SweepPass \/ EndSweeps
  \/ Emits

CompilerSpec == CompilerInit /\ [][CompilerNext]_allVars

-----------------------------------------------------------------------------
(* Properties. *)

Accepted(bs) == Verifies(bs, Args, Sigs, RetType)
NodesOf(bs) == UNION {Range(bs[l].nodes) : l \in DOMAIN bs}

\* What the passes leave is a function that LLVM accepts whenever it accepts the
\* function as lowered: no definition is lost that a phi, a node or a terminator
\* still reads, none is moved or written twice, and no type changes.
PassesKeepIRValid == phase # "lower" /\ Accepted(blocks) => Accepted(opt)

\* Booleans are ordered as signed bits: True < False for LLVM, not for folding.
NoOrderOfBooleans(bs) ==
  \A n \in NodesOf(bs) : n.op \in {"lt", "le", "gt", "ge"} => n.args[1].typ # "bool"

CallWith(i) == [x \in {<<id, 0>> : id \in DOMAIN i} |-> i[x[1]]]

\* The optimised function returns what the function as lowered returns, for
\* every argument, unless folding met a number that the type of its name cannot
\* hold: more bits than an int has, a fraction in an int, a boolean sum of 2,
\* more digits than a float is printed with.
PassesKeepMeaning ==
  phase = "end" /\ exact /\ Accepted(blocks) /\ NoOrderOfBooleans(blocks) =>
    \A i \in Inputs : \E r \in {Run(blocks, CallWith(i))} :
      r.k = "ret" => Returns(Run(opt, CallWith(i)), r.val)

\* An augmented division of integers is an integer division, and the sum of
\* booleans is a boolean: Python has other results.
PythonArithmetic(bs) ==
  \A n \in NodesOf(bs) : n.op \in Arith => IF n.op = "/" THEN ResTypes(n) = {"float"}
                                            ELSE ResTypes(n) # {"bool"}

\* A function that LLVM accepts returns what Python returns, through branches,
\* loops, early returns, reassignments of parameters, conversions and arrays:
\* as long as integers fit, Python does not raise, and none of the documented
\* divergences (of SourceMeaning, or of the operators on booleans and of
\* augmented division) is met on the way.
CompiledMeansSource ==
  /\ phase = "lower" /\ Done /\ Accepted(blocks)
  /\ NoOrderOfBooleans(blocks) /\ PythonArithmetic(blocks)
  => \A i \in Inputs : \E m \in {Meaning(src, i)} :
       m.k = "ret" => Returns(Run(blocks, CallWith(i)), m.val)

-----------------------------------------------------------------------------
(* The sweeps over the nodes implement DeadCode.tla. *)

Positions(bs) == UNION {{<<l, n>> : n \in Range(bs[l].nodes)} : l \in DOMAIN bs}

AsFunction(bs) ==
  [node |-> [p \in Positions(bs) |-> [droppable |-> p[2].op \in Droppable,
                                      res |-> NamesOf(p[2].res),
                                      uses |-> NamesOf(Range(p[2].args) \cup Range(p[2].inc))]],
   ends |-> UNION {NamesOf(Range(bs[l].term.uses)) : l \in DOMAIN bs}]

DC == INSTANCE DeadCode WITH
        Nodes <- {}, Names <- {}, Functions <- {},
        fn <- AsFunction(given), kept <- Positions(opt)

\* Sweep after sweep, the blocks lose exactly the nodes that the sweep of
\* DeadCode.tla drops of the function the pass was given: names collected anew
\* from what remains are those of its set of nodes, and the fixpoint is its
\* largest one.
SweepsImplementDeadCode == [][Running("dce") /\ todo' = todo => DC!Sweep]_passVars
=============================================================================
