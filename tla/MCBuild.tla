------------------------------- MODULE MCBuild -------------------------------
(***************************************************************************)
(* Two builds of one source, an edit and a clean, over sources that have    *)
(* every annotation, forward references, externs and what is refused.       *)
(***************************************************************************)
EXTENDS Build

Ann(form, qual, word, exact, elem, object) ==
  [form |-> form, qual |-> qual, word |-> word, exact |-> exact, elem |-> elem, object |-> object]
Plain(word) == Ann("plain", "", word, TRUE, "", TypeObject(ScalarOf(word)))
Array(elem) == Ann("plain", "", "NDArray", TRUE, elem, TypeObject(Ptr(elem)))
Missing == Ann("absent", "", "", TRUE, "", Unknown)
NoneText == Ann("quoted", "", "None", TRUE, "", Unknown)
Struct(word) == Ann("plain", "", word, TRUE, "", Unknown)

Objects == <<Unknown>> \o
  [i \in 1 .. 7 |-> TypeObject(<<"int", "float", "bool", "void", "ptr_int", "ptr_float", "ptr_bool">>[i])] \o
  <<Text(Ann("quoted", "", "float", TRUE, "", Unknown)), Text(NoneText)>>

\* Every annotation that the front end does not refuse, standing for anything.
Pick(seq, i, size) == seq[((i \div size) % Len(seq)) + 1]
Annotations == SelectSeq(
  <<Missing>> \o [i \in 1 .. 7200 |->
     Ann(Pick(<<"plain", "quoted">>, i, 1), Pick(<<"", "builtins", "np">>, i, 2),
         Pick(<<"int", "float", "bool", "void", "None", "NDArray", "ndarray", "Ptr", "List", "Point", "Small", "Other">>, i, 6),
         Pick(<<TRUE, FALSE>>, i, 72), Pick(<<"", "int", "float", "bool", "List">>, i, 144),
         Pick(Objects, i, 720))],
  LAMBDA ann : TypeName(ann) # Raises /\ (ann.form = "plain" \/ ann.object = Unknown))

Code(calls) == [s |-> "code", calls |-> calls, ends |-> TRUE]
Call(to, args) == [to |-> to, args |-> args, value |-> TRUE]
Function(name, params, ret, body) ==
  [k |-> "def", name |-> name, before |-> <<>>, params |-> params, after |-> <<>>, ret |-> ret,
   decorators |-> <<>>, body |-> body]
Extern(name, params, ret) ==
  [Function(name, params, ret, [s |-> "stub"]) EXCEPT !.decorators = <<[d |-> "extern", arg |-> "m"]>>]
Parallel(def) == [def EXCEPT !.decorators = <<[d |-> "native", arg |-> "true"]>>]
Field(id, word) == [s |-> "field", id |-> id, ann |-> Plain(word)]
Class(name, body) == [k |-> "class", name |-> name, marked |-> TRUE, body |-> body]

Point == Class("Point", <<[s |-> "pass"], Field("on", "bool"), Field("x", "float"), Field("in", "bool"),
                          Field("out", "bool"), Field("y", "int"), Field("up", "bool")>>)
Small == Class("Small", <<Field("a", "bool"), Field("b", "bool")>>)

\* One function with a parameter for each annotation, others with parameters
\* that are not ordinary, and with each way to return nothing.
Sweep(future) ==
  [future |-> future,
   defs |-> <<Function("f", Annotations, Plain("None"), [s |-> "stub"]), Point,
              [Function("g", <<Array("float")>>, Plain("void"), [s |-> "stub"]) EXCEPT !.before = <<Plain("int")>>],
              [Function("h", <<Array("float")>>, Plain("void"), [s |-> "stub"]) EXCEPT !.after = <<Plain("int")>>],
              Function("i", <<>>, NoneText, [s |-> "stub"]),
              Function("j", <<>>, Plain("void"), [s |-> "stub"])>>]

Module(defs) == [future |-> FALSE, defs |-> defs]

MCSource ==
  "sweep" :> Sweep(FALSE) @@
  "future" :> Sweep(TRUE) @@
  \* Functions before what they need.
  "forward" :> Module(<<
    Parallel(Function("f", <<Plain("float"), Struct("Point")>>, Plain("float"),
      Code({Call("sin", <<1>>), Call("g", <<2, 1>>)}))),
    Small,
    Function("g", <<Struct("Point"), Plain("float")>>, Plain("int"), Code({})),
    Point,
    Extern("sin", <<Plain("float")>>, Plain("float"))>>) @@
  \* Two classes of one name, which are refused.
  "twice" :> Module(<<Small, Function("f", <<>>, Plain("int"), Code({})), [Point EXCEPT !.name = "Small"]>>)

MCTexts == {"sweep", "future", "forward", "twice"}
AcceptedTexts == {t \in MCTexts : LowerModule(MCSource[t].defs).ok}
MCAccepted == AcceptedTexts

CONSTANTS b1, b2
MCBuilds == {b1, b2}
Symmetry == Permutations(MCBuilds)
MCSources == {"mod.py"}
MCStems == {"mod"}
MCStemOf == [s \in MCSources |-> "mod"]
MCDirs == {".aotc_build", "out"}
Command(emit, known, output) ==
  [source |-> "mod.py", known |-> known, emit |-> emit, dir |-> ".aotc_build", output |-> output]
MCCommands == {
  Command("so", TRUE, NoOutput),
  Command("so", TRUE, <<"out", "mod", "so">>),
  Command("asm", TRUE, NoOutput),
  Command("ll", TRUE, NoOutput),
  Command("so", FALSE, NoOutput)}
=============================================================================
