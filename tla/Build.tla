-------------------------------- MODULE Build --------------------------------
(***************************************************************************)
(* The pipeline and its front end together: a text is a source module, and  *)
(* what a build does with it is what Signatures says.                       *)
(***************************************************************************)
EXTENDS Pipeline, Signatures

CONSTANT Source   \* the module each text is

\* What the front end makes of each text.
Lowered == [t \in Texts |-> LowerModule(Source[t].defs)]

ASSUME BuildAssumption == Accepted = {t \in Texts : Lowered[t].ok}

\* Modules, classes and functions hold finitely many definitions, fields and
\* parameters.
ASSUME SourceAssumption ==
  \A t \in Texts :
    /\ Source[t].defs \in Seq(ToSet(Source[t].defs))
    /\ \A def \in ToSet(Source[t].defs) :
         /\ def.k = "class" => def.body \in Seq(ToSet(def.body))
         /\ def.k = "def" => def.params \in Seq(ToSet(def.params))

ReadTexts == {text[b] : b \in Builds} \ {NoText}
DefsOf(t) == ToSet(Source[t].defs)

-----------------------------------------------------------------------------
(* The properties are of the texts that builds have read. *)

\* The definitions of a module may come in any order: exchanging two changes
\* neither whether it compiles, nor a signature, nor a layout.  Structs are
\* collected before signatures and signatures before bodies (lower_module).
Exchanged(defs, i, j) == [defs EXCEPT ![i] = defs[j], ![j] = defs[i]]

OrderFree == [t \in Texts |->
  \A i, j \in 1 .. Len(Source[t].defs) :
    i < j => LowerModule(Exchanged(Source[t].defs, i, j)) = Lowered[t]]

OrderDoesNotMatter == \A t \in ReadTexts : OrderFree[t]

\* The layout of a struct is the one LLVM gives a type of its fields: each
\* field at the first aligned place after the one before, the whole padded to
\* its alignment (_compute_struct_layout).  A class with two fields of one
\* name is set aside: the layout keeps one offset, the printed type both.
LaidOut(fields, layout) ==
  LET align(i) == IF fields[i].typ = "bool" THEN 1 ELSE 8
      at(i) == layout.offsets[fields[i].id]
      end(i) == IF i = 0 THEN 0 ELSE at(i) + align(i)
      FirstPlace(p, from, a) == p >= from /\ \A q \in from .. p : q % a = 0 <=> q = p
  IN  /\ \A i \in 1 .. Len(fields) : FirstPlace(at(i), end(i - 1), align(i))
      /\ layout.alignment = Max({align(i) : i \in 1 .. Len(fields)})
      /\ FirstPlace(layout.size, end(Len(fields)), layout.alignment)

FieldsDiffer(class) == IsInjective([i \in 1 .. Len(FieldsOf(class)) |-> FieldsOf(class)[i].id])

LaidOutLikeLLVM == [t \in Texts |-> Lowered[t].ok =>
  \A class \in DefsOf(t) :
    IsStruct(class) /\ FieldsDiffer(class) => LaidOut(FieldsOf(class), Lowered[t].structs[class.name])]

LayoutsAreLLVMs == \A t \in ReadTexts : LaidOutLikeLLVM[t]

\* The run-time library binds a function with the types its code was compiled
\* for: as many parameters, and of each annotation it either finds the type the
\* front end has found or refuses the function (_annotation_to_arg_spec,
\* annotation_to_typename).  Set aside are the annotations the two are known to
\* read differently: a quoted one with the name of a module, and a buffer in
\* another case, which are ints to the front end; the name of a scalar that is
\* also that of a class, which stands for the class to the front end; and,
\* where annotations are evaluated, an alias, which stands for something else
\* than it spells.  Set aside, too, are functions with parameters of other kinds
\* than the ordinary one, which are bound and not compiled.
Spelled(ann) ==
  CASE IsScalar(ann) -> TypeObject(ScalarOf(ann.word))
    [] IsBuffer(ann) /\ ann.elem \in ElementNames -> TypeObject(Ptr(ann.elem))
    [] OTHER -> Unknown

ReadAlike(ann, future, classes) ==
  /\ ~(ann.form = "quoted" /\ ann.qual # "")
  /\ IsBuffer(ann) => ann.exact
  /\ IsScalar(ann) => ann.word \notin classes
  /\ ann.form = "plain" /\ ~future => ann.object \in {Spelled(ann), Unknown}

Ordinary(def) == IsFunction(def) /\ def.before = <<>> /\ def.after = <<>>

BoundAsCompiled == [t \in Texts |-> Lowered[t].ok =>
  \A def \in DefsOf(t) : Ordinary(def) =>
    LET sig == Lowered[t].sigs[def.name]
        future == Source[t].future
        binding == Binding(def, future)
        Agrees(ann, bound, compiled) ==
          ReadAlike(ann, future, DOMAIN Lowered[t].structs) /\ bound # Raises => bound = compiled
    IN  /\ Len(binding.args) = Len(sig.args)
        /\ \A i \in 1 .. Len(sig.args) : Agrees(def.params[i], binding.args[i], sig.args[i])
        /\ Agrees(def.ret, binding.ret, sig.ret)]

NativeTypesAgree == \A t \in ReadTexts : BoundAsCompiled[t]
=============================================================================
