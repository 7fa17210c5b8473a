------------------------------ MODULE Signatures ------------------------------
(***************************************************************************)
(* What the front end makes of the definitions of a source module before    *)
(* and around the bodies of its functions: structs and their layout,        *)
(* signatures, externs, and the types that annotations stand for, which the *)
(* run-time library reads a second time when it binds a compiled function.  *)
(*                                                                          *)
(* A source is [future, defs]: whether it imports annotations from          *)
(* __future__, and its top-level definitions:                               *)
(*   [k |-> "class", name, marked, body], body of [s |-> "field", id, ann], *)
(*     [s |-> "pass"] and [s |-> "other"]; marked by dataclass or           *)
(*     native_struct                                                        *)
(*   [k |-> "def", name, before, params, after, ret, decorators, body]:     *)
(*     annotations of the positional-only parameters, the ordinary ones,    *)
(*     and the starred and keyword-only ones; body [s |-> "stub"], a lone   *)
(*     pass or ellipsis, [s |-> "empty"], or [s |-> "code", calls, ends];   *)
(*     ends says whether its last block returns, and a call is              *)
(*     [to, args, value], args of params, value whether its result is used. *)
(* A decorator is [d, arg]: arg is the library of an extern, "true",        *)
(* "false" or "other" for parallel=..., and "none" without arguments.       *)
(* An annotation is [form, qual, word, exact, elem, object]: absent, plain  *)
(* or quoted; qual.word[elem]; exact if the case of word is that of the     *)
(* names the compiler knows, elem "" without brackets.  The names ptr_int   *)
(* and such that the IR has for buffers are left out.  object is what the   *)
(* expression stands for in its module, whatever its names are bound to:    *)
(*   [is |-> "type", typ], int, float or bool, None or its type (void), or  *)
(*     the NDArray of the run-time library with an element (ptr_int, ...)   *)
(*   [is |-> "text", text], a string that reads like a quoted annotation    *)
(*   [is |-> "other"], anything else                                        *)
(***************************************************************************)
EXTENDS Collections, FiniteSetsExt

Raises == "raises"
ScalarNames == {"int", "float", "bool", "void", "None"}
ElementNames == {"int", "float", "bool"}
BufferNames == {"NDArray", "ndarray", "ArrayView", "Buffer", "Ptr", "Pointer"}

\* _SCALAR_BY_NAME, whatever the case of the name.
ScalarOf(word) == IF word = "None" THEN "void" ELSE word
Ptr(typ) == "ptr_" \o typ

IsScalar(ann) == ann.form # "absent" /\ ann.elem = "" /\ ann.word \in ScalarNames
IsBuffer(ann) == ann.form # "absent" /\ ann.elem # "" /\ ann.word \in BufferNames

-----------------------------------------------------------------------------
(* The front end's reading of an annotation. *)

\* Mutant: the base of a subscript is compared with its module.
TypeNameUndotted(ann) ==
  CASE IsScalar(ann) /\ (ann.form = "plain" \/ ann.qual = "") -> ScalarOf(ann.word)
    [] IsBuffer(ann) /\ ann.exact /\ ann.form = "plain" /\ ann.qual = "" ->
         IF ann.elem \in ScalarNames \ {"None"} THEN Ptr(ann.elem) ELSE Raises
    [] IsBuffer(ann) /\ ann.exact /\ ann.form = "quoted" /\ ann.qual = ""
         /\ ann.elem \in ScalarNames -> Ptr(ScalarOf(ann.elem))
    [] OTHER -> "int"

\* A quoted annotation is text: it must name a type without a module.  What
\* is not understood is an int, but a wrong element of a buffer raises.
TypeName(ann) ==
  CASE IsScalar(ann) /\ (ann.form = "plain" \/ ann.qual = "") -> ScalarOf(ann.word)
    [] IsBuffer(ann) /\ ann.exact /\ ann.form = "plain" ->
         IF ann.elem \in ScalarNames \ {"None"} THEN Ptr(ann.elem) ELSE Raises
    [] IsBuffer(ann) /\ ann.exact /\ ann.form = "quoted" /\ ann.qual = ""
         /\ ann.elem \in ScalarNames -> Ptr(ScalarOf(ann.elem))
    [] OTHER -> "int"

SignatureType(ann, structs) ==
  IF ann.form = "plain" /\ ann.qual = "" /\ ann.elem = "" /\ ann.exact /\ ann.word \in structs
  THEN Ptr("struct_" \o ann.word)
  ELSE TypeName(ann)

(* The run-time library's: of the value that Python gives an annotation. *)

TypeObject(typ) == [is |-> "type", typ |-> typ]
Text(ann) == [is |-> "text", text |-> ann]
Unknown == [is |-> "other"]

\* The text under the __future__ import, where that of a quoted annotation keeps
\* its quotes and says nothing; or else the text quoted, or the object.
Evaluated(ann, future) ==
  CASE ann.form = "plain" /\ future -> Text(ann)
    [] ann.form = "plain" /\ ~future -> ann.object
    [] ann.form = "quoted" /\ ~future -> Text(ann)
    [] OTHER -> Unknown

ScalarOfText(ann) ==
  IF ann.elem = "" /\ ann.qual \in {"", "builtins"} /\ ann.word \in ElementNames
  THEN ann.word ELSE Raises

BufferOfText(ann) ==
  IF IsBuffer(ann) /\ ann.elem \in ElementNames THEN Ptr(ann.elem) ELSE Raises

OfText(ann) == IF ann.elem = "" THEN ScalarOfText(ann) ELSE BufferOfText(ann)

OfObject(object) ==
  CASE object.is = "text" -> OfText(object.text)
    [] object.is = "type" /\ object.typ # "void" -> object.typ
    [] OTHER -> Raises

BoundType(ann, future) == OfObject(Evaluated(ann, future))

IsNone(object) ==
  \/ object = TypeObject("void")
  \/ /\ object.is = "text"
     /\ object.text.word \in {"None", "void"} /\ object.text.exact
     /\ object.text.qual = "" /\ object.text.elem = ""

BoundReturn(ann, future) ==
  IF IsNone(Evaluated(ann, future)) THEN "void" ELSE BoundType(ann, future)

-----------------------------------------------------------------------------
(* Structs. *)

SizeOf(typ) == IF typ = "bool" THEN 1 ELSE 8

\* Mutant: rounds down.
AlignDown(value, alignment) == (value \div alignment) * alignment

AlignTo(value, alignment) == ((value + alignment - 1) \div alignment) * alignment

\* Of a sequence of fields [id, typ]; of two fields of one name the later keeps the offset.
PlaceField(layout, field) ==
  LET size == SizeOf(field.typ)
      at == AlignTo(layout.size, size)
  IN  [offsets |-> Put(layout.offsets, field.id, at),
       size |-> at + size,
       alignment |-> Max({layout.alignment, size})]

StructLayout(fields) ==
  LET placed[i \in 0 .. Len(fields)] ==
        IF i = 0 THEN [offsets |-> <<>>, size |-> 0, alignment |-> 1]
        ELSE PlaceField(placed[i - 1], fields[i])
      end == placed[Len(fields)]
  IN  [end EXCEPT !.size = AlignTo(end.size, end.alignment)]

FieldsOf(class) ==
  LET items == Filter(class.body, {item \in ToSet(class.body) : item.s # "pass"})
  IN  [i \in 1 .. Len(items) |->
         [id |-> items[i].id, typ |-> IF items[i].s = "field" THEN TypeName(items[i].ann) ELSE Raises]]

IsStruct(def) == def.k = "class" /\ def.marked
ExtractsStruct(class) ==
  LET fields == FieldsOf(class)
  IN  fields # <<>> /\ \A i \in 1 .. Len(fields) : fields[i].typ \in ElementNames

-----------------------------------------------------------------------------
(* Signatures. *)

ExternsOf(def) == SelectSeq(def.decorators, LAMBDA deco : deco.d = "extern")
IsExtern(def) == ExternsOf(def) # <<>>

\* The first decorator that says something of parallel decides.
Decides(deco) == deco.d = "parallel" \/ (deco.d = "native" /\ deco.arg # "none")
ParallelFlag(def) ==
  LET said == SelectSeq(def.decorators, Decides)
  IN  IF said = <<>> THEN "false" ELSE IF Head(said).arg = "none" THEN "true" ELSE Head(said).arg

Signature(def, structs) ==
  [args |-> [i \in 1 .. Len(def.params) |-> SignatureType(def.params[i], structs)],
   ret |-> SignatureType(def.ret, structs),
   lib |-> IF IsExtern(def) THEN Last(ExternsOf(def)).arg ELSE "",
   extern |-> IsExtern(def),
   parallel |-> ParallelFlag(def) = "true"]

\* Whether _extract_signature goes through: a lib "other" is none or no literal.
ExtractsSignature(def, structs) ==
  LET sig == Signature(def, structs)
  IN  /\ Raises \notin ToSet(sig.args) \cup {sig.ret}
      /\ \A i \in 1 .. Len(ExternsOf(def)) : ExternsOf(def)[i].arg # "other"
      /\ ParallelFlag(def) # "other"
      /\ sig.extern => def.body.s = "stub"

\* Whether _lower_function goes through, what its body holds but calls aside.
LowersCall(call, sig, sigs) ==
  /\ call.to \in DOMAIN sigs
  /\ sigs[call.to].args = [i \in 1 .. Len(call.args) |-> sig.args[call.args[i]]]
  /\ call.value => sigs[call.to].ret # "void"

LowersFunction(def, sig, sigs) ==
  /\ Ptr("void") \notin ToSet(sig.args)
  /\ def.body.s # "empty"
  /\ sig.ret = "void" \/ (def.body.s = "code" /\ def.body.ends)
  /\ def.body.s = "code" => \A call \in def.body.calls : LowersCall(call, sig, sigs)

\* _compile_callable: every parameter is bound, in the order of the signature.
BoundParams(def) == def.before \o def.params \o def.after
Binding(def, future) ==
  [args |-> [i \in 1 .. Len(BoundParams(def)) |-> BoundType(BoundParams(def)[i], future)],
   ret |-> BoundReturn(def.ret, future)]

-----------------------------------------------------------------------------
(* lower_module: [ok, structs, sigs, externs, functions]. *)

IsFunction(def) == def.k = "def"
Structs(defs) == {i \in DOMAIN defs : IsStruct(defs[i])}
Functions(defs) == {i \in DOMAIN defs : IsFunction(defs[i])}

NamesOfDefs(defs, S) == {defs[i].name : i \in S}
NamedOnce(defs, S) == \A i, j \in S : defs[i].name = defs[j].name => i = j
Named(defs, S, name) == CHOOSE i \in S : defs[i].name = name

NotLowered == [ok |-> FALSE, structs |-> <<>>, sigs |-> <<>>, externs |-> {}, functions |-> {}]

\* Mutant: a signature knows only the structs defined before it.
StructsBefore(defs, f) == NamesOfDefs(defs, {i \in Structs(defs) : i < f})

\* What the signature of function f may name: it is collected when all structs
\* are known.
StructNames(defs, f) == NamesOfDefs(defs, Structs(defs))

LayoutsOf(defs) ==
  [n \in NamesOfDefs(defs, Structs(defs)) |->
     StructLayout(FieldsOf(defs[Named(defs, Structs(defs), n)]))]

SignaturesOf(defs) ==
  [n \in NamesOfDefs(defs, Functions(defs)) |->
     LET f == Named(defs, Functions(defs), n) IN Signature(defs[f], StructNames(defs, f))]

Collected(defs) ==
  /\ \A i \in Structs(defs) : ExtractsStruct(defs[i])
  /\ NamedOnce(defs, Structs(defs))
  /\ \A i \in Functions(defs) : ExtractsSignature(defs[i], StructNames(defs, i))
  /\ NamedOnce(defs, Functions(defs))
  /\ Functions(defs) # {}

LowersBodies(defs, sigs) ==
  \A i \in Functions(defs) :
    LET sig == sigs[defs[i].name] IN sig.extern \/ LowersFunction(defs[i], sig, sigs)

LowerModule(defs) ==
  LET sigs == SignaturesOf(defs)
  IN  IF ~(Collected(defs) /\ LowersBodies(defs, sigs)) THEN NotLowered
      ELSE [ok |-> TRUE, structs |-> LayoutsOf(defs), sigs |-> sigs,
            externs |-> {n \in DOMAIN sigs : sigs[n].extern},
            functions |-> {n \in DOMAIN sigs : ~sigs[n].extern}]

\* The libraries the artifact is linked with.
LinkLibs(module) == {module.sigs[n].lib : n \in module.externs} \ {""}
=============================================================================
