------------------------------ MODULE NativeCall ------------------------------
(***************************************************************************)
(* @native: decorating a function registers it with its module; its wrapper *)
(* compiles the whole module on the first call and keeps the result; a call *)
(* pins the buffers it is given while the native code runs.  Calls come     *)
(* from several threads, and nothing in the wrapper is locked.  A step here *)
(* is what runs between two points where the interpreter may switch         *)
(* threads.  The pipeline and the native code are abstracted to their       *)
(* outcome.  Of the arguments of a call only the buffers are kept: it may   *)
(* be refused for keywords, for their number, or for a scalar as well.      *)
(***************************************************************************)
EXTENDS Integers, Sequences, FiniteSets

CONSTANTS
  Threads,     \* the threads that call wrappers
  Defs,        \* the decorated functions, a sequence in the order of definition
  FnNames,     \* the names of functions
  NameOf,      \* the name of each function: two may share one
  Uses,        \* the names each function calls
  Args,        \* the buffers a call may be given, sequences
  Kind,        \* each buffer is "good", "strided", "readonly" or "wrongsize"
  MaxResizes   \* bound on the resizes of a buffer

Buffers == DOMAIN Kind
Fns == {Defs[i] : i \in 1 .. Len(Defs)}
NoFn == "none"

ASSUME NativeCallAssumption ==
  /\ Defs \in Seq(Fns) /\ NoFn \notin Fns
  /\ NameOf \in [Fns -> FnNames] /\ Uses \in [Fns -> SUBSET FnNames]
  /\ Args \subseteq Seq(Buffers)
  /\ Kind \in [Buffers -> {"good", "strided", "readonly", "wrongsize"}]
  /\ MaxResizes \in Nat

VARIABLES
  defined,     \* how many of Defs have been decorated
  registry,    \* _NATIVE_REGISTRY of the module: name -> function
  cached,      \* cached_native of each wrapper: the unit its code was compiled from
  pc,          \* each thread: where it is
  call,        \* each thread: the wrapper it called and the arguments, [fn, args]
  unit,        \* each thread: the compilation unit it has read, or the code it runs
  converted,   \* each thread: the addresses of the arguments converted so far
  pinned,      \* each thread: the buffers of its handles
  lingering,   \* each thread: the buffers whose views only its exception keeps alive
  address,     \* the address of each buffer's memory
  compiled     \* history: the pairs of a thread and a wrapper it has compiled

vars == <<defined, registry, cached, pc, call, unit, converted, pinned, lingering, address, compiled>>
world == <<defined, registry, address>>

\* A unit is the functions of a module by name; no code comes from an empty one.
NoUnit == [n \in FnNames |-> NoFn]
NoCall == [fn |-> NoFn, args |-> <<>>]

-----------------------------------------------------------------------------
(* The world around the calls. *)

\* Mutant: the function is registered under every name.
DecorateAll ==
  /\ defined < Len(Defs)
  /\ defined' = defined + 1
  /\ registry' = [n \in FnNames |-> Defs[defined + 1]]
  /\ UNCHANGED <<cached, pc, call, unit, converted, pinned, lingering, address, compiled>>

\* Functions are decorated as their definitions run, possibly while others are
\* called already.  The last function of a name takes its place in the registry;
\* each has a wrapper of its own.
Decorate ==
  LET d == Defs[defined + 1]
  IN  /\ defined < Len(Defs)
      /\ defined' = defined + 1
      /\ registry' = [registry EXCEPT ![NameOf[d]] = d]
      /\ UNCHANGED <<cached, pc, call, unit, converted, pinned, lingering, address, compiled>>

\* The owner of a buffer may resize it, which moves its memory, unless a view of
\* it is exported.
Exported(b) ==
  \E t \in Threads : b \in lingering[t] \/ \E i \in 1 .. Len(pinned[t]) : pinned[t][i] = b

Resize(b) ==
  /\ ~Exported(b)
  /\ Kind[b] \in {"good", "wrongsize"}
  /\ address[b] < MaxResizes
  /\ address' = [address EXCEPT ![b] = @ + 1]
  /\ UNCHANGED <<defined, registry, cached, pc, call, unit, converted, pinned, lingering, compiled>>

-----------------------------------------------------------------------------
(* The wrapper and _compile_callable. *)

Goto(t, l) == pc' = [pc EXCEPT ![t] = l]

\* A call with keywords is refused at once; any other checks for cached code.
Call(t) ==
  /\ pc[t] = "idle"
  /\ \E i \in 1 .. defined, a \in Args :
       /\ call' = [call EXCEPT ![t] = [fn |-> Defs[i], args |-> a]]
       /\ \/ Goto(t, "raised")
          \/ Goto(t, IF cached[Defs[i]] = NoUnit THEN "read" ELSE "lookup")
  /\ UNCHANGED <<world, cached, unit, converted, pinned, lingering, compiled>>

\* _build_compilation_unit: the functions registered at this moment.
ReadUnit(t) ==
  /\ pc[t] = "read"
  /\ unit' = [unit EXCEPT ![t] = registry]
  /\ Goto(t, "compile")
  /\ UNCHANGED <<world, cached, call, converted, pinned, lingering, compiled>>

\* The front end rejects a call of a name the unit has no function of.
Whole(u) == \A n \in FnNames : u[n] # NoFn => \A m \in Uses[u[n]] : u[m] # NoFn

\* Mutants: names are not resolved; a failed compilation is tried again.
CompileUnresolved(t) ==
  /\ pc[t] = "compile"
  /\ Goto(t, "store")
  /\ UNCHANGED <<world, cached, call, unit, converted, pinned, lingering, compiled>>
CompileAgain(t) ==
  /\ pc[t] = "compile"
  /\ Goto(t, IF Whole(unit[t]) THEN "store" ELSE "read")
  /\ UNCHANGED <<world, cached, call, unit, converted, pinned, lingering, compiled>>

\* The pipeline may fail for other reasons too: no clang, no space.  A failure
\* leaves nothing behind.
Compile(t) ==
  /\ pc[t] = "compile"
  /\ \/ Whole(unit[t]) /\ Goto(t, "store")
     \/ Goto(t, "raised")
  /\ UNCHANGED <<world, cached, call, unit, converted, pinned, lingering, compiled>>

\* Mutant: the cache is one slot for all wrappers.
StoreLast(t) ==
  /\ pc[t] = "store"
  /\ cached' = [f \in Fns |-> IF f = call[t].fn THEN unit[t] ELSE NoUnit]
  /\ compiled' = compiled \cup {<<t, call[t].fn>>}
  /\ Goto(t, "lookup")
  /\ UNCHANGED <<world, call, unit, converted, pinned, lingering>>

Store(t) ==
  /\ pc[t] = "store"
  /\ cached' = [cached EXCEPT ![call[t].fn] = unit[t]]
  /\ compiled' = compiled \cup {<<t, call[t].fn>>}
  /\ Goto(t, "lookup")
  /\ UNCHANGED <<world, call, unit, converted, pinned, lingering>>

\* invoke refuses a wrong number of arguments before it looks at any.
CheckCount(t) == Goto(t, "pin") \/ Goto(t, "raised")

\* What runs is what the cache holds now: another thread may have stored since.
Lookup(t) ==
  /\ pc[t] = "lookup"
  /\ unit' = [unit EXCEPT ![t] = cached[call[t].fn]]
  /\ CheckCount(t)
  /\ UNCHANGED <<world, cached, call, converted, pinned, lingering, compiled>>

-----------------------------------------------------------------------------
(* invoke, acquire_buffer and _validate_buffer_element_type. *)

NextArg(t) == call[t].args[Len(converted[t]) + 1]
MoreArgs(t) == Len(converted[t]) < Len(call[t].args)

\* Mutant: the handle is let go once the address is known.
PinBriefly(t) ==
  /\ pc[t] = "pin" /\ MoreArgs(t)
  /\ Kind[NextArg(t)] = "good"
  /\ converted' = [converted EXCEPT ![t] = Append(@, address[NextArg(t)])]
  /\ UNCHANGED <<world, cached, pc, call, unit, pinned, lingering, compiled>>

Pin(t) ==
  /\ pc[t] = "pin" /\ MoreArgs(t)
  /\ Kind[NextArg(t)] = "good"
  /\ pinned' = [pinned EXCEPT ![t] = Append(@, NextArg(t))]
  /\ converted' = [converted EXCEPT ![t] = Append(@, address[NextArg(t)])]
  /\ UNCHANGED <<world, cached, pc, call, unit, lingering, compiled>>

\* A buffer that is not contiguous is released before the exception; one that is
\* read-only or has elements of another size stays viewed while the exception and
\* its traceback last.
Refuse(t) ==
  /\ pc[t] = "pin" /\ MoreArgs(t)
  /\ Kind[NextArg(t)] # "good"
  /\ lingering' = [lingering EXCEPT ![t] =
                     IF Kind[NextArg(t)] = "strided" THEN {} ELSE {NextArg(t)}]
  /\ Goto(t, "unwind")
  /\ UNCHANGED <<world, cached, call, unit, converted, pinned, compiled>>

\* ctypes converts the arguments before native code runs, and may refuse a
\* scalar with every buffer pinned.
Enter(t) ==
  /\ pc[t] = "pin" /\ ~MoreArgs(t)
  /\ Goto(t, "native") \/ Goto(t, "unwind")
  /\ UNCHANGED <<world, cached, call, unit, converted, pinned, lingering, compiled>>

Leave(t) ==
  /\ pc[t] = "native"
  /\ Goto(t, "return")
  /\ UNCHANGED <<world, cached, call, unit, converted, pinned, lingering, compiled>>

\* The finally clause: one handle at a time, the last one first.
Release(t) ==
  /\ pc[t] \in {"return", "unwind"}
  /\ pinned[t] # <<>>
  /\ pinned' = [pinned EXCEPT ![t] = SubSeq(@, 1, Len(@) - 1)]
  /\ UNCHANGED <<world, cached, pc, call, unit, converted, lingering, compiled>>

\* Mutant: an exception skips the release of the handles.
UnwindAtOnce(t) ==
  /\ pc[t] = "unwind"
  /\ Goto(t, "raised")
  /\ UNCHANGED <<world, cached, call, unit, converted, pinned, lingering, compiled>>

Unwind(t) ==
  /\ pc[t] = "unwind"
  /\ pinned[t] = <<>>
  /\ Goto(t, "raised")
  /\ UNCHANGED <<world, cached, call, unit, converted, pinned, lingering, compiled>>

\* The call is over: its frame goes, and the exception when the caller drops it.
Return(t) ==
  /\ \/ pc[t] = "return" /\ pinned[t] = <<>>
     \/ pc[t] = "raised"
  /\ Goto(t, "idle")
  /\ call' = [call EXCEPT ![t] = NoCall]
  /\ unit' = [unit EXCEPT ![t] = NoUnit]
  /\ converted' = [converted EXCEPT ![t] = <<>>]
  /\ lingering' = [lingering EXCEPT ![t] = {}]
  /\ UNCHANGED <<world, cached, pinned, compiled>>

-----------------------------------------------------------------------------
Init ==
  /\ defined = 0
  /\ registry = NoUnit
  /\ cached = [f \in Fns |-> NoUnit]
  /\ pc = [t \in Threads |-> "idle"]
  /\ call = [t \in Threads |-> NoCall]
  /\ unit = [t \in Threads |-> NoUnit]
  /\ converted = [t \in Threads |-> <<>>]
  /\ pinned = [t \in Threads |-> <<>>]
  /\ lingering = [t \in Threads |-> {}]
  /\ address = [b \in Buffers |-> 0]
  /\ compiled = {}

\* What a thread does once it has called.
Step(t) ==
  \/ ReadUnit(t) \/ Compile(t) \/ Store(t) \/ Lookup(t)
  \/ Pin(t) \/ Refuse(t) \/ Enter(t) \/ Leave(t) \/ Release(t) \/ Unwind(t) \/ Return(t)

Next ==
  \/ Decorate
  \/ \E b \in Buffers : Resize(b)
  \/ \E t \in Threads : Call(t) \/ Step(t)

\* The interpreter runs every thread, the pipeline and the native code end, and
\* callers drop exceptions.
Spec == Init /\ [][Next]_vars /\ \A t \in Threads : WF_vars(Step(t))

-----------------------------------------------------------------------------
Unit == [FnNames -> Fns \cup {NoFn}]
Proper(u) == \A n \in FnNames : u[n] # NoFn => NameOf[u[n]] = n
Places == {"idle", "read", "compile", "store", "lookup", "pin", "native", "return", "unwind", "raised"}

TypeOK ==
  /\ defined \in 0 .. Len(Defs)
  /\ registry \in Unit /\ Proper(registry)
  /\ cached \in [Fns -> Unit]
  /\ pc \in [Threads -> Places]
  /\ call \in [Threads -> [fn : Fns \cup {NoFn}, args : Args \cup {<<>>}]]
  /\ \A t \in Threads : pc[t] # "idle" => call[t].fn # NoFn
  /\ unit \in [Threads -> Unit]
  /\ converted \in [Threads -> Seq(Nat)]
  /\ pinned \in [Threads -> Seq(Buffers)]
  /\ lingering \in [Threads -> SUBSET Buffers]
  /\ address \in [Buffers -> Nat]
  /\ compiled \in SUBSET (Threads \X Fns)

\* While native code runs, each address it was given is still that of the memory
\* of its argument: no other thread has been able to resize a buffer since.
BuffersStayPut ==
  \A t \in Threads : pc[t] = "native" =>
    converted[t] = [i \in 1 .. Len(call[t].args) |-> address[call[t].args[i]]]

\* A call that is over holds no handle, whichever argument was refused; and one
\* that returned never left a view behind.
HandlesReleased ==
  \A t \in Threads :
    /\ pc[t] \in {"idle", "raised"} => pinned[t] = <<>>
    /\ pc[t] \in {"idle", "return"} => lingering[t] = {}

\* Whatever was registered while the unit was compiled, and whichever thread
\* compiled it, code that runs has a function of the wrapper's name, and one for
\* every name it calls.
WholeUnitsRun ==
  \A t \in Threads : pc[t] \in {"pin", "native"} =>
    Whole(unit[t]) /\ unit[t][NameOf[call[t].fn]] # NoFn

\* Several threads may compile the same wrapper, each before the first one has
\* stored its code, but no thread does so twice.
CompiledOnce ==
  \A t \in Threads :
    pc[t] \in {"read", "compile", "store"} => <<t, call[t].fn>> \notin compiled

\* A call always ends.
CallsEnd == \A t \in Threads : pc[t] # "idle" ~> pc[t] = "idle"

-----------------------------------------------------------------------------
(* What the docstring says, and the code does not do. *)

\* A wrapper runs the function it decorates.
RunsItsOwn ==
  \A t \in Threads : pc[t] = "native" => unit[t][NameOf[call[t].fn]] = call[t].fn
=============================================================================
