# A verification model of the AOT compiler

The repository compiles a typed subset of Python ahead of time: a front end
lowers functions to an SSA-based IR, two passes simplify it, a code generator
prints LLVM IR, clang builds a shared library, and a runtime calls it through
ctypes on buffers that Python owns. This directory holds TLA+ modules of its
core, the TLC configurations that check them, and proofs checked by TLAPS.
Paths below are relative to `src/aotc/`.

## 1. The system

| Component | State | Operations | Interacts with |
|---|---|---|---|
| Lowering (`front_end/parser.py`) | blocks under construction, the current block, environment (name -> SSA value), arrays of the function, three counters (temporaries, versions of a name, blocks) | one per statement and expression form; start and end of a function | merges types with `typer.py`, fills `ir/` |
| Signatures, externs, structs, annotations (`parser.py`, `typer.py`) | signatures and layouts of a module | collection before lowering | read by lowering of calls; the runtime reads the same annotations with code of its own |
| IR (`ir/node.py`, `ir/cfg.py`) | values, nodes, terminators, blocks in order | build, read | written by lowering and passes, read by code generation |
| Constant folding (`back_end/passes/constant_folding.py`) | constants known so far | one forward pass | rewrites the IR in place |
| Dead code elimination (`back_end/passes/dead_code.py`) | remaining nodes, `changed` | sweeps until nothing changes | rewrites the IR in place |
| Inlining, patch table (`passes/inline.py`, `loader/patcher.c`) | none | placeholders | - |
| Pass manager (`back_end/optimizer.py`) | the list of passes | run each once | pipeline |
| Code generator (`back_end/codegen.py`) | counters of printed names | print a module, raise on an IR it cannot print | pipeline |
| Builder, pipeline, command line (`back_end/builder.py`, `pipeline.py`, `cli.py`) | files in the build directory, shared by processes without a lock | compile a source in memory, write `.ll`, call clang on it; remove the directory | other builds and cleans, clang, runtime, user |
| `@native`, registries, compile cache (`loader/runtime.py`) | three registries by module and name, one cached function per wrapper | decorate, call, compile on first call | pipeline; any number of threads |
| Buffers (`loader/runtime.py`) | handles (view, address) of one call | acquire, check, release | owners of the buffers in other threads |
| `parallel_for` (`loader/runtime.py`) | chunks, futures, results | cut, submit, collect, leave | the pool of `concurrent.futures` |

What is hard:

- **Lowering** is one pass over nested statements that keeps an environment by
  hand. Which block a statement ends in, which environment is restored after a
  branch or a loop, and which label a phi gets depend on what was nested inside.
  Correctness is a property of the finished graph (one definition per name,
  definitions that dominate uses, phis that match predecessors, blocks that end)
  and not of any step.
- **Meaning.** Lowering, folding and the printer each have an arithmetic of their
  own (Python's, Python's on constants, LLVM's), and a loop, a branch or a
  reassigned parameter must mean the same through all of them.
- **Builds** share a path: between opening the `.ll` file, writing it, the check that
  it exists and the moment clang reads it, another build or a clean may come,
  and clang or the process may die.
- **Annotations** are read twice, as syntax by the front end and as objects or text
  by the runtime, with code that differs.
- **Dead code elimination** collects names first and drops nodes after, again
  and again: what is dropped must not be needed through any chain of uses.
- **`parallel_for`** has bodies that run in any order and fail at any moment while
  the caller collects, and arithmetic on remainders and empty ranges.
- **`@native`** has no lock: threads check and fill a cache, read registries that
  decoration is still filling, and hold addresses of memory that other threads
  try to resize. Arguments are refused half-way, builds fail.

`PROJECT.json` lists each hazard at its line with the properties that cover it,
or the reason why none does yet.

## 2. The modules

```
IR  <--extends--  Lowering  --implements-->  ControlFlow  <-- ControlFlow_proofs
 ^                   ^    ^
Execution            |     +-------------  Lowering_proofs
 ^     ^             |                       ^
 |  ConstantFolding  |                       |
SourceMeaning  ^     |                     Compiler_proofs
       ^       |     |                       |
       +--- Compiler-+  <--------------------+
               |
               +--implements-->              DeadCode     <-- DeadCode_proofs

Pipeline                                     ParallelFor  <-- ParallelFor_proofs
 ^                                           NativeCall   <-- NativeCall_proofs
Build  --extends-->  Signatures
 ^
Build_proofs
```

`Collections` holds the three operators on functions and sequences that several
modules share; `Recursion` proves what is needed of recursive functions
(section 5).

`MC*.tla` give the constants their values; the `.cfg` files select them and the
properties. Operators marked *Mutant* in a module are small bugs of the code (a
dropped guard, a swapped label, a missing reset); each property is known to fail
when the mutant that `PROJECT.json` pairs it with takes the place of the
definition after it. They play no part in the specifications.

### IR
Values, nodes, terminators and blocks as records, and the rules LLVM's verifier
imposes on the text printed from them. A value's name is a base and a number;
the code writes `x.3` or `t3`, which never collide, so the model keeps the pair.
A node has its operation, operands, result (a set of at most one value), the
element type or callee it is printed with, and the incoming values of a phi.
`Dominates` is defined by reachability that avoids a block: no separate
dominator computation is trusted. Besides types, `Verifies` asks that instructions are
printed with all their operands (`NodeComplete`, `TermComplete`) and that nothing but a
scalar is added or copied (`ArithTyped`): `b = a` of an array prints `add ptr`, which
LLVM rejects.

### Lowering
`_lower_function` and all it calls. A program is a sequence of statement records;
`else` and `end` stand for the nesting of the AST. One action is one statement:

| Action | Code |
|---|---|
| `Simple` | `_lower_assign`, `_lower_array_alloc_assign`, `_lower_subscript_store`, `_lower_augassign`, expression statements |
| `ReturnStmt` | the return case of `_lower_stmt` |
| `OpenIf`, `BeginElse`, `CloseIf` | `_lower_if` up to its first branch, between the branches, after them with `_merge_env_with_phi` |
| `OpenWhile`, `OpenFor`, `CloseLoop` | `_lower_while` (and `_lower_for_range`, which rewrites to it) before and after the body |
| `Raise` | any `FrontEndError`: the function is discarded |
| `Finish` | the end of `_lower_function`: the return a void function gets, the error any other gets |

The Python stack of `_lower_if` and `_lower_while` is `frames`: the labels and the
environments their local variables hold. `ctx` is what expressions and
statements thread through: the environment, `_arrays` (which belongs to the
function and is *not* restored after a branch) and the counters. `_lower_expr`
is a fold over the expression in postfix order, the order in which the code
emits nodes. Conversions are modelled by the casts they emit, literals by the
value that `_int_literal` reads off them (a negated literal is a negation, as in
the AST).

Abstracted: the text of names,
`and`/`or`/struct fields (the front end rejects or does not build them here),
docstrings (skipped before). All programs over a small set of statements are
enumerated, so ill-formed ones are as well, and must be rejected where the code
rejects them.

### Execution, SourceMeaning
`Execution` runs a function in SSA form on machine numbers, as the instructions
that `codegen.py` prints for each node do: `Execute` is `_emit_instruction`,
`Arithmetic` and `Comparison` are `_emit_arith` and `_emit_compare`, `Literal` is
`_literal`, `LeaveBlock` is `_emit_terminator`. An int has `Width` bits in two's
complement, a bool one, a float is an exact fraction; of floating point only the
rounding of printed literals (`Digits` digits) is kept. A division by zero, an
access outside an array, a value that was never defined make a run *undefined*.
Calls are not run, nor are functions that take arrays: the inputs of runs are
numbers (`CompilerAssumption`).

`SourceMeaning` is the reference: the same statement sequences run as Python runs
them, with unbounded numbers, true division and `range()` as an iterator. It is
written from the language, not from the compiler, and ends in *raises* where
Python raises or a number leaves the range of an int, and in *differs* where the
compiler is known to do something else (section 4).

### ConstantFolding
`ConstantFoldingPass.run`: one walk over the nodes in the order of the blocks,
with `known`, the numbers Python computed, which have no width. `FoldNode` is the
body of the loop, `Fold` is `_fold`.

### Compiler
The composition: `FrontEndParser` lowers a function, then `PassManager.run_module`
runs a selection of passes on it. `LowerNext` is a step of `Lowering`, `Select` the
choice of passes, `FoldingPass` and `Inlining` one pass each, `SweepPass` one turn of
the loop of dead code elimination on the nodes of the IR, `EndSweeps` its end,
`Emits` hands the function to the code generator. Three functions are compared:
the source, the function as lowered (`blocks`) and as optimised (`opt`). The sweeps
implement `DeadCode` (`SweepsImplementDeadCode`): each turn of the loop drops what
`DeadCode!Sweep` drops, so what is proved of the abstract pass holds of the nodes of
the IR.

### Signatures
`lower_module` without the bodies of functions, and the types of annotations.
A source is a sequence of definitions, told apart by their positions (two
of one name are refused, once both have been seen); `LowerModule` collects structs
(`StructLayout`), then signatures (`Signature`), then says which functions are
lowered, of whose bodies it keeps the calls and the final return. `TypeName` is
the reading of an annotation in `typer.py`; `BoundType` and `BoundReturn` are those in
`loader/runtime.py`, on text or on objects, with or without the `__future__` import.
An annotation is a record of what the two tell apart: its form, a module, a
name, the case of the name, an element, and the object that the expression stands
for in its module, which need not be what it spells: a type, text, or anything
else. The front end reads the syntax; the runtime reads the text under the import,
and otherwise the object (`Evaluated`, `OfObject`). A function has its ordinary
parameters (`params`), of which `Signature` is made, and those of other kinds before
and after them (positional-only; starred and keyword-only), which `Binding`, the
runtime's side, takes as well.

### Pipeline
`aotc build` and `aotc clean` as processes that share files. A file holds the text
it was compiled from, or is *torn*. A step is what runs between two points where
another process may touch what this one uses:

| Action | Code |
|---|---|
| `Refuse`, `Compile` | `Pipeline.__init__`, and `compile_file` up to the code generator: in memory, with no file touched |
| `MakeDir`, `OpenIR`, `WriteIR` | `mkdir`, and `write_text`, which truncates and then writes |
| `CheckClang` | the checks of `compile_llvm_ir`, and `mkdir` for the output |
| `ClangReads`, `ClangEnds` | `subprocess.run`: clang opens its input, and later puts its output in place or fails |
| `BeginClean`, `RemoveFile`, `EndClean` | `cmd_clean`: `rmtree` lists, unlinks, removes |
| `Crash`, `Edit` | external: a process dies, the user edits a source |

An `.ll` file that was unlinked while open takes its text with it (`handle`). Two
processes that write one file at once may mix it; clang may take a torn file for
IR. `contested` records whose `.ll` file was touched by another process since it
was opened.

### Build
`Pipeline` with the texts spelled out: `Accepted` is what `Signatures!LowerModule`
accepts, and the properties of signatures, layouts and annotations are checked of
the texts that builds have read.

### ControlFlow
The abstract specification of lowering: blocks and the blocks they may continue
in, the open blocks, the current one and a stack of frames. It forgets values,
environments and source, and says which graphs `_lower_if` and `_lower_while` may
build, with returns anywhere. `Lowering!BuildsControlFlow` is the refinement:
`succ` is read off the terminators, `open` is the blocks without one, a frame
keeps only where its block falls to and where lowering goes on.

### DeadCode
`DeadCodeEliminationPass.run`. A node is what the pass looks at: whether its
class may be dropped, its result, the names it reads. `Sweep` is one turn of the
`while changed` loop; blocks play no part, as in the code.

### ParallelFor
`parallel_for` and `_chunk_ranges`. The caller cuts (`Cut`, one turn of the loop
each), submits, collects in order, meets an exception or not, and leaves the
`with` block. The pool is external: futures start in the order of submission, at
most `threads` at once, and leaving the block waits for all of them and cancels
none, as `ThreadPoolExecutor` does. A body returns something of its chunk or
raises.

### NativeCall
`native`, its wrapper, `_compile_callable`, `_build_compilation_unit`,
`_bind_native_symbol`, `acquire_buffer` and `_validate_buffer_element_type`, run by
several threads. A step is what happens between two points where the interpreter
may switch threads and another thread could tell: `Call` (the check of
`cached_native`), `ReadUnit`, `Compile`, `Store`, `Lookup` (the second read of
`cached_native`), `Pin` or `Refuse` per argument, `Enter`, `Leave`, `Release` per
handle, `Unwind`, `Return`. Around them functions are decorated (`Decorate`) and
owners resize their buffers (`Resize`, external: possible while no view is
exported, as the buffer protocol demands). A call may be refused for what the
model does not keep: for keywords (`Call`), for the number of its arguments (`CheckCount`),
by ctypes for a scalar, when all buffers are pinned (`Enter`). A unit is the function registered
under each name; the pipeline accepts it only if every function it calls is in
it, and may fail for other reasons at any time.

A buffer is *good*, *strided* (released before the exception), *readonly* or
*wrongsize*: the last two are viewed, and refused before their handle is in the
list `pinned`, so no `finally` releases them; only the exception with its traceback
keeps the view (`lingering`), until the caller drops it. Scalars, zero-length
buffers (their address is 0 and never used) and the registries of externs and
structs are left out.

## 3. The runs

| Run | What it explores | What it shows |
|---|---|---|
| `flow` | every program of up to 5 statements over assignment, `+=`, return, if, while, for with ints; branches and loops nested in any way | `SingleAssignment`, `IRWellFormed`, `HoistedProgramsDominate`, `FlatProgramsPhis`, the refinement `BuildsControlFlow` |
| `data` | every program of up to 4 statements over 17 forms with arrays, a buffer parameter, conversions, calls, names that change type | `IRWellFormed`, `HoistedProgramsDominate`, `MemoryIsTyped` |
| `control_flow` | every graph of up to 3 ifs and loops with any number of returns | the inductive invariant `Inv`, `AllBlocksEnd`, `BranchesStay` |
| `dead_code` | every function of 3 nodes over 2 names | `NeededNodesStay`, `LargestFixpoint`, `Terminates` |
| `parallel_for` | ranges from -1 or 0 to -1..5, 0 to 4 threads, every order and failure of the bodies | `ChunksTile`, `ChunksAreEven`, `NoBodyOutlivesCall`, `EachIndexOnce`, `ResultsInOrder`, `EarliestErrorRaised`, `CallEnds` |
| `native_call` | two threads, two functions being decorated (one calls the other), buffers accepted, refused second and refused alone, one resize each | `BuffersStayPut`, `HandlesReleased`, `WholeUnitsRun`, `CompiledOnce`, `CallsEnd` |
| `compile` | every program of up to 4 statements over 14 forms with ints, bools, floats, an array, branches and loops; two selections of passes; five arguments | `CompiledMeansSource`, `PassesKeepMeaning`, `PassesKeepIRValid`, the refinement `SweepsImplementDeadCode` |
| `build` | two builds of one source with five commands, four texts, one edit, one clean, a crash of either at any point | `ArtifactsAreFresh`, `QuietDirectoriesAgree`, `OrderDoesNotMatter`, `LayoutsAreLLVMs`, `NativeTypesAgree` |
| `nested_loops` | as `flow` | *violated*: `NestedProgramsPhis` |
| `code_after_return` | as `flow`, 4 statements | *violated*: `ReturnsAreFinal` |
| `loop_types` | as `data`, 3 statements | *violated*: `PhisAreTyped` |
| `same_name` | two functions of one name | *violated*: `RunsItsOwn` |

Bounds, and why they are enough:

- `MaxStmts` counts statements other than `else` and `end`. Five allow an if inside
  a loop inside an if, with an assignment and a return, or a binding, a loop, a
  nested loop and assignments in both: each interaction between two nested
  statements, and what follows them. In `data` the types interact, not the
  nesting; four are enough for a binding, a retyping, a use, and an if or loop
  around two of them.
- In `compile` numbers have 4 bits (-8 to 7) and literals two digits, so that
  overflow, truncation and rounding happen with numbers up to 5; a run visits at
  most 24 blocks, enough for every loop of such a program that ends on these
  arguments. Four statements are a binding, a loop or branch around one statement,
  and a return.
- In `build` two builds are enough for one to overtake the other at every point,
  and one edit for them to read different texts; the proofs cover any number. The
  texts hold every annotation the record can describe that the front end accepts,
  standing for any of ten objects (as the parameters of one function, with and
  without the `__future__` import), functions with parameters before and after the
  ordinary ones, a module whose definitions come before what they need, and one that is refused.
- `MaxBlocks = 9` is three ifs or loops; the proof covers any number.
- Three nodes and two names give chains and cycles of uses, two definitions of a
  name, and dead nodes that only dead nodes read; the proof covers any number.
- Up to four threads and six indices give ranges that are shorter, equal, longer,
  empty and reversed, with every remainder.
- Two threads race for one cache and one buffer; `MaxResizes = 1` is one move of the
  memory, and a second one could not make an address more stale. The proofs
  cover any number of threads, functions and buffers.

Deadlock is not an error where the program ends: `CHECK_DEADLOCK FALSE` is set for
the front end, the passes, `parallel_for` and builds, whose specifications stop when
the function is lowered or emitted, the loop ends, the call or the build is over. In `NativeCall` threads may
always call again and deadlock is checked.

### What the properties mean

- `HoistedProgramsDominate` is for programs that bind a name, and allocate arrays,
  outside an if or loop before they assign it inside (`Hoisted`). For others the
  front end keeps a name of one branch visible after the if
  (`front_end/parser.py:700`), and relies on LLVM to reject the result.
- `FlatProgramsPhis` is for programs without nesting and without statements after a
  return; `NestedProgramsPhis` drops the first condition and fails.
- `MemoryIsTyped` covers memory, casts, comparisons, calls and branches. Arithmetic
  is not in it: an augmented assignment does not convert its operands
  (`front_end/parser.py:383`).
- `CompiledMeansSource` speaks of functions that LLVM accepts (`IR!Verifies`), of
  arguments on which Python returns a value that fits, and leaves out what
  section 4 lists under known divergences: `differs` of `SourceMeaning`,
  `NoOrderOfBooleans`, `PythonArithmetic`. `PassesKeepMeaning` leaves out functions in
  which folding wrote a number that its type cannot hold (`exact`).
- `ArtifactsAreFresh` is for builds whose `.ll` file no other process touched while they
  were at work; without that, a build can end well with the artifact of another
  text. `QuietDirectoriesAgree` says what it takes for a library to stand beside an
  `.ll` file of another text.
- `NativeTypesAgree`: the runtime binds as many parameters as were compiled, and finds
  the type the front end found for each, or refuses. It is for functions with
  ordinary parameters (`Ordinary`) and annotations that both read alike (`ReadAlike`), which
  are no aliases: what the annotation stands for is the type it spells, or nothing
  the runtime knows. Under the `__future__` import, and for quoted annotations, no object is
  looked at and aliases need no exception. Section 4 lists what is set aside; dropping any
  of these conditions but the one on struct names breaks the property in the run.
- `HandlesReleased` is about handles. A view that only an exception keeps (`lingering`) is
  permitted by it until the exception is dropped; no property forbids it.
- `IRWellFormed` is about functions that are accepted; which ones are rejected is not
  its subject (section 4).
- `NeededNodesStay` compares with the least set closed under "effects, and
  definitions of what is read"; `LargestFixpoint` says that sweeps lose nothing to
  the order in which they drop.
- `ResultsInOrder` leaves out reversed ranges without threads: the body then gets
  them as they are (`loader/runtime.py:216`).
- `WholeUnitsRun` lets two threads compile one wrapper, from registries of different
  moments, in any order of `Store` and `Lookup`; `CompiledOnce` bounds the waste.

### Fairness

- `DeadCode`: `WF(Next)`. A loop in one thread.
- `ParallelFor`: `WF` of the caller and of the pool. They are threads of the operating
  system, none waits on another except where the guards say so, and bodies are
  taken to end: `CallEnds` is about the call, not about user code.
- `NativeCall`: `WF(Step(t))` for each thread. The interpreter runs every thread in
  turn; the pipeline (one clang process) and the native code are taken to end,
  and callers to drop exceptions. `Call`, `Decorate` and `Resize` have no fairness:
  nobody need ever call.
- `Lowering`, `ControlFlow`, `Compiler` and `Pipeline` have none and state no liveness: a
  program may be of any length, and builds may die. That the sweeps of `Compiler`
  end is `Terminates` of the specification they implement.

## 4. Where code and documents differ

1. **Loops with nested statements** (`nested_loops`). `_lower_while` patches its phis
   under the label of the block the body *began* with, and the jump back leaves
   the block where the body *ended*. An if in a loop gives a phi for a block that
   is no predecessor. `_merge_env_with_phi` has the same flaw for branches. The
   documents promise SSA, and if/while/for as the core subset.
2. **Statements after a return** (`code_after_return`). Lowering goes on in the ended
   block and the next terminator replaces the return: `return x; return y`
   returns `y`.
3. **A variable that changes type in a loop** (`loop_types`) is given a phi of two
   types without the check that branches get.
4. **Two functions of one name** (`same_name`). The registry keeps the later one, and
   the wrapper of the earlier one compiles and runs it.

### Known divergences

These were met while the models were written. Each is set aside by name in the
property it would violate, or is no case of the instance that checks it.

- `x /= n` over ints is an integer division (`front_end/parser.py:383`), and sums of
  booleans stay booleans: `PythonArithmetic`.
- Booleans are ordered as signed bits by LLVM, where True is -1
  (`back_end/codegen.py:281`), and as numbers by folding: `NoOrderOfBooleans`.
- `range(3, 0, -1)` counts up (`front_end/parser.py:501`), the bounds of a range are
  evaluated at every turn (`:508`), a body may change the loop variable, the
  variable is left past the range, and the addition of the step may overflow: `StartLoop`,
  `EndTurn` and `NextTurn` of `SourceMeaning`.
- A statement after a return replaces it (finding 2): `ReturnValue`.
- Folding writes constants that do not fit: 64 bits, a fraction in an int (from
  `x /= 2` over constants), a boolean 2, more digits than are printed: `exact`.
- Negative indices, which Python counts from the end, are outside the array:
  `SourceMeaning` takes them for an error.
- To the front end a quoted annotation with a module (`"np.NDArray[int]"`) and a buffer
  name in another case are ints; the runtime binds buffers: `ReadAlike`.
- A function whose last statement is an if that returns in both branches is rejected
  ("must end with return", `front_end/parser.py:207`): the block after the if is open,
  though nothing reaches it. The models reject it as well.
- Without the `__future__` import the runtime looks at the object an annotation evaluates to
  (`loader/runtime.py:358`), the front end at the identifier, and an unknown one is an
  int (`front_end/typer.py:45`). With `Real = float` a parameter of type `Real` is compiled as
  `i64` and bound as `c_double`; with `NDArray as Arr`, `Arr[float]` is compiled as an int and
  bound as a pointer. Return types are read in the same two ways (`NoneType` is an
  int to one and nothing to the other): `ReadAlike`.
- The front end compiles `fn.args.args` (`front_end/parser.py:107`, `:171`), the runtime binds
  all of `signature.parameters` (`loader/runtime.py:231`). `def f(a: int, /, b: int)` is compiled
  with `b` alone and bound with two parameters, so `b` is given the value of `a`. Starred
  and keyword-only parameters are bound and not compiled in the same way, after the
  others: `Ordinary`.
- The name of a scalar that is also the name of a struct class (`class int`) is the
  struct to the front end (`front_end/parser.py:838`) and the scalar to the runtime,
  when it reads annotations as text: `ReadAlike`. The proof of `NativeTypesAgree` found
  this one; no text of the instance has such a class.
- A struct with two fields of one name has one offset and two printed fields:
  `FieldsDiffer`.
- A wrong element type in the field of a struct is a `TypeError` that is no `AOTCError`
  (`front_end/parser.py:769`), so the command line does not catch it.
- The `else` of a while or for is dropped without an error
  (`front_end/parser.py:459`). No program of the models has one.

## 5. What is proved

All theorems are for every value of the constants, under the assumptions on
constants named in the modules (`ControlFlowAssumption`, `LoweringAssumption`,
`ExecutionAssumption`, `CompilerAssumption`, `DeadCodeAssumption`, `ParallelForAssumption`,
`NativeCallAssumption`, `PipelineAssumption`, `BuildAssumption`, `SourceAssumption`), which
give the constants their types: programs are sequences of well-formed statements,
no variable is called like a temporary, a module, a class and a function hold finitely
many definitions, fields and parameters. `BuildAssumption` ties what `Pipeline` calls an accepted text to
`Signatures!LowerModule`. TLC evaluates these in every run of the module.

**ControlFlow.** `Invariant`, and from it `TypeCorrect`, `EveryBlockEnds` and
`BranchesAreFinal`. That blocks end is not inductive: while statements are open,
blocks are open too. `Inv` says which: an open block is the current one or held
back by a frame (`OpenAreHeld`), each is held back once (`HeldOnce`), and control
leaves none of them yet (`HeldEmpty`); then closing a frame ends exactly its block,
and when no frame is left only the current block can be open. New labels are
fresh because the counter bounds all labels in use (`TypeOK`, `FreshLabels`). The
lemmas `HeldAppend` and `HeldPop` say what pushing and popping a frame does to
the blocks held.

**DeadCode.** `NeededStay`: the kept set is closed (it has all effects, and every
definition of a name it reads), a sweep keeps it so (`SweepKeepsClosed`), and the
needed nodes are in every closed set. What is read is stated apart from the
names the pass collects; `ReferencedAreRead` says that the two agree. `StopsAtLargestFixpoint`: `Remaining` is
monotone (`RemainingMonotone`), so a stable set inside the kept set survives a
sweep.

**ParallelFor.** `ChunksTileTheRange`: `CutInv` ties the cursor to the number of
chunks, `start + n * Base + min(n, Extra)`, and at `n = threads` that is the end of
the range by the division theorem. `BodiesEndFirst` follows from the guard of the
`with` block and from the futures that never leave an end state.
`EarliestError`: `CollectInv` says that the results are those of a prefix of
futures that succeeded. `ChunksEven` and `IndicesOnce`: `SpreadInv` says that each chunk
lies before the next, is as wide as the base or wider by one, and that every
index before the cursor is in one; stated of all pairs of chunks, since that
neighbours touch would need an induction to give it. `ResultsOrdered`: `ResultsInv` says
that results are those of the chunks at the same positions, all of them when
the call returns, so they tile the range because the chunks do.

**NativeCall.** `NothingMoves`: `Buffered` ties each converted address to the handle
pinned at the same position and to the current address of that buffer; a resize
needs a buffer no thread has a view of. `CallsReleaseHandles` follows. `NothingPartialRuns`
and `CompilesOnce`: `Units` says that cached code is from a whole unit that has the
wrapper's own name, that the registry never loses a name, so a unit read later
has it too, and that a thread with `<<t, f>>` in its history finds `f` cached.

**Lowering.** The inductive invariant `LoweringInv` has four parts; `LoweringIsSound` says that
it holds, and everything below follows from it, `LoweringTypeCorrect` first.

- `GraphInv` is the refinement of `ControlFlow`: `Shape` reads the abstract state off the
  blocks, the frames and the counter, and the abstract `Inv` holds of it. Each action
  is shown to be a step of the abstract one (`SimpleStep` ... `FinishStep`), so
  `LoweringBuildsControlFlow`: what `ControlFlow` proves (every block ends, frames own the
  blocks they will fill) is true of the front end for programs of any length.
- `OrderInv`: `block_order` lists each block once.
- `IRInv`: about the code. `CodeInv` says that every node has operands of the types it
  is printed with and reads only arguments and results of nodes, that no two nodes
  have one result, and that every name in use is below the counters that make new
  ones; the environment, too, holds only such values. `TermsInv` says that
  terminators read such values and branch on booleans, `PhisLead` that phis come
  first.
- `WaitAll`: what the pending `_lower_if` and `_lower_while` calls hold in local
  variables: environments of values that exist; a join block that is still empty,
  so that phis can come first in it; and for a loop that each phi of its header
  is under a name the loop began with, so that the environment has a value for it.

The last part is what makes the rest inductive: a phi is emitted with one operand
and gets its second when the loop closes, from an environment saved before the
body. Expressions are proved apart: `TokenFacts` says what one token does to the
code and the stack of operands, `TokensFacts` lifts that over a whole expression.
Counters only grow (`ContextMonotone`), so a name is fresh when it is made
(`TemporaryIsNew`, `NextVersion`). Of the recursive functions the proof uses that they satisfy
their defining equations (`FoldDef`) and that a set closed under successors holds all
prefixes (`Induction`); `Recursion` proves both once, from the theorem that the order of the
natural numbers is well-founded, and each use is an instance of it.
`LoweringAssignsOnce`, `LoweringIsWellFormed` and `LoweringTypesMemory` are `SingleAssignment`, `IRWellFormed` and
`MemoryIsTyped`: with every nesting, every type, and any number of statements,
including programs whose phis do not match their predecessors (section 4).

`LoweringDominates` is `HoistedProgramsDominate`. It speaks of paths, but no step of the front end
looks at one, so `DominanceInv` speaks of blocks instead. It says that there is a set
`V[l]` of values for each block `l` (`Scoped`) such that the entry expects the
arguments only; nodes and terminator of `l` read what is in `V[l]` or defined in `l`
before; and an edge from `l` leads only to blocks that expect no more than what
`l` expects and defines. Then nothing in `V[l]` can reach `l` undefined: the blocks
that control reaches without the one that defines `v` are among those that do not
expect `v` (`ReachWithin`, `ScopeDominates`). The rest of the invariant (`LaidOut`) is what the
front end holds while statements are open: the current environment is in what the
current block knows; that of a pending `_lower_if` or `_lower_while` is in what the
block it goes on in expects (`FrameSees`), over the same names; and what a pending
loop's condition expects, every block inside knows (`Carries`, `Nested`). That the names are
the same is where `Hoisted` is needed (`HoistedFacts`, `Bound`): a name bound inside was bound
before. A join's set is narrowed to what each branch that falls through knows
(`NarrowLayout`), and a name that both sides leave alone has the value that both know (`MergeSeen`).
A branch that returned asks nothing of the join, so early returns are covered.

`LoweringFeedsPhis` is `FlatProgramsPhis`. A finished function gives each phi one value for each
predecessor of its block, and that value is defined where the edge leaves; but labels and
values are written while predecessors are still missing, so this is not inductive.
`PhisInv` says, over the same sets `V[l]`, what holds in between, of programs without nesting whose
return is last (`Regular`): at most one statement is open (`FedLayout`); the current block
is the one in which the pending branch or body began, hence the one that its phis are
labelled with; nothing but the branch that is done jumps to the join block yet, and the
environment kept of that branch is defined at its end (`PendingFed`); the phis of a pending
loop's condition have a value of the block before the loop and lack only that of the body
(`HalfFed`); all other phis are fed (`PhisFed`). Until it returns, the current block has not ended,
so nothing that is lowered replaces a jump. A value at the end of a block stays there when code and edges are
added elsewhere (`FedStays`, `EdgesKept`); joining and closing a loop give the missing label to the
phis and the missing edge to the block at once (`CloseIfFed`, `CloseLoopFed`). Where an if is
nested, the current block is no longer the one the branch began with: that conjunct of `PendingFed`
is what finding 1 breaks.

**Compiler.** A pass *refines* the function it is given: it keeps the blocks, their order
and terminators (`SameGraph`), and the nodes it leaves keep their order and their
results, are the same nodes or constants in their place (`Simplifies`), and still
have the definitions of what they read. `RefinementIsAccepted` is the core: whatever refines a
function that `IR!Verifies` accepts is accepted. Dominance survives since reachability
only looks at terminators, and the definition that dominated a use is still
before it. Folding refines since it keeps positions (`FoldingRefines`), a sweep since what
it drops is read by no node (`SweepFacts`). `CompilerInv` carries this through any list of
passes (`CompilerIsSound`); `PassesStayValid` is `PassesKeepIRValid`. Its last part, `Prunes(given, opt)`, is
what ties the nodes left in the middle of the sweeps to those the pass began with:
the abstract `DeadCode` is about positions in the code it was given. `SweepsAreDeadCode` is the
refinement, step by step (`SweepIsDeadCode`).

`PassesPreserveMeaning` is `PassesKeepMeaning`, for every program, list of passes, width of integers,
number of steps and argument. An accepted function defines each name once
(`DefinesOnce`), so a run of it and a run of what a pass made of it can be compared by
name: they are `Alike` if they are at the same place, with the same memory in the
arrays that are read and the same values of the names that are read (`Agree`); and
a run `Fits` if a name that is a constant of the optimised code, once defined, has the value
of its literal. A pass `Optimises` if it turns each block node by node (`Turns`): a node is
kept, becomes a literal whose value is what the operation gives on its constant
operands (`ArithmeticFolds`, `ComparisonFolds`), or is dropped when nothing reads it. Each such
node keeps runs alike (`StepKept`, `StepFolded`, `StepDropped`), hence a sequence of nodes does
(`NodesKeep`), a block with its phis and terminator (`EnterKeeps`, `LeaveKeeps`), and, by
induction over steps, a whole run (`RunKeeps`). Folding turns blocks because what it
knows of a name is what the only node that defines it computes (`FoldingTurns`), a sweep
because what it drops is unread (`SweepTurns`). `MeaningInv` composes passes: the original and
the current blocks run alike on every input. It needs acceptance by LLVM: in a
function that defines a name twice, folding would take the wrong literal. The
proof made `Exact` say that a literal is a fraction, `FoldedTo` ask for both operands, and
`Verifies` state what LLVM requires of operands; nothing was weakened.

**Build.** `FunctionsAreBoundAsCompiled` is `NativeTypesAgree`, for any module, class names and
annotations, standing for any object. The runtime reads an object or a text: of an object that is what the
annotation spells, or unknown, it finds what the syntax says or refuses (`ObjectsAgree`), and so
it does with text (`TextsAgree`); `AnnotationsAgree` splits by the form of the annotation and the
import. That as many parameters are bound as compiled needs that none stand before
or after the ordinary ones. `DefinitionsComeInAnyOrder` is `OrderDoesNotMatter`: exchanging two
definitions is a bijection of positions (`Rearranges`), and each
thing that collection computes is shown to move with it (`KindsMove`, `NamesMove`,
`CollectedMoves`). `StructsAreLaidOutLikeLLVMs` is `LayoutsAreLLVMs`: after each field, offset, size and alignment are
those of the LLVM layout of the fields so far (`FieldPlaced`, `FieldsPlaced`); `AlignToFirst` says that
`AlignTo` is the least multiple that is no smaller.

**Pipeline** (in `Build_proofs`, of the specification `Build` shares). `FreshArtifacts`: that the file a build leaves is its own is not
inductive. `Fresh` says what an undisturbed build knows while it is at work: while
it writes, its handle is the file at its path; from the end of the writing, that
file, and what clang has read of it, is of the text the build has read. Whoever
touches that path makes the build contested (`OthersKeepFresh`). `QuietFilesAgree` needs
besides that a clean has listed whatever it still has to remove (`Listing`), so
that a clean that ends well leaves neither of the two files.

### Only model-checked
- Liveness: `Terminates`, `CallEnds`, `CallsEnd`.
- `CompiledMeansSource`: that lowering means what Python means. `PassesPreserveMeaning` is the half of it
  that is about the passes; the other half compares two programs of different
  shape, statements and blocks, and needs an induction over both runs at once,
  with an invariant that ties every environment of Python to values in SSA form.
- The violated properties of section 4 are refuted, by a counterexample each.

## 6. Not modelled

- The text of LLVM IR apart from literals, the flags of clang, and what clang and
  llvmlite do: text and external programs.
- Calls of functions when a compiled function is run, floating-point rounding
  other than that of literals.
- Annotations that spell a type of the IR (`ptr_int`), and those that are neither a name,
  a subscript nor text.
- The patch table: a placeholder without behaviour.
- Argument parsing, printing, and the benchmarks: around the rest.
- `GetField` and `PtrCast`: no path of the front end builds them.

## 7. Plan

Done, in this order: `IR`, `Lowering`, `ControlFlow` (the front end, where most of the
program's logic is), `DeadCode`, `ParallelFor`, `NativeCall`; then `Execution`,
`SourceMeaning`, `ConstantFolding` and their composition `Compiler`; `Signatures`,
`Pipeline` and their composition `Build`; proofs about every one of these, and of every
safety property but the one named in section 5.

Next:

1. Calls in `Execution`, so that modules of several functions are compared with
   their source.
2. The wrapper of `NativeCall` over the builds of `Pipeline`: the runtime compiles each
   unit into a directory of its own, which the model takes as an outcome.
