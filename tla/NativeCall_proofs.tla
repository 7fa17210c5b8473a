-------------------------- MODULE NativeCall_proofs --------------------------
(***************************************************************************)
(* For every set of threads, functions, names, buffers and arguments: no    *)
(* buffer moves under native code, no handle outlives its call, and code    *)
(* that runs was compiled from a whole unit.                                *)
(***************************************************************************)
EXTENDS NativeCall, TLAPS

-----------------------------------------------------------------------------
(* Type correctness. *)

LEMMA InitTypes == Init => TypeOK
  <1> SUFFICES ASSUME Init PROVE TypeOK
    OBVIOUS
  <1>1. NoUnit \in Unit /\ Proper(NoUnit)
    BY DEF NoUnit, Unit, Proper
  <1>2. Len(Defs) \in Nat /\ 0 \in 0 .. Len(Defs)
    BY NativeCallAssumption
  <1>. QED
    BY <1>1, <1>2 DEF Init, TypeOK, Places, NoCall

LEMMA DefinedSoFar ==
  ASSUME TypeOK
  PROVE  Len(Defs) \in Nat /\ defined \in Nat /\ 1 .. defined \subseteq 1 .. Len(Defs)
  <1>1. Len(Defs) \in Nat
    BY NativeCallAssumption
  <1>2. defined \in 0 .. Len(Defs)
    BY DEF TypeOK
  <1>. QED
    BY <1>1, <1>2

\* The function decorated next, and its name.
LEMMA NextFunction ==
  ASSUME TypeOK, defined < Len(Defs)
  PROVE  /\ defined + 1 \in 1 .. Len(Defs)
         /\ Defs[defined + 1] \in Fns
         /\ NameOf[Defs[defined + 1]] \in FnNames
  <1>1. defined + 1 \in 1 .. Len(Defs)
    BY DefinedSoFar
  <1>2. Defs[defined + 1] \in Fns
    BY <1>1 DEF Fns
  <1>. QED
    BY <1>1, <1>2, NativeCallAssumption

LEMMA ArgsAreBuffers ==
  ASSUME TypeOK, NEW t \in Threads
  PROVE  call[t].args \in Seq(Buffers)
  <1>1. call[t].args \in Args \cup {<<>>}
    BY DEF TypeOK
  <1>2. Args \subseteq Seq(Buffers) /\ <<>> \in Seq(Buffers)
    BY NativeCallAssumption
  <1>. QED
    BY <1>1, <1>2

LEMMA NextArgument ==
  ASSUME TypeOK, NEW t \in Threads, MoreArgs(t)
  PROVE  /\ NextArg(t) \in Buffers /\ address[NextArg(t)] \in Nat
         /\ Len(converted[t]) + 1 \in 1 .. Len(call[t].args)
  <1>1. Len(converted[t]) \in Nat /\ Len(call[t].args) \in Nat
    BY ArgsAreBuffers DEF TypeOK
  <1>2. Len(converted[t]) + 1 \in 1 .. Len(call[t].args)
    BY <1>1 DEF MoreArgs
  <1>. QED
    BY <1>2, ArgsAreBuffers DEF NextArg, TypeOK

LEMMA DecorateTypes == TypeOK /\ Decorate => TypeOK'
  <1> SUFFICES ASSUME TypeOK, Decorate PROVE TypeOK'
    OBVIOUS
  <1>1. /\ defined + 1 \in 0 .. Len(Defs) /\ Defs[defined + 1] \in Fns
        /\ NameOf[Defs[defined + 1]] \in FnNames
    BY NextFunction, NativeCallAssumption DEF Decorate, TypeOK
  <1>2. registry' \in Unit
    BY <1>1 DEF Decorate, TypeOK, Unit
  <1>3. Proper(registry')
    BY <1>1, <1>2 DEF Decorate, TypeOK, Proper, Unit
  <1>. QED
    BY <1>1, <1>2, <1>3 DEF Decorate, TypeOK

LEMMA CallTypes ==
  ASSUME TypeOK, NEW t \in Threads, Call(t)
  PROVE  TypeOK'
  <1>1. PICK i \in 1 .. defined, a \in Args :
          /\ call' = [call EXCEPT ![t] = [fn |-> Defs[i], args |-> a]]
          /\ \/ Goto(t, "raised")
             \/ Goto(t, IF cached[Defs[i]] = NoUnit THEN "read" ELSE "lookup")
    BY DEF Call
  <1>2. Defs[i] \in Fns /\ Defs[i] # NoFn
    <2>1. i \in 1 .. Len(Defs)
      BY DefinedSoFar DEF TypeOK
    <2>2. Defs[i] \in Fns
      BY <2>1 DEF Fns
    <2>. QED
      BY <2>2, NativeCallAssumption
  <1>3. call' \in [Threads -> [fn : Fns \cup {NoFn}, args : Args \cup {<<>>}]]
    BY <1>1, <1>2 DEF TypeOK
  <1>4. pc' \in [Threads -> Places]
    BY <1>1 DEF TypeOK, Goto, Places
  <1>5. \A s \in Threads : pc'[s] # "idle" => call'[s].fn # NoFn
    BY <1>1, <1>2 DEF TypeOK, Goto
  <1>. QED
    BY <1>3, <1>4, <1>5 DEF Call, TypeOK, world

LEMMA StepTypes ==
  ASSUME TypeOK, NEW t \in Threads, Step(t)
  PROVE  TypeOK'
  <1> USE DEF TypeOK
  <1>0. pc' \in [Threads -> Places] /\ (pc[t] = "idle" => FALSE)
    BY DEF Step, ReadUnit, Compile, Store, Lookup, CheckCount, Pin, Refuse, Enter, Leave, Release,
           Unwind, Return, Goto, Places
  <1>1. CASE ReadUnit(t)
    BY <1>0, <1>1 DEF ReadUnit, Goto, world
  <1>2. CASE Compile(t) \/ Enter(t) \/ Leave(t) \/ Unwind(t)
    BY <1>0, <1>2 DEF Compile, Enter, Leave, Unwind, Goto, world
  <1>3. CASE Store(t)
    <2>1. call[t].fn \in Fns
      BY <1>0
    <2>. QED
      BY <1>0, <1>3, <2>1 DEF Store, Goto, world
  <1>4. CASE Lookup(t)
    <2>1. call[t].fn \in Fns
      BY <1>0
    <2>. QED
      BY <1>0, <1>4, <2>1 DEF Lookup, CheckCount, Goto, world
  <1>5. CASE Pin(t)
    <2>1. NextArg(t) \in Buffers /\ address[NextArg(t)] \in Nat
      BY <1>5, NextArgument DEF Pin
    <2>2. pinned' \in [Threads -> Seq(Buffers)]
      BY <1>5, <2>1 DEF Pin
    <2>3. converted' \in [Threads -> Seq(Nat)]
      BY <1>5, <2>1 DEF Pin
    <2>. QED
      BY <1>0, <1>5, <2>2, <2>3 DEF Pin, world
  <1>6. CASE Refuse(t)
    <2>1. NextArg(t) \in Buffers
      BY <1>6, NextArgument DEF Refuse
    <2>2. lingering' \in [Threads -> SUBSET Buffers]
      BY <1>6, <2>1 DEF Refuse
    <2>. QED
      BY <1>0, <1>6, <2>2 DEF Refuse, Goto, world
  <1>7. CASE Release(t)
    <2>1. Len(pinned[t]) - 1 \in Nat /\ Len(pinned[t]) - 1 <= Len(pinned[t])
      BY <1>7 DEF Release
    <2>2. SubSeq(pinned[t], 1, Len(pinned[t]) - 1) \in Seq(Buffers)
      BY <2>1
    <2>3. pinned' \in [Threads -> Seq(Buffers)]
      BY <1>7, <2>2 DEF Release
    <2>. QED
      BY <1>0, <1>7, <2>3 DEF Release, world
  <1>8. CASE Return(t)
    <2>1. NoUnit \in Unit
      BY DEF NoUnit, Unit
    <2>. QED
      BY <1>0, <1>8, <2>1 DEF Return, Goto, NoCall, world
  <1>. QED
    BY <1>1, <1>2, <1>3, <1>4, <1>5, <1>6, <1>7, <1>8 DEF Step

THEOREM TypeCorrect == Spec => []TypeOK
  <1>1. TypeOK /\ [Next]_vars => TypeOK'
    <2> SUFFICES ASSUME TypeOK, [Next]_vars PROVE TypeOK'
      OBVIOUS
    <2>1. ASSUME NEW b \in Buffers, Resize(b) PROVE TypeOK'
      BY <2>1 DEF Resize, TypeOK
    <2>2. CASE UNCHANGED vars
      BY <2>2 DEF vars, TypeOK
    <2>. QED
      BY <2>1, <2>2, DecorateTypes, CallTypes, StepTypes DEF Next
  <1>. QED
    BY <1>1, InitTypes, PTL DEF Spec

-----------------------------------------------------------------------------
(* The buffers.  The handles of a call are those of its first arguments, and  *)
(* the addresses converted are still theirs; a call that has not begun to     *)
(* convert holds nothing.                                                     *)

Matches(t) ==
  /\ Len(converted[t]) = Len(pinned[t])
  /\ Len(pinned[t]) <= Len(call[t].args)
  /\ \A i \in 1 .. Len(pinned[t]) :
       /\ pinned[t][i] = call[t].args[i]
       /\ converted[t][i] = address[call[t].args[i]]

BufferInv(t) ==
  /\ pc[t] \in {"idle", "read", "compile", "store", "lookup"} =>
       pinned[t] = <<>> /\ converted[t] = <<>> /\ lingering[t] = {}
  /\ pc[t] \in {"pin", "native"} => Matches(t)
  /\ pc[t] = "native" => Len(converted[t]) = Len(call[t].args)
  /\ pc[t] \in {"pin", "native", "return"} => lingering[t] = {}
  /\ pc[t] = "raised" => pinned[t] = <<>>

Buffered == \A t \in Threads : BufferInv(t)

\* A step of one thread leaves alone what the invariant says of another.
LEMMA OthersKeepBuffers ==
  ASSUME TypeOK, Buffered, NEW t \in Threads, Call(t) \/ Step(t), NEW s \in Threads, s # t
  PROVE  BufferInv(s)'
  <1>1. /\ pc'[s] = pc[s] /\ call'[s] = call[s] /\ converted'[s] = converted[s]
        /\ pinned'[s] = pinned[s] /\ lingering'[s] = lingering[s] /\ address' = address
    BY DEF TypeOK, Call, Step, ReadUnit, Compile, Store, Lookup, CheckCount, Pin, Refuse, Enter, Leave,
           Release, Unwind, Return, Goto, world
  <1>. QED
    BY <1>1 DEF Buffered, BufferInv, Matches

LEMMA PinMatches ==
  ASSUME TypeOK, Buffered, NEW t \in Threads, Pin(t)
  PROVE  BufferInv(t)'
  <1> DEFINE n == Len(pinned[t])
             b == call[t].args[n + 1]
  <1>1. Matches(t) /\ lingering[t] = {} /\ pc[t] = "pin"
    BY DEF Buffered, BufferInv, Pin
  <1>2. n \in Nat /\ n + 1 <= Len(call[t].args) /\ NextArg(t) = b
    <2>1. n \in Nat /\ Len(converted[t]) = n
      BY <1>1 DEF TypeOK, Matches
    <2>2. Len(converted[t]) + 1 \in 1 .. Len(call[t].args)
      BY NextArgument DEF Pin
    <2>3. Len(call[t].args) \in Nat
      BY ArgsAreBuffers
    <2>. QED
      BY <2>1, <2>2, <2>3 DEF NextArg
  <1>3. /\ pinned'[t] = Append(pinned[t], b)
        /\ converted'[t] = Append(converted[t], address[b])
        /\ pc' = pc /\ call' = call /\ address' = address /\ lingering' = lingering
    BY <1>2 DEF Pin, TypeOK, world
  <1>4. /\ Len(pinned'[t]) = n + 1 /\ Len(converted'[t]) = n + 1
        /\ pinned'[t][n + 1] = b /\ converted'[t][n + 1] = address[b]
        /\ \A i \in 1 .. n : pinned'[t][i] = pinned[t][i] /\ converted'[t][i] = converted[t][i]
    BY <1>1, <1>3 DEF TypeOK, Matches
  <1>5. Matches(t)'
    BY <1>1, <1>2, <1>3, <1>4 DEF Matches
  <1>. QED
    BY <1>1, <1>3, <1>5 DEF BufferInv

LEMMA StepKeepsBuffers ==
  ASSUME TypeOK, Buffered, NEW t \in Threads, Call(t) \/ Step(t)
  PROVE  Buffered'
  <1> SUFFICES BufferInv(t)'
    BY OthersKeepBuffers DEF Buffered
  <1>0. BufferInv(t)
    BY DEF Buffered
  <1>1. CASE Call(t)
    BY <1>0, <1>1 DEF Call, Goto, TypeOK, BufferInv
  <1>2. CASE ReadUnit(t) \/ Compile(t) \/ Store(t) \/ Leave(t) \/ Unwind(t)
    BY <1>0, <1>2 DEF ReadUnit, Compile, Store, Leave, Unwind, Goto, TypeOK, BufferInv
  <1>3. CASE Lookup(t)
    <2>1. Len(call[t].args) \in Nat
      BY ArgsAreBuffers
    <2>2. pinned[t] = <<>> /\ converted[t] = <<>> /\ lingering[t] = {}
      BY <1>0, <1>3 DEF Lookup, CheckCount, BufferInv
    <2>3. pc'[t] \in {"pin", "raised"} /\ UNCHANGED <<call, converted, pinned, lingering, address>>
      BY <1>3 DEF Lookup, CheckCount, Goto, TypeOK, world
    <2>4. Matches(t)'
      BY <2>1, <2>2, <2>3 DEF Matches
    <2>. QED
      BY <2>2, <2>3, <2>4 DEF BufferInv
  <1>4. CASE Pin(t)
    BY <1>4, PinMatches
  <1>5. CASE Refuse(t)
    BY <1>0, <1>5 DEF Refuse, Goto, TypeOK, BufferInv
  <1>6. CASE Enter(t)
    <2>1. Matches(t) /\ lingering[t] = {}
      BY <1>0, <1>6 DEF Enter, BufferInv
    <2>2. Len(converted[t]) = Len(call[t].args)
      BY <1>6, <2>1, ArgsAreBuffers DEF Enter, MoreArgs, Matches, TypeOK
    <2>3. pc'[t] \in {"native", "unwind"} /\ UNCHANGED <<call, converted, pinned, lingering, address>>
      BY <1>6 DEF Enter, Goto, TypeOK, world
    <2>4. Matches(t)'
      BY <2>1, <2>3 DEF Matches
    <2>. QED
      BY <2>1, <2>2, <2>3, <2>4 DEF BufferInv
  <1>7. CASE Release(t)
    BY <1>0, <1>7 DEF Release, TypeOK, BufferInv
  <1>8. CASE Return(t)
    BY <1>0, <1>8 DEF Return, Goto, TypeOK, BufferInv
  <1>. QED
    BY <1>1, <1>2, <1>3, <1>4, <1>5, <1>6, <1>7, <1>8 DEF Step

\* A buffer that moves is in no thread's hands.
LEMMA ResizeKeepsBuffers ==
  ASSUME TypeOK, Buffered, NEW b \in Buffers, Resize(b)
  PROVE  Buffered'
  <1> SUFFICES ASSUME NEW t \in Threads PROVE BufferInv(t)'
    BY DEF Buffered
  <1>1. /\ UNCHANGED <<pc, call, converted, pinned, lingering>>
        /\ \A c \in Buffers : c # b => address'[c] = address[c]
    BY DEF Resize, TypeOK
  <1>2. BufferInv(t)
    BY DEF Buffered
  <1>3. ASSUME Matches(t) PROVE Matches(t)'
    <2>1. ASSUME NEW i \in 1 .. Len(pinned[t])
          PROVE  address'[call[t].args[i]] = address[call[t].args[i]]
      <3>1. pinned[t][i] = call[t].args[i] /\ pinned[t][i] \in Buffers
        BY <1>3 DEF Matches, TypeOK
      <3>2. pinned[t][i] # b
        BY DEF Resize, Exported
      <3>. QED
        BY <1>1, <3>1, <3>2
    <2>. QED
      BY <1>1, <1>3, <2>1 DEF Matches
  <1>. QED
    BY <1>1, <1>2, <1>3 DEF BufferInv

LEMMA BuffersHeld == Spec => []Buffered
  <1>1. Init => Buffered
    BY DEF Init, Buffered, BufferInv
  <1>2. TypeOK /\ Buffered /\ [Next]_vars => Buffered'
    <2> SUFFICES ASSUME TypeOK, Buffered, [Next]_vars PROVE Buffered'
      OBVIOUS
    <2>1. CASE Decorate \/ UNCHANGED vars
      BY <2>1 DEF Decorate, vars, Buffered, BufferInv, Matches
    <2>. QED
      BY <2>1, ResizeKeepsBuffers, StepKeepsBuffers DEF Next
  <1>. QED
    BY <1>1, <1>2, TypeCorrect, PTL DEF Spec

\* No buffer moves while native code works on it, whoever owns it and whatever
\* the other threads do.
THEOREM NothingMoves == Spec => []BuffersStayPut
  <1>1. TypeOK /\ Buffered => BuffersStayPut
    <2> SUFFICES ASSUME TypeOK, Buffered, NEW t \in Threads, pc[t] = "native"
                 PROVE  converted[t] =
                          [i \in 1 .. Len(call[t].args) |-> address[call[t].args[i]]]
      BY DEF BuffersStayPut
    <2>1. Matches(t) /\ Len(converted[t]) = Len(call[t].args)
      BY DEF Buffered, BufferInv
    <2>2. converted[t] = [i \in 1 .. Len(converted[t]) |-> converted[t][i]]
      BY DEF TypeOK
    <2>. QED
      BY <2>1, <2>2 DEF Matches
  <1>. QED
    BY <1>1, BuffersHeld, TypeCorrect, PTL

\* A call that is over, by a result or by an exception, holds no handle.
THEOREM CallsReleaseHandles == Spec => []HandlesReleased
  <1>1. Buffered => HandlesReleased
    BY DEF Buffered, BufferInv, HandlesReleased
  <1>. QED
    BY <1>1, BuffersHeld, PTL

-----------------------------------------------------------------------------
(* The units.  A name that is registered stays registered, so the unit of a   *)
(* wrapper has a function of its name; only a whole unit is ever stored.      *)

Has(u, f) == u[NameOf[f]] # NoFn

UnitInv(t) ==
  LET f == call[t].fn
  IN  /\ pc[t] # "idle" => Has(registry, f)
      /\ pc[t] \in {"compile", "store", "pin", "native"} => Has(unit[t], f)
      /\ pc[t] \in {"store", "pin", "native"} => Whole(unit[t])
      /\ pc[t] = "lookup" => cached[f] # NoUnit
      /\ pc[t] \in {"read", "compile", "store"} => <<t, f>> \notin compiled

CacheInv ==
  \A f \in Fns :
    /\ cached[f] # NoUnit => Whole(cached[f]) /\ Has(cached[f], f)
    /\ \A t \in Threads : <<t, f>> \in compiled => cached[f] # NoUnit

Units ==
  /\ \A i \in 1 .. defined : Has(registry, Defs[i])
  /\ CacheInv
  /\ \A t \in Threads : UnitInv(t)

LEMMA HasIsSome ==
  ASSUME NEW u, NEW f \in Fns, Has(u, f)
  PROVE  u # NoUnit
  BY NativeCallAssumption DEF Has, NoUnit

LEMMA DecorateKeepsUnits == TypeOK /\ Units /\ Decorate => Units'
  <1> SUFFICES ASSUME TypeOK, Units, Decorate PROVE Units'
    OBVIOUS
  <1> DEFINE d == Defs[defined + 1]
  <1>1. d \in Fns /\ NameOf[d] \in FnNames /\ d # NoFn
    BY NextFunction, NativeCallAssumption DEF Decorate
  <1>2. registry' = [registry EXCEPT ![NameOf[d]] = d] /\ defined' = defined + 1
    BY DEF Decorate
  <1>3. \A f \in Fns : Has(registry, f) => Has(registry', f)
    BY <1>1, <1>2, NativeCallAssumption DEF Has, TypeOK, Unit
  <1>4. Has(registry', d)
    BY <1>1, <1>2 DEF Has, TypeOK, Unit
  <1>5. \A i \in 1 .. defined' : Has(registry', Defs[i])
    <2> SUFFICES ASSUME NEW i \in 1 .. defined' PROVE Has(registry', Defs[i])
      OBVIOUS
    <2>1. CASE i = defined + 1
      BY <1>4, <2>1
    <2>2. CASE i # defined + 1
      <3>1. i \in 1 .. defined /\ i \in 1 .. Len(Defs)
        BY <1>2, <2>2, NativeCallAssumption DEF TypeOK
      <3>2. Defs[i] \in Fns /\ Has(registry, Defs[i])
        BY <3>1 DEF Fns, Units
      <3>. QED
        BY <1>3, <3>2
    <2>. QED
      BY <2>1, <2>2
  <1>6. \A t \in Threads : pc[t] # "idle" => call[t].fn \in Fns
    BY DEF TypeOK
  <1>7. CacheInv'
    BY DEF Units, CacheInv, Decorate, Whole, Has
  <1>8. ASSUME NEW t \in Threads PROVE UnitInv(t)'
    <2>1. UNCHANGED <<pc, call, unit, cached, compiled>>
      BY DEF Decorate
    <2>2. UnitInv(t)
      BY DEF Units
    <2>. QED
      BY <1>3, <1>6, <2>1, <2>2 DEF UnitInv, Whole, Has
  <1>. QED
    BY <1>5, <1>7, <1>8 DEF Units, Has

LEMMA StoreKeepsUnits ==
  ASSUME TypeOK, Units, NEW t \in Threads, Store(t)
  PROVE  Units'
  <1> DEFINE f == call[t].fn
  <1>1. f \in Fns /\ Whole(unit[t]) /\ Has(unit[t], f) /\ Has(registry, f)
    BY DEF TypeOK, Store, Units, UnitInv
  <1>2. unit[t] # NoUnit
    BY <1>1, HasIsSome
  <1>3. /\ cached' = [cached EXCEPT ![f] = unit[t]]
        /\ compiled' = compiled \cup {<<t, f>>}
        /\ pc' = [pc EXCEPT ![t] = "lookup"]
        /\ UNCHANGED <<defined, registry, call, unit>>
    BY DEF Store, Goto, world
  <1>4. /\ cached'[f] = unit[t]
        /\ \A g \in Fns : g # f => cached'[g] = cached[g]
    BY <1>1, <1>3 DEF TypeOK
  <1>5. CacheInv'
    <2> SUFFICES ASSUME NEW g \in Fns
                 PROVE  /\ cached'[g] # NoUnit => Whole(cached'[g]) /\ Has(cached'[g], g)
                        /\ \A s \in Threads : <<s, g>> \in compiled' => cached'[g] # NoUnit
      BY DEF CacheInv, Whole, Has
    <2>1. CASE g = f
      BY <1>1, <1>2, <1>4, <2>1
    <2>2. CASE g # f
      BY <1>3, <1>4, <2>2 DEF Units, CacheInv
    <2>. QED
      BY <2>1, <2>2
  <1>6. ASSUME NEW s \in Threads PROVE UnitInv(s)'
    <2>0. UnitInv(s)
      BY DEF Units
    <2>1. CASE s = t
      <3>1. pc'[s] = "lookup"
        BY <1>3, <2>1 DEF TypeOK
      <3>. QED
        BY <1>1, <1>2, <1>3, <1>4, <2>1, <3>1 DEF UnitInv, Has
    <2>2. CASE s # t
      <3>1. pc'[s] = pc[s] /\ call'[s] = call[s]
        BY <1>3, <2>2 DEF TypeOK
      <3>2. cached[call[s].fn] # NoUnit => cached'[call[s].fn] # NoUnit
        BY <1>2, <1>3 DEF TypeOK
      <3>3. <<s, call[s].fn>> \in compiled' => <<s, call[s].fn>> \in compiled
        BY <1>3, <2>2
      <3>. QED
        BY <1>3, <2>0, <3>1, <3>2, <3>3 DEF UnitInv, Whole, Has
    <2>. QED
      BY <2>1, <2>2
  <1>. QED
    BY <1>3, <1>5, <1>6 DEF Units, Has

\* The other steps leave the registry, the cache and the history alone, and the
\* other threads where they were.
LEMMA OtherStepsKeepUnits ==
  ASSUME TypeOK, Units, NEW t \in Threads, Call(t) \/ Step(t), ~Store(t)
  PROVE  Units'
  <1>1. UNCHANGED <<defined, registry, cached, compiled>>
    BY DEF Call, Step, ReadUnit, Compile, Lookup, CheckCount, Pin, Refuse, Enter, Leave, Release,
           Unwind, Return, Goto, world
  <1>2. ASSUME NEW s \in Threads, s # t PROVE UnitInv(s)'
    <2>1. pc'[s] = pc[s] /\ call'[s] = call[s] /\ unit'[s] = unit[s]
      BY <1>2 DEF TypeOK, Call, Step, ReadUnit, Compile, Lookup, CheckCount, Pin, Refuse, Enter, Leave,
                  Release, Unwind, Return, Goto, world
    <2>. QED
      BY <1>1, <1>2, <2>1 DEF Units, UnitInv, Whole, Has
  <1>3. UnitInv(t)'
    <2>0. UnitInv(t) /\ CacheInv /\ (pc[t] # "idle" => call[t].fn \in Fns)
      BY DEF Units, TypeOK
    <2>1. CASE Call(t)
      <3>1. PICK i \in 1 .. defined :
              /\ call'[t].fn = Defs[i]
              /\ pc'[t] \in {"raised", IF cached[Defs[i]] = NoUnit THEN "read" ELSE "lookup"}
        BY <2>1 DEF Call, Goto, TypeOK
      <3>2. Has(registry, Defs[i]) /\ Defs[i] \in Fns
        BY DefinedSoFar DEF Units, Fns
      <3>3. cached[Defs[i]] = NoUnit => <<t, Defs[i]>> \notin compiled
        BY <2>0, <3>2 DEF CacheInv
      <3>. QED
        BY <1>1, <3>1, <3>2, <3>3 DEF UnitInv, Has
    <2>2. CASE ReadUnit(t)
      BY <1>1, <2>0, <2>2 DEF ReadUnit, Goto, TypeOK, UnitInv, Has
    <2>3. CASE Compile(t)
      <3>1. /\ pc'[t] \in {"store", "raised"} /\ pc[t] = "compile"
            /\ call' = call /\ unit' = unit
            /\ pc'[t] = "store" => Whole(unit[t])
        BY <2>3 DEF Compile, Goto, TypeOK
      <3>. QED
        BY <1>1, <2>0, <3>1 DEF UnitInv, Has, Whole
    <2>4. CASE Lookup(t)
      <3>1. Whole(cached[call[t].fn]) /\ Has(cached[call[t].fn], call[t].fn)
        BY <2>0, <2>4 DEF Lookup, CheckCount, UnitInv, CacheInv
      <3>2. pc'[t] \in {"pin", "raised"} /\ call' = call /\ unit'[t] = cached[call[t].fn]
        BY <2>4 DEF Lookup, CheckCount, Goto, TypeOK
      <3>. QED
        BY <1>1, <2>0, <2>4, <3>1, <3>2 DEF UnitInv, Has, Whole, Lookup, CheckCount
    <2>5. CASE Pin(t) \/ Release(t)
      BY <1>1, <2>0, <2>5 DEF Pin, Release, UnitInv, Has, Whole
    <2>6. CASE Refuse(t) \/ Leave(t) \/ Unwind(t)
      BY <1>1, <2>0, <2>6 DEF Refuse, Leave, Unwind, Goto, TypeOK, UnitInv, Has
    <2>7. CASE Enter(t)
      <3>1. pc[t] = "pin" /\ pc'[t] \in {"native", "unwind"} /\ call' = call /\ unit' = unit
        BY <2>7 DEF Enter, Goto, TypeOK
      <3>. QED
        BY <1>1, <2>0, <3>1 DEF UnitInv, Has, Whole
    <2>8. CASE Return(t)
      BY <1>1, <2>0, <2>8 DEF Return, Goto, TypeOK, UnitInv
    <2>. QED
      BY <2>1, <2>2, <2>3, <2>4, <2>5, <2>6, <2>7, <2>8 DEF Step
  <1>. QED
    BY <1>1, <1>2, <1>3 DEF Units, CacheInv, Has, Whole

LEMMA UnitsHold == Spec => []Units
  <1>1. Init => Units
    BY NativeCallAssumption DEF Init, Units, CacheInv, UnitInv
  <1>2. TypeOK /\ Units /\ [Next]_vars => Units'
    <2> SUFFICES ASSUME TypeOK, Units, [Next]_vars PROVE Units'
      OBVIOUS
    <2>1. CASE UNCHANGED <<defined, registry, cached, pc, call, unit, compiled>>
      BY <2>1 DEF Units, CacheInv, UnitInv, Has, Whole
    <2>2. ASSUME NEW b \in Buffers, Resize(b) PROVE Units'
      BY <2>1, <2>2 DEF Resize
    <2>3. CASE UNCHANGED vars
      BY <2>1, <2>3 DEF vars
    <2>4. ASSUME NEW t \in Threads, Call(t) \/ Step(t) PROVE Units'
      BY <2>4, StoreKeepsUnits, OtherStepsKeepUnits
    <2>. QED
      BY <2>2, <2>3, <2>4, DecorateKeepsUnits DEF Next
  <1>. QED
    BY <1>1, <1>2, TypeCorrect, PTL DEF Spec

\* Code that runs was compiled from a unit that has all the functions it calls.
THEOREM NothingPartialRuns == Spec => []WholeUnitsRun
  <1>1. Units => WholeUnitsRun
    BY DEF Units, UnitInv, Has, WholeUnitsRun
  <1>. QED
    BY <1>1, UnitsHold, PTL

\* No thread compiles a wrapper twice, though several may compile the same one.
THEOREM CompilesOnce == Spec => []CompiledOnce
  <1>1. Units => CompiledOnce
    BY DEF Units, UnitInv, CompiledOnce
  <1>. QED
    BY <1>1, UnitsHold, PTL
=============================================================================
