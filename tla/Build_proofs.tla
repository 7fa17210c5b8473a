---------------------------- MODULE Build_proofs ----------------------------
(***************************************************************************)
(* For any number of builds, sources, directories and commands: a build     *)
(* that ends well and undisturbed leaves what it made of the text it read,  *)
(* and a directory in which all builds did holds files that agree.  For any  *)
(* modules that texts stand for: definitions may come in any order, structs  *)
(* are laid out as LLVM does, and functions are bound as they are compiled.  *)
(***************************************************************************)
EXTENDS Build, TLAPS

LEMMA PathsOf ==
  ASSUME NEW j \in Commands
  PROVE  /\ j.source \in Sources /\ j.dir \in Dirs /\ j.emit \in {"ll", "so", "asm"}
         /\ IRPath(j) \in Paths /\ Output(j) \in Paths /\ Output(j)[1] \in Dirs
  <1>1. /\ j.source \in Sources /\ j.dir \in Dirs /\ j.emit \in {"ll", "so", "asm"}
        /\ j.output \in Paths \cup {NoOutput} /\ StemOf[j.source] \in Stems
    BY PipelineAssumption
  <1>2. IRPath(j) \in Paths /\ DefaultOutput(j) \in Paths
    BY <1>1 DEF IRPath, DefaultOutput, Paths
  <1>3. Output(j) \in Paths
    BY <1>1, <1>2 DEF Output
  <1>4. \A p \in Paths : p[1] \in Dirs
    BY DEF Paths
  <1>. QED
    BY <1>1, <1>2, <1>3, <1>4

\* The places do not overlap.
LEMMA Places ==
  /\ Early \cap Busy = {} /\ Early \cap Ended = {} /\ Busy \cap Ended = {}
  /\ {"write", "check", "clang", "link"} = Busy
  BY DEF Early, Busy, Ended

-----------------------------------------------------------------------------
(* Type correctness. *)

LEMMA FailTypes ==
  ASSUME NEW b \in Builds, Fail(b), pc \in [Builds -> Early \cup Busy \cup Ended]
  PROVE  /\ pc' \in [Builds -> Early \cup Busy \cup Ended]
         /\ pc'[b] \in {"rejected", "failed"}
         /\ pc[b] \in Early => pc'[b] = "rejected"
         /\ pc[b] \in Busy => pc'[b] = "failed"
         /\ \A c \in Builds \ {b} : pc'[c] = pc[c]
  BY DEF Fail, Goto, Early, Busy, Ended

LEMMA BuildTypes ==
  ASSUME TypeOK, NEW b \in Builds, Build(b)
  PROVE  TypeOK'
  <1>0. /\ job[b] \in Commands /\ pc[b] \in Early \cup Busy \cup Ended
        /\ IRPath(job[b]) \in Paths /\ Output(job[b]) \in Paths
        /\ job[b].dir \in Dirs /\ Output(job[b])[1] \in Dirs
    BY PathsOf DEF TypeOK
  <1>1. \A p, S : S \subseteq Builds => Disturbed(p, S) \subseteq Builds
    BY DEF Disturbed
  <1>2. CASE Refuse(b)
    BY <1>2, FailTypes DEF Refuse, TypeOK, cleanVars
  <1>3. CASE Compile(b)
    <2>1. PICK j \in Commands :
            /\ job' = [job EXCEPT ![b] = j]
            /\ text' = [text EXCEPT ![b] = source[j.source]]
            /\ IF source[j.source] \in Accepted THEN Goto(b, "mkdir") ELSE Fail(b)
      BY <1>3 DEF Compile
    <2>2. source[j.source] \in Texts
      BY PathsOf DEF TypeOK
    <2>3. pc' \in [Builds -> Early \cup Busy \cup Ended]
      BY <2>1, FailTypes DEF Goto, Early, TypeOK
    <2>. QED
      BY <1>3, <2>1, <2>2, <2>3 DEF Compile, TypeOK, cleanVars
  <1>4. CASE MakeDir(b)
    BY <1>0, <1>4 DEF MakeDir, Goto, Early, TypeOK, cleanVars
  <1>5. CASE OpenIR(b)
    <2>1. pc' \in [Builds -> Early \cup Busy \cup Ended]
      BY <1>5, FailTypes DEF OpenIR, Goto, Busy, TypeOK
    <2>. QED
      BY <1>0, <1>1, <1>5, <2>1 DEF OpenIR, TypeOK, cleanVars
  <1>6. CASE WriteIR(b)
    <2>1. pc' \in [Builds -> Early \cup Busy \cup Ended]
      BY <1>6 DEF WriteIR, Goto, Busy, Ended, TypeOK
    <2>2. files' \in [Paths -> Texts \cup {Torn, NoText}]
      <3>1. CASE handle[b]
        <4>1. PICK t \in {text[b], Torn} : files' = [files EXCEPT ![IRPath(job[b])] = t]
          BY <1>6, <3>1 DEF WriteIR
        <4>. QED
          BY <1>0, <4>1 DEF TypeOK
      <3>. QED
        BY <1>6, <3>1 DEF WriteIR, TypeOK
    <2>. QED
      BY <1>1, <1>6, <2>1, <2>2 DEF WriteIR, TypeOK, cleanVars
  <1>7. CASE CheckClang(b)
    <2>1. pc' \in [Builds -> Early \cup Busy \cup Ended]
      BY <1>7, FailTypes DEF CheckClang, Goto, Busy, TypeOK
    <2>. QED
      BY <1>0, <1>7, <2>1 DEF CheckClang, TypeOK, cleanVars
  <1>8. CASE ClangReads(b)
    <2>1. pc' \in [Builds -> Early \cup Busy \cup Ended]
      BY <1>8, FailTypes DEF ClangReads, Goto, Busy, TypeOK
    <2>. QED
      BY <1>0, <1>8, <2>1 DEF ClangReads, TypeOK, cleanVars
  <1>9. CASE ClangEnds(b)
    <2>1. pc' \in [Builds -> Early \cup Busy \cup Ended]
      BY <1>9, FailTypes DEF ClangEnds, Goto, Ended, TypeOK
    <2>2. files' \in [Paths -> Texts \cup {Torn, NoText}]
      BY <1>0, <1>9 DEF ClangEnds, TypeOK
    <2>. QED
      BY <1>1, <1>9, <2>1, <2>2 DEF ClangEnds, TypeOK, cleanVars
  <1>10. CASE Crash(b)
    BY <1>10, FailTypes DEF Crash, TypeOK, cleanVars
  <1>. QED
    BY <1>2, <1>3, <1>4, <1>5, <1>6, <1>7, <1>8, <1>9, <1>10 DEF Build

THEOREM TypeCorrect == Spec => []TypeOK
  <1>1. Init => TypeOK
    <2>1. Init => job \in [Builds -> Commands]
      BY PipelineAssumption DEF Init
    <2>. QED
      BY <2>1, PipelineAssumption DEF Init, TypeOK, Early
  <1>2. TypeOK /\ [Next]_vars => TypeOK'
    <2> SUFFICES ASSUME TypeOK, [Next]_vars PROVE TypeOK'
      OBVIOUS
    <2>1. ASSUME NEW s \in Sources, Edit(s) PROVE TypeOK'
      <3>1. PICK t \in Texts : source' = [source EXCEPT ![s] = t]
        BY <2>1 DEF Edit
      <3>2. edits + 1 \in 0 .. MaxEdits
        BY <2>1, PipelineAssumption DEF Edit, TypeOK
      <3>. QED
        BY <2>1, <3>1, <3>2 DEF Edit, TypeOK, cleanVars
    <2>2. ASSUME NEW d \in Dirs, BeginClean(d) PROVE TypeOK'
      BY <2>2 DEF BeginClean, TypeOK
    <2>3. ASSUME NEW p \in Paths, RemoveFile(p) PROVE TypeOK'
      <3>1. Disturbed(p, Builds) \subseteq Builds
        BY DEF Disturbed
      <3>2. handle' \in [Builds -> BOOLEAN]
        BY <2>3 DEF RemoveFile, TypeOK
      <3>. QED
        BY <2>3, <3>1, <3>2 DEF RemoveFile, TypeOK
    <2>4. CASE EndClean
      BY <2>4 DEF EndClean, TypeOK
    <2>5. CASE UNCHANGED vars
      BY <2>5 DEF vars, TypeOK
    <2>. QED
      BY <2>1, <2>2, <2>3, <2>4, <2>5, BuildTypes DEF Next
  <1>. QED
    BY <1>1, <1>2, PTL DEF Spec

-----------------------------------------------------------------------------
(* A build that no other process has disturbed. *)

\* From the moment it has written its .ll file that file holds its text, and
\* so does what clang has read; while it writes, its file is the one at the path.
FreshInv(b) ==
  /\ pc[b] \in {"check", "clang", "link"} => job[b].emit # "ll"
  /\ b \notin contested =>
       /\ pc[b] = "write" => handle[b]
       /\ pc[b] \in {"check", "clang", "link"} => files[IRPath(job[b])] = text[b]
       /\ pc[b] = "link" => input[b] = text[b]

Fresh == \A b \in Builds : FreshInv(b)

\* What another process does to the files leaves an undisturbed build alone.
LEMMA OthersKeepFresh ==
  ASSUME TypeOK, NEW b \in Builds, FreshInv(b),
         pc'[b] = pc[b], job'[b] = job[b], text'[b] = text[b], input'[b] = input[b],
         NEW p \in Paths, \A q \in Paths \ {p} : files'[q] = files[q],
         handle'[b] = handle[b] \/ IRPath(job[b]) = p,
         contested \subseteq contested',
         (files' = files /\ handle'[b] = handle[b]) \/ (pc[b] \in Busy /\ IRPath(job[b]) = p => b \in contested')
  PROVE  FreshInv(b)'
  <1>1. IRPath(job[b]) \in Paths /\ IRPath(job[b])' = IRPath(job[b])
    BY PathsOf DEF TypeOK, IRPath
  <1>. QED
    BY <1>1, Places DEF FreshInv

LEMMA BuildKeepsFresh ==
  ASSUME TypeOK, Fresh, NEW b \in Builds, Build(b)
  PROVE  Fresh'
  <1>0. /\ job[b] \in Commands /\ pc[b] \in Early \cup Busy \cup Ended
        /\ IRPath(job[b]) \in Paths /\ Output(job[b]) \in Paths
        /\ pc \in [Builds -> Early \cup Busy \cup Ended]
    BY PathsOf DEF TypeOK
  <1>1. FreshInv(b)
    BY DEF Fresh
  <1>2. ASSUME Fail(b) PROVE FreshInv(b)'
    BY <1>0, <1>2, FailTypes DEF FreshInv
  <1>3. FreshInv(b)'
    <2>1. CASE Refuse(b) \/ Crash(b)
      BY <1>2, <2>1 DEF Refuse, Crash
    <2>2. CASE Compile(b)
      BY <1>0, <1>2, <2>2 DEF Compile, Goto, FreshInv
    <2>3. CASE MakeDir(b)
      BY <1>0, <2>3 DEF MakeDir, Goto, FreshInv
    <2>4. CASE OpenIR(b)
      <3>1. CASE job[b].dir \in dirs
        <4>1. pc'[b] = "write" /\ handle'[b]
          BY <1>0, <2>4, <3>1 DEF OpenIR, Goto, TypeOK
        <4>. QED
          BY <4>1 DEF FreshInv
      <3>. QED
        BY <1>2, <2>4, <3>1 DEF OpenIR
    <2>5. CASE WriteIR(b)
      <3>1. /\ pc'[b] \in {"done", "check"}
            /\ pc'[b] = "check" => job[b].emit # "ll"
            /\ job' = job /\ text' = text /\ contested \subseteq contested'
        BY <1>0, <2>5 DEF WriteIR, Goto
      <3>2. b \notin contested => files'[IRPath(job[b])] = text[b]
        <4> SUFFICES ASSUME b \notin contested PROVE files'[IRPath(job[b])] = text[b]
          OBVIOUS
        <4>1. handle[b] /\ pc[b] = "write"
          BY <1>1, <2>5 DEF FreshInv, WriteIR
        <4>2. files' = [files EXCEPT ![IRPath(job[b])] = text[b]]
          BY <2>5, <4>1 DEF WriteIR
        <4>. QED
          BY <1>0, <4>2 DEF TypeOK
      <3>3. IRPath(job[b])' = IRPath(job[b])
        BY <3>1 DEF IRPath
      <3>4. b \notin contested' => (files[IRPath(job[b])] = text[b])'
        BY <3>1, <3>2, <3>3
      <3>. QED
        BY <3>1, <3>4 DEF FreshInv
    <2>6. CASE CheckClang(b)
      <3>1. CASE Fail(b)
        BY <1>2, <3>1
      <3>2. CASE Goto(b, "clang")
        BY <1>0, <1>1, <2>6, <3>2 DEF CheckClang, Goto, FreshInv, IRPath
      <3>. QED
        BY <2>6, <3>1, <3>2 DEF CheckClang
    <2>7. CASE ClangReads(b)
      <3>1. CASE Fail(b)
        BY <1>2, <3>1
      <3>2. CASE Goto(b, "link") /\ input' = [input EXCEPT ![b] = files[IRPath(job[b])]]
        BY <1>0, <1>1, <2>7, <3>2 DEF ClangReads, Goto, FreshInv, IRPath, TypeOK
      <3>. QED
        BY <2>7, <3>1, <3>2 DEF ClangReads
    <2>8. CASE ClangEnds(b)
      <3>1. pc'[b] \in {"done", "failed", "rejected"}
        BY <1>0, <2>8, FailTypes DEF ClangEnds, Goto
      <3>. QED
        BY <3>1 DEF FreshInv
    <2>. QED
      BY <2>1, <2>2, <2>3, <2>4, <2>5, <2>6, <2>7, <2>8 DEF Build
  <1>4. ASSUME NEW c \in Builds \ {b} PROVE FreshInv(c)'
    <2>0. FreshInv(c) /\ c \in Builds
      BY DEF Fresh
    <2>1. pc'[c] = pc[c] /\ job'[c] = job[c] /\ text'[c] = text[c] /\ input'[c] = input[c]
      BY <1>0, FailTypes DEF Build, Refuse, Compile, MakeDir, OpenIR, WriteIR, CheckClang, ClangReads,
                  ClangEnds, Crash, Goto, TypeOK
    <2>2. handle'[c] = handle[c] /\ contested \subseteq contested'
      BY DEF Build, Refuse, Compile, MakeDir, OpenIR, WriteIR, CheckClang, ClangReads,
             ClangEnds, Crash, TypeOK
    <2>3. CASE files' = files
      BY <1>0, <2>0, <2>1, <2>2, <2>3, OthersKeepFresh
    <2>4. CASE OpenIR(b) \/ WriteIR(b)
      <3>1. \A q \in Paths \ {IRPath(job[b])} : files'[q] = files[q]
        BY <1>0, <2>4 DEF OpenIR, WriteIR, TypeOK
      <3>2. files' = files \/ (pc[c] \in Busy /\ IRPath(job[c]) = IRPath(job[b]) => c \in contested')
        BY <2>4, <1>4 DEF OpenIR, WriteIR, Disturbed
      <3>. QED
        BY <1>0, <2>0, <2>1, <2>2, <3>1, <3>2, OthersKeepFresh
    <2>5. CASE ClangEnds(b)
      <3>1. \A q \in Paths \ {Output(job[b])} : files'[q] = files[q]
        BY <1>0, <2>5 DEF ClangEnds, TypeOK
      <3>2. pc[c] \in Busy /\ IRPath(job[c]) = Output(job[b]) => c \in contested'
        BY <2>5, <1>4 DEF ClangEnds, Disturbed
      <3>. QED
        BY <1>0, <2>0, <2>1, <2>2, <3>1, <3>2, OthersKeepFresh
    <2>. QED
      BY <2>3, <2>4, <2>5 DEF Build, Refuse, Compile, MakeDir, CheckClang, ClangReads, Crash
  <1>. QED
    BY <1>3, <1>4 DEF Fresh

LEMMA FreshHolds == Spec => []Fresh
  <1>1. Init => Fresh
    BY DEF Init, Fresh, FreshInv
  <1>2. TypeOK /\ Fresh /\ [Next]_vars => Fresh'
    <2> SUFFICES ASSUME TypeOK, Fresh, [Next]_vars PROVE Fresh'
      OBVIOUS
    <2>1. CASE UNCHANGED <<files, pc, job, text, handle, input, contested>>
      BY <2>1 DEF Fresh, FreshInv, IRPath
    <2>2. ASSUME NEW p \in Paths, RemoveFile(p) PROVE Fresh'
      <3>1. ASSUME NEW b \in Builds PROVE FreshInv(b)'
        <4>1. /\ pc' = pc /\ job' = job /\ text' = text /\ input' = input
              /\ contested \subseteq contested'
              /\ \A q \in Paths \ {p} : files'[q] = files[q]
              /\ handle'[b] = handle[b] \/ IRPath(job[b]) = p
          BY <2>2, <3>1 DEF RemoveFile, TypeOK
        <4>2. \/ files' = files /\ handle'[b] = handle[b]
              \/ pc[b] \in Busy /\ IRPath(job[b]) = p => b \in contested'
          BY <2>2 DEF RemoveFile, Disturbed
        <4>3. FreshInv(b)
          BY DEF Fresh
        <4>. QED
          BY <4>1, <4>2, <4>3, OthersKeepFresh
      <3>. QED
        BY <3>1 DEF Fresh
    <2>. QED
      BY <2>1, <2>2, BuildKeepsFresh DEF Next, Edit, BeginClean, EndClean, vars
  <1>. QED
    BY <1>1, <1>2, TypeCorrect, PTL DEF Spec

\* A build that ends well and undisturbed has made its artifact of the text it read.
THEOREM FreshArtifacts == Spec => ArtifactsAreFresh
  <1>1. ASSUME TypeOK, Fresh, [Next]_vars, NEW b \in Builds,
               pc[b] # "done", pc'[b] = "done", b \notin contested
        PROVE  files'[Artifact(job[b])] = text[b]
    <2>0. /\ pc \in [Builds -> Early \cup Busy \cup Ended]
          /\ IRPath(job[b]) \in Paths /\ Output(job[b]) \in Paths /\ FreshInv(b)
      BY <1>1, PathsOf DEF TypeOK, Fresh
    <2>1. WriteIR(b) \/ ClangEnds(b)
      <3>1. PICK c \in Builds : Build(c)
        BY <1>1 DEF Next, Edit, BeginClean, RemoveFile, EndClean, vars
      <3>2. c = b
        BY <1>1, <2>0, <3>1, FailTypes DEF Build, Refuse, Compile, MakeDir, OpenIR, WriteIR, CheckClang, ClangReads,
                  ClangEnds, Crash, Goto
      <3>3. ~Fail(b)
        BY <1>1, <2>0, FailTypes
      <3>. QED
        BY <1>1, <2>0, <3>1, <3>2, <3>3 DEF Build, Refuse, Compile, MakeDir, OpenIR, CheckClang, ClangReads, Crash, Goto
    <2>2. CASE WriteIR(b)
      <3>1. job[b].emit = "ll" /\ handle[b]
        BY <1>1, <2>0, <2>2 DEF WriteIR, Goto, FreshInv
      <3>2. files' = [files EXCEPT ![IRPath(job[b])] = text[b]]
        BY <1>1, <2>2, <3>1 DEF WriteIR
      <3>. QED
        BY <1>1, <2>0, <3>1, <3>2 DEF Artifact, TypeOK
    <2>3. CASE ClangEnds(b)
      <3>1. ~Fail(b)
        BY <1>1, <2>0, FailTypes
      <3>2. files' = [files EXCEPT ![Output(job[b])] = input[b]] /\ pc[b] = "link"
        BY <2>3, <3>1 DEF ClangEnds
      <3>3. job[b].emit # "ll" /\ input[b] = text[b]
        BY <1>1, <2>0, <3>2 DEF FreshInv
      <3>. QED
        BY <1>1, <2>0, <3>2, <3>3 DEF Artifact, TypeOK
    <2>. QED
      BY <2>1, <2>2, <2>3
  <1>2. TypeOK /\ Fresh /\ [Next]_vars =>
          [\A b \in Builds : pc[b] # "done" /\ pc'[b] = "done" /\ b \notin contested =>
             files'[Artifact(job[b])] = text[b]]_vars
    BY <1>1
  <1>. QED
    BY <1>2, TypeCorrect, FreshHolds, PTL DEF Spec, ArtifactsAreFresh

-----------------------------------------------------------------------------
(* Directories in which all builds ended well. *)

\* clean removes files of its directory only, and has not ended before it ends.
Listing ==
  /\ \A p \in listed : p[1] = cleaning
  /\ cleaning # NoDir => cleanEnd = "none"

LEMMA ListingHolds == Spec => []Listing
  <1>1. Init => Listing
    BY DEF Init, Listing
  <1>2. Listing /\ [Next]_vars => Listing'
    BY DEF Listing, Next, vars, cleanVars, Build, Refuse, Compile, MakeDir, OpenIR, WriteIR, CheckClang,
           ClangReads, ClangEnds, Crash, Edit, BeginClean, RemoveFile, EndClean
  <1>. QED
    BY <1>1, <1>2, PTL DEF Spec

Pair(d, stem) == {<<d, stem, "ll">>, <<d, stem, "so">>}
Agree(d, stem) == files[<<d, stem, "so">>] = files[<<d, stem, "ll">>]
Touches(b, d, stem) == {IRPath(job[b]), Output(job[b])} \cap Pair(d, stem) # {}

LEMMA BuildKeepsAgreement ==
  ASSUME TypeOK, Fresh, QuietDirectoriesAgree, NEW b \in Builds, Build(b),
         NEW d \in Dirs, NEW stem \in Stems, Quiet(d, stem)'
  PROVE  Agree(d, stem)'
  <1>0. /\ job[b] \in Commands /\ pc[b] \in Early \cup Busy \cup Ended
        /\ IRPath(job[b]) \in Paths /\ Output(job[b]) \in Paths
        /\ pc \in [Builds -> Early \cup Busy \cup Ended] /\ FreshInv(b)
        /\ <<d, stem, "so">> \in Paths /\ <<d, stem, "ll">> \in Paths
    BY PathsOf DEF TypeOK, Fresh, Paths
  <1>1. /\ cleaning' = cleaning /\ cleanEnd' = cleanEnd
        /\ contested \subseteq contested'
        /\ \A c \in Builds \ {b} : pc'[c] = pc[c] /\ job'[c] = job[c]
    BY <1>0, FailTypes DEF Build, Refuse, Compile, MakeDir, OpenIR, WriteIR, CheckClang, ClangReads,
                ClangEnds, Crash, Goto, TypeOK, cleanVars
  \* A step that leaves the pair alone, of a build that leaves it alone or has not begun with it.
  <1>2. ASSUME \/ pc[b] \in Early \cup {"rejected"}
               \/ Settled(b)
               \/ ~Touches(b, d, stem),
               \A p \in Pair(d, stem) : files'[p] = files[p]
        PROVE  Agree(d, stem)'
    <2>1. Quiet(d, stem)
      <3>1. ASSUME NEW c \in Builds \ {b}
            PROVE  \/ pc[c] \in Early \cup {"rejected"}
                   \/ Settled(c)
                   \/ {IRPath(job[c]), Output(job[c])} \cap {<<d, stem, "ll">>, <<d, stem, "so">>} = {}
        BY <1>1, <3>1 DEF Quiet, Settled, IRPath, Output, DefaultOutput
      <3>2. cleaning # d /\ cleanEnd # "failed"
        BY <1>1 DEF Quiet
      <3>. QED
        BY <1>2, <3>1, <3>2 DEF Quiet, Touches, Pair
    <2>. QED
      BY <1>2, <2>1 DEF QuietDirectoriesAgree, Agree, Pair
  <1>3. CASE pc[b] = "begin"
    <2>1. files' = files /\ pc[b] \in Early
      BY <1>0, <1>3 DEF Build, Refuse, Compile, MakeDir, OpenIR, WriteIR, CheckClang, ClangReads,
                  ClangEnds, Crash, Early
    <2>. QED
      BY <1>2, <2>1
  <1>4. CASE pc[b] # "begin" /\ ~Touches(b, d, stem)
    <2>1. \A p \in Pair(d, stem) : files'[p] = files[p]
      <3>0. /\ files \in [Paths -> Texts \cup {Torn, NoText}] /\ Pair(d, stem) \subseteq Paths
            /\ IRPath(job[b]) \notin Pair(d, stem) /\ Output(job[b]) \notin Pair(d, stem)
        BY <1>0, <1>4 DEF Touches, Pair, TypeOK
      <3>1. CASE OpenIR(b) \/ WriteIR(b)
        BY <3>0, <3>1 DEF OpenIR, WriteIR
      <3>2. CASE ClangEnds(b)
        BY <3>0, <3>2 DEF ClangEnds
      <3>3. CASE files' = files
        BY <3>3
      <3>. QED
        BY <3>1, <3>2, <3>3 DEF Build, Refuse, Compile, MakeDir, CheckClang, ClangReads, Crash
    <2>. QED
      BY <1>2, <1>4, <2>1
  <1>5. CASE pc[b] # "begin" /\ Touches(b, d, stem)
    <2>1. job'[b] = job[b] /\ Touches(b, d, stem)'
      BY <1>5 DEF Build, Refuse, Compile, MakeDir, OpenIR, WriteIR, CheckClang, ClangReads,
                  ClangEnds, Crash, Touches, IRPath, Output, DefaultOutput
    <2>2. pc'[b] \in Early \cup {"rejected"} \/ Settled(b)'
      BY <2>1 DEF Quiet, Touches, Pair
    <2>3. CASE pc[b] \in Early
      <3>1. files' = files
        <4>1. ~OpenIR(b) \/ files' = files
          BY <1>0, <2>2, <2>3 DEF OpenIR, Goto, Early, Settled
        <4>. QED
          BY <2>3, <4>1 DEF Build, Refuse, Compile, MakeDir, WriteIR, CheckClang, ClangReads,
                  ClangEnds, Crash, Early
      <3>. QED
        BY <1>2, <2>3, <3>1
    <2>4. CASE pc[b] \in Busy
      <3>1. pc'[b] = "done" /\ Settled(b)'
        <4>1. pc'[b] \notin Early \cup {"rejected"}
          BY <1>0, <1>5, <2>4, FailTypes DEF Build, Refuse, Compile, MakeDir, OpenIR, WriteIR, CheckClang,
                  ClangReads, ClangEnds, Crash, Goto, Early, Busy
        <4>. QED
          BY <2>2, <4>1 DEF Settled
      <3>2. job[b].emit = "so" /\ job[b].output = NoOutput /\ b \notin contested
        BY <1>1, <2>1, <3>1 DEF Settled
      <3>3. ~Fail(b)
        BY <1>0, <3>1, FailTypes
      <3>4. ClangEnds(b)
        BY <1>0, <1>5, <2>4, <3>1, <3>2, <3>3 DEF Build, Refuse, Compile, MakeDir, OpenIR, WriteIR, CheckClang,
                  ClangReads, Crash, Goto, Early, Busy
      <3>5. files' = [files EXCEPT ![Output(job[b])] = input[b]] /\ pc[b] = "link"
        BY <3>3, <3>4 DEF ClangEnds
      <3>6. input[b] = text[b] /\ files[IRPath(job[b])] = text[b]
        BY <1>0, <3>2, <3>5 DEF FreshInv
      <3>7. PICK dd \in Dirs, ss \in Stems :
              IRPath(job[b]) = <<dd, ss, "ll">> /\ Output(job[b]) = <<dd, ss, "so">>
        BY <1>0, <3>2, PathsOf DEF IRPath, Output, DefaultOutput, Paths
      <3>8. dd = d /\ ss = stem
        BY <1>5, <3>7 DEF Touches, Pair
      <3>. QED
        BY <1>0, <3>5, <3>6, <3>7, <3>8 DEF Agree, TypeOK
    <2>5. CASE pc[b] \in Ended
      BY <2>5 DEF Build, Refuse, Compile, MakeDir, OpenIR, WriteIR, CheckClang, ClangReads,
             ClangEnds, Crash, Ended
    <2>. QED
      BY <1>0, <2>3, <2>4, <2>5
  <1>. QED
    BY <1>3, <1>4, <1>5

LEMMA CleanKeepsAgreement ==
  ASSUME TypeOK, QuietDirectoriesAgree, Listing,
         (\E p \in Paths : RemoveFile(p)) \/ EndClean \/ (\E e \in Dirs : BeginClean(e)),
         NEW d \in Dirs, NEW stem \in Stems, Quiet(d, stem)'
  PROVE  Agree(d, stem)'
  <1>0. d # NoDir /\ <<d, stem, "so">> \in Paths /\ <<d, stem, "ll">> \in Paths
    BY PipelineAssumption DEF Paths
  <1>1. ASSUME cleaning # d, cleanEnd # "failed", pc' = pc, job' = job, contested \subseteq contested'
        PROVE  Quiet(d, stem)
    BY <1>1 DEF Quiet, Settled, IRPath, Output, DefaultOutput
  <1>2. ASSUME NEW e \in Dirs, BeginClean(e) PROVE Agree(d, stem)'
    <2>1. Quiet(d, stem)
      BY <1>0, <1>1, <1>2 DEF BeginClean
    <2>. QED
      BY <1>2, <2>1 DEF BeginClean, QuietDirectoriesAgree, Agree
  <1>3. ASSUME NEW p \in Paths, RemoveFile(p) PROVE Agree(d, stem)'
    <2>1. /\ files' = [files EXCEPT ![p] = NoText] /\ cleaning' = cleaning /\ cleanEnd' = cleanEnd
          /\ p[1] = cleaning
      BY <1>3 DEF RemoveFile, Quiet, Listing
    <2>2. Quiet(d, stem)
      <3>1. cleaning # d /\ cleanEnd # "failed"
        BY <2>1 DEF Quiet
      <3>2. pc' = pc /\ job' = job /\ contested \subseteq contested'
        BY <1>3 DEF RemoveFile
      <3>. QED
        BY <1>1, <3>1, <3>2
    <2>3. p # <<d, stem, "so">> /\ p # <<d, stem, "ll">>
      BY <2>1 DEF Quiet
    <2>. QED
      BY <1>0, <2>1, <2>2, <2>3 DEF QuietDirectoriesAgree, Agree, TypeOK
  <1>4. CASE EndClean
    <2>1. files' = files /\ cleanEnd' # "failed"
      BY <1>4 DEF EndClean, Quiet
    <2>2. CASE cleaning = d
      BY <1>0, <1>4, <2>1, <2>2 DEF EndClean, Agree
    <2>3. CASE cleaning # d
      <3>1. Quiet(d, stem)
        BY <1>1, <1>4, <2>3 DEF EndClean, Listing
      <3>. QED
        BY <2>1, <3>1 DEF QuietDirectoriesAgree, Agree
    <2>. QED
      BY <2>2, <2>3
  <1>. QED
    BY <1>2, <1>3, <1>4

\* The .ll file and the library of a stem agree while all builds of them ended well.
THEOREM QuietFilesAgree == Spec => []QuietDirectoriesAgree
  <1>1. Init => QuietDirectoriesAgree
    BY DEF Init, QuietDirectoriesAgree, Paths
  <1>2. TypeOK /\ Fresh /\ Listing /\ QuietDirectoriesAgree /\ [Next]_vars => QuietDirectoriesAgree'
    <2> SUFFICES ASSUME TypeOK, Fresh, Listing, QuietDirectoriesAgree, [Next]_vars,
                        NEW d \in Dirs, NEW stem \in Stems, Quiet(d, stem)'
                 PROVE  Agree(d, stem)'
      BY DEF QuietDirectoriesAgree, Agree
    <2>1. CASE UNCHANGED <<files, pc, job, contested, cleaning, cleanEnd>>
      BY <2>1 DEF Quiet, Settled, IRPath, Output, DefaultOutput, QuietDirectoriesAgree, Agree
    <2>. QED
      BY <2>1, BuildKeepsAgreement, CleanKeepsAgreement DEF Next, Edit, cleanVars, vars
  <1>. QED
    BY <1>1, <1>2, TypeCorrect, FreshHolds, ListingHolds, PTL DEF Spec

-----------------------------------------------------------------------------
(* The texts that builds have read are texts. *)

LEMMA TextsAreRead == TypeOK => ReadTexts \subseteq Texts
  BY DEF TypeOK, ReadTexts

-----------------------------------------------------------------------------
(* The two readings of an annotation. *)

\* An annotation that is no alias stands for what the front end reads.
LEMMA ObjectsAgree ==
  ASSUME NEW ann, IsBuffer(ann) => ann.exact, ann.form = "plain",
         ann.object \in {Spelled(ann), Unknown}
  PROVE  /\ OfObject(ann.object) # Raises =>
              /\ OfObject(ann.object) = TypeName(ann)
              /\ IsScalar(ann) \/ IsBuffer(ann)
         /\ IsNone(ann.object) => TypeName(ann) = "void" /\ (IsScalar(ann) \/ IsBuffer(ann))
  <1>1. OfObject(Unknown) = Raises /\ ~IsNone(Unknown)
    BY DEF Unknown, OfObject, IsNone, TypeObject
  <1>2. ASSUME NEW typ
        PROVE  /\ OfObject(TypeObject(typ)) # Raises => OfObject(TypeObject(typ)) = typ
               /\ IsNone(TypeObject(typ)) => typ = "void"
    <2>1. TypeObject(typ).is = "type" /\ TypeObject(typ).typ = typ /\ TypeObject("void").typ = "void"
      BY DEF TypeObject
    <2>. QED
      BY <2>1 DEF OfObject, IsNone
  <1>3. CASE IsScalar(ann)
    <2>1. ~IsBuffer(ann)
      BY <1>3 DEF IsScalar, IsBuffer
    <2>2. Spelled(ann) = TypeObject(ScalarOf(ann.word))
      BY <1>3, <2>1 DEF Spelled
    <2>3. TypeName(ann) = ScalarOf(ann.word)
      BY <1>3, <2>1 DEF TypeName
    <2>. QED
      BY <1>1, <1>2, <1>3, <2>2, <2>3
  <1>4. CASE ~IsScalar(ann) /\ IsBuffer(ann) /\ ann.elem \in ElementNames
    <2>1. Spelled(ann) = TypeObject(Ptr(ann.elem))
      BY <1>4 DEF Spelled
    <2>2. TypeName(ann) = Ptr(ann.elem)
      BY <1>4 DEF TypeName, ElementNames, ScalarNames
    <2>. QED
      BY <1>1, <1>2, <1>4, <2>1, <2>2
  <1>5. CASE ~IsScalar(ann) /\ ~(IsBuffer(ann) /\ ann.elem \in ElementNames)
    <2>1. Spelled(ann) = Unknown
      BY <1>5 DEF Spelled
    <2>. QED
      BY <1>1, <2>1
  <1>. QED
    BY <1>3, <1>4, <1>5

\* Text that is read as a type is read as the front end reads it.
LEMMA TextsAgree ==
  ASSUME NEW ann, NEW future, NEW classes, ReadAlike(ann, future, classes),
         ann.form \in {"plain", "quoted"}
  PROVE  /\ OfObject(Text(ann)) # Raises => OfObject(Text(ann)) = SignatureType(ann, classes)
         /\ IsNone(Text(ann)) => SignatureType(ann, classes) = "void"
  <1>1. ASSUME IsScalar(ann), ann.form = "plain" \/ ann.qual = ""
        PROVE  SignatureType(ann, classes) = ScalarOf(ann.word)
    BY <1>1 DEF SignatureType, TypeName, ReadAlike, IsScalar, IsBuffer
  <1>2. ASSUME IsBuffer(ann), ann.elem \in ElementNames
        PROVE  SignatureType(ann, classes) = Ptr(ann.elem)
    BY <1>2 DEF SignatureType, TypeName, ReadAlike, IsScalar, IsBuffer, ElementNames, ScalarNames, ScalarOf
  <1>3. ASSUME ScalarOfText(ann) # Raises
        PROVE  ScalarOfText(ann) = SignatureType(ann, classes)
    BY <1>1, <1>3 DEF ScalarOfText, IsScalar, ElementNames, ScalarNames, ScalarOf, ReadAlike
  <1>4. ASSUME BufferOfText(ann) # Raises
        PROVE  BufferOfText(ann) = SignatureType(ann, classes)
    BY <1>2, <1>4 DEF BufferOfText
  <1>5. OfObject(Text(ann)) = OfText(ann)
    BY DEF OfObject, Text
  <1>6. ASSUME IsNone(Text(ann))
        PROVE  SignatureType(ann, classes) = "void"
    <2>1. Text(ann).is = "text" /\ Text(ann).text = ann /\ TypeObject("void").is = "type"
      BY DEF Text, TypeObject
    <2>2. ann.word \in {"None", "void"} /\ ann.qual = "" /\ ann.elem = ""
      BY <1>6, <2>1 DEF IsNone
    <2>3. IsScalar(ann) /\ ScalarOf(ann.word) = "void"
      BY <2>2 DEF IsScalar, ScalarNames, ScalarOf
    <2>. QED
      BY <1>1, <2>2, <2>3
  <1>. QED
    BY <1>3, <1>4, <1>5, <1>6 DEF OfText

\* What the run-time library does not refuse, it reads as the front end does.
LEMMA AnnotationsAgree ==
  ASSUME NEW ann, NEW future, NEW classes, ReadAlike(ann, future, classes)
  PROVE  /\ BoundType(ann, future) # Raises => BoundType(ann, future) = SignatureType(ann, classes)
         /\ BoundReturn(ann, future) # Raises => BoundReturn(ann, future) = SignatureType(ann, classes)
  <1> DEFINE object == Evaluated(ann, future)
  <1> SUFFICES /\ OfObject(object) # Raises => OfObject(object) = SignatureType(ann, classes)
               /\ IsNone(object) => SignatureType(ann, classes) = "void"
    BY DEF BoundType, BoundReturn
  <1>1. CASE (ann.form = "plain" /\ future) \/ (ann.form = "quoted" /\ ~future)
    <2>1. object = Text(ann)
      BY <1>1 DEF Evaluated
    <2>. QED
      BY <1>1, <2>1, TextsAgree
  <1>2. CASE ann.form = "plain" /\ ~future
    <2>1. object = ann.object
      BY <1>2 DEF Evaluated
    <2>2. ann.object \in {Spelled(ann), Unknown}
      BY <1>2 DEF ReadAlike
    <2>3. IsBuffer(ann) => ann.exact
      BY DEF ReadAlike
    <2>4. IsScalar(ann) \/ IsBuffer(ann) => SignatureType(ann, classes) = TypeName(ann)
      BY DEF SignatureType, ReadAlike, IsScalar, IsBuffer
    <2>5. /\ OfObject(ann.object) # Raises =>
               OfObject(ann.object) = TypeName(ann) /\ (IsScalar(ann) \/ IsBuffer(ann))
          /\ IsNone(ann.object) => TypeName(ann) = "void" /\ (IsScalar(ann) \/ IsBuffer(ann))
      BY <1>2, <2>2, <2>3, ObjectsAgree
    <2>. QED
      BY <2>1, <2>4, <2>5
  <1>3. CASE ann.form # "plain" /\ ~(ann.form = "quoted" /\ ~future)
    <2>1. object = Unknown
      BY <1>3 DEF Evaluated
    <2>2. OfObject(Unknown) = Raises /\ ~IsNone(Unknown)
      BY DEF Unknown, OfObject, IsNone, TypeObject
    <2>. QED
      BY <2>1, <2>2
  <1>. QED
    BY <1>1, <1>2, <1>3

-----------------------------------------------------------------------------
(* What the front end makes of a module. *)

LEMMA NamedFacts ==
  ASSUME NEW defs, NEW S, NEW i \in S
  PROVE  /\ Named(defs, S, defs[i].name) \in S
         /\ defs[Named(defs, S, defs[i].name)].name = defs[i].name
         /\ NamedOnce(defs, S) => Named(defs, S, defs[i].name) = i
  BY DEF Named, NamedOnce

\* A module that compiles: each definition is found under its name.
LEMMA LoweredFacts ==
  ASSUME NEW defs, LowerModule(defs).ok
  PROVE  /\ Collected(defs)
         /\ DOMAIN LowerModule(defs).structs = NamesOfDefs(defs, Structs(defs))
         /\ \A i \in Structs(defs) :
              LowerModule(defs).structs[defs[i].name] = StructLayout(FieldsOf(defs[i]))
         /\ \A i \in Functions(defs) :
              LowerModule(defs).sigs[defs[i].name] =
                Signature(defs[i], NamesOfDefs(defs, Structs(defs)))
  <1> DEFINE m == LowerModule(defs)
  <1>1. Collected(defs) /\ LowersBodies(defs, SignaturesOf(defs))
    BY DEF LowerModule, NotLowered
  <1>2. m.structs = LayoutsOf(defs) /\ m.sigs = SignaturesOf(defs)
    BY <1>1 DEF LowerModule
  <1>. HIDE DEF m
  <1>3. NamedOnce(defs, Structs(defs)) /\ NamedOnce(defs, Functions(defs))
    BY <1>1 DEF Collected
  <1>4. ASSUME NEW i \in Structs(defs)
        PROVE  m.structs[defs[i].name] = StructLayout(FieldsOf(defs[i]))
    <2>1. defs[i].name \in NamesOfDefs(defs, Structs(defs))
      BY DEF NamesOfDefs
    <2>2. Named(defs, Structs(defs), defs[i].name) = i
      BY <1>3, NamedFacts
    <2>. QED
      BY <1>2, <2>1, <2>2 DEF LayoutsOf
  <1>5. ASSUME NEW i \in Functions(defs)
        PROVE  m.sigs[defs[i].name] = Signature(defs[i], NamesOfDefs(defs, Structs(defs)))
    <2>1. defs[i].name \in NamesOfDefs(defs, Functions(defs))
      BY DEF NamesOfDefs
    <2>2. Named(defs, Functions(defs), defs[i].name) = i
      BY <1>3, NamedFacts
    <2>. QED
      BY <1>2, <2>1, <2>2 DEF SignaturesOf, StructNames
  <1>6. DOMAIN m.structs = NamesOfDefs(defs, Structs(defs))
    BY <1>2 DEF LayoutsOf
  <1>. QED
    BY <1>1, <1>4, <1>5, <1>6 DEF m

\* For every source module, with every annotation and whatever it stands for: a
\* function with ordinary parameters, which the run-time library binds, is bound
\* with the types it was compiled for.
THEOREM FunctionsAreBoundAsCompiled == Spec => []NativeTypesAgree
  <1>1. ASSUME NEW t \in Texts PROVE BoundAsCompiled[t]
    <2> DEFINE defs == Source[t].defs
               future == Source[t].future
               m == Lowered[t]
               classes == NamesOfDefs(defs, Structs(defs))
    <2>1. m = LowerModule(defs)
      BY DEF Lowered
    <2> SUFFICES ASSUME m.ok, NEW def \in DefsOf(t), Ordinary(def)
                 PROVE  LET sig == m.sigs[def.name]
                            binding == Binding(def, future)
                            Agrees(ann, bound, compiled) ==
                              ReadAlike(ann, future, DOMAIN m.structs) /\ bound # Raises => bound = compiled
                        IN  /\ Len(binding.args) = Len(sig.args)
                            /\ \A i \in 1 .. Len(sig.args) :
                                 Agrees(def.params[i], binding.args[i], sig.args[i])
                            /\ Agrees(def.ret, binding.ret, sig.ret)
      BY DEF BoundAsCompiled
    <2>. HIDE DEF m
    <2>2. PICK f \in DOMAIN defs : def = defs[f]
      BY DEF DefsOf, ToSet
    <2>3. f \in Functions(defs)
      BY <2>2 DEF Functions, Ordinary
    <2>. HIDE DEF defs, future
    <2>4. m.sigs[def.name] = Signature(def, classes) /\ DOMAIN m.structs = classes
      BY <2>1, <2>2, <2>3, LoweredFacts
    <2>. HIDE DEF classes
    <2> DEFINE n == Len(def.params)
               sig == Signature(def, classes)
               bound == Binding(def, future)
               Agrees(ann, b, c) == ReadAlike(ann, future, classes) /\ b # Raises => b = c
    <2>5. def.params \in Seq(ToSet(def.params))
      BY <2>2, SourceAssumption DEF defs, DefsOf, IsFunction, Ordinary
    <2>6. n \in Nat
      BY <2>5
    <2>7. sig.ret = SignatureType(def.ret, classes)
      BY DEF Signature
    <2>8. sig.args = [i \in 1 .. n |-> SignatureType(def.params[i], classes)]
      BY DEF Signature
    <2>9. BoundParams(def) = def.params
      BY <2>5 DEF BoundParams, Ordinary
    <2>10. bound.ret = BoundReturn(def.ret, future)
      BY DEF Binding
    <2>11. bound.args = [i \in 1 .. n |-> BoundType(def.params[i], future)]
      BY <2>9 DEF Binding
    <2>. HIDE DEF n, sig, bound, Agrees
    <2>12. Len(bound.args) = n /\ Len(sig.args) = n
      BY <2>6, <2>8, <2>11
    <2>13. ASSUME NEW i \in 1 .. n
           PROVE  Agrees(def.params[i], bound.args[i], sig.args[i])
      <3>1. bound.args[i] = BoundType(def.params[i], future)
        BY <2>11
      <3>2. sig.args[i] = SignatureType(def.params[i], classes)
        BY <2>8
      <3>. QED
        BY <3>1, <3>2, AnnotationsAgree DEF Agrees
    <2>14. Agrees(def.ret, bound.ret, sig.ret)
      BY <2>7, <2>10, AnnotationsAgree DEF Agrees
    <2>15. m.sigs[def.name] = sig
      BY <2>4 DEF sig
    <2>16. /\ Len(bound.args) = Len(sig.args)
           /\ \A i \in 1 .. Len(sig.args) : Agrees(def.params[i], bound.args[i], sig.args[i])
           /\ Agrees(def.ret, bound.ret, sig.ret)
      BY <2>12, <2>13, <2>14
    <2>. QED
      BY <2>4, <2>15, <2>16 DEF bound, Agrees
  <1>2. TypeOK => NativeTypesAgree
    BY <1>1, TextsAreRead DEF NativeTypesAgree
  <1>. QED
    BY <1>2, TypeCorrect, PTL

-----------------------------------------------------------------------------
(* The order of definitions. *)

\* es has the definitions of ds, exchanged in pairs by p.
Rearranges(p, ds, es) ==
  /\ DOMAIN es = DOMAIN ds
  /\ \A k \in DOMAIN ds : p[k] \in DOMAIN ds /\ p[p[k]] = k /\ es[k] = ds[p[k]]

LEMMA RearrangedBack ==
  ASSUME NEW p, NEW ds, NEW es, Rearranges(p, ds, es)
  PROVE  Rearranges(p, es, ds)
  BY DEF Rearranges

\* The structs, or the functions, of both: Sd and Se are the places of either.
Moved(p, Sd, Se, ds, es) ==
  /\ \A k \in Sd : p[k] \in Se /\ p[p[k]] = k /\ ds[k] = es[p[k]]
  /\ \A k \in Se : p[k] \in Sd /\ p[p[k]] = k /\ es[k] = ds[p[k]]

LEMMA KindsMove ==
  ASSUME NEW p, NEW ds, NEW es, Rearranges(p, ds, es)
  PROVE  /\ Moved(p, Structs(ds), Structs(es), ds, es)
         /\ Moved(p, Functions(ds), Functions(es), ds, es)
  BY DEF Rearranges, Moved, Structs, Functions

LEMMA NamesMove ==
  ASSUME NEW p, NEW Sd, NEW Se, NEW ds, NEW es, Moved(p, Sd, Se, ds, es)
  PROVE  /\ NamesOfDefs(es, Se) = NamesOfDefs(ds, Sd)
         /\ NamedOnce(ds, Sd) => NamedOnce(es, Se)
         /\ NamedOnce(ds, Sd) => \A n \in NamesOfDefs(ds, Sd) :
              /\ Named(ds, Sd, n) \in Sd
              /\ es[Named(es, Se, n)] = ds[Named(ds, Sd, n)]
  <1>1. NamesOfDefs(es, Se) = NamesOfDefs(ds, Sd)
    BY DEF NamesOfDefs, Moved
  <1>2. ASSUME NamedOnce(ds, Sd) PROVE NamedOnce(es, Se)
    <2> SUFFICES ASSUME NEW i \in Se, NEW j \in Se, es[i].name = es[j].name PROVE i = j
      BY DEF NamedOnce
    <2>1. /\ p[i] \in Sd /\ p[j] \in Sd /\ ds[p[i]].name = ds[p[j]].name
          /\ p[p[i]] = i /\ p[p[j]] = j
      BY DEF Moved
    <2>2. p[i] = p[j]
      BY <1>2, <2>1 DEF NamedOnce
    <2>. QED
      BY <2>1, <2>2
  <1>3. ASSUME NamedOnce(ds, Sd), NEW n \in NamesOfDefs(ds, Sd)
        PROVE  /\ Named(ds, Sd, n) \in Sd
               /\ es[Named(es, Se, n)] = ds[Named(ds, Sd, n)]
    <2>1. PICK i \in Sd : ds[i].name = n
      BY DEF NamesOfDefs
    <2>2. p[i] \in Se /\ ds[i] = es[p[i]]
      BY DEF Moved
    <2>3. Named(ds, Sd, n) = i
      BY <1>3, <2>1, NamedFacts
    <2>4. Named(es, Se, n) = p[i]
      BY <1>2, <1>3, <2>1, <2>2, NamedFacts
    <2>. QED
      BY <2>2, <2>3, <2>4
  <1>. QED
    BY <1>1, <1>2, <1>3

LEMMA CollectedMoves ==
  ASSUME NEW p, NEW ds, NEW es, Rearranges(p, ds, es), Collected(ds)
  PROVE  Collected(es) /\ LayoutsOf(es) = LayoutsOf(ds) /\ SignaturesOf(es) = SignaturesOf(ds)
  <1> DEFINE SD == Structs(ds)
             SE == Structs(es)
             FD == Functions(ds)
             FE == Functions(es)
             names == NamesOfDefs(ds, SD)
  <1>1. Moved(p, SD, SE, ds, es) /\ Moved(p, FD, FE, ds, es)
    BY KindsMove
  <1>2. /\ \A i \in SD : ExtractsStruct(ds[i])
        /\ NamedOnce(ds, SD)
        /\ \A i \in FD : ExtractsSignature(ds[i], names)
        /\ NamedOnce(ds, FD)
        /\ FD # {}
    BY DEF Collected, StructNames
  <1>. HIDE DEF SD, SE, FD, FE
  <1>3. NamesOfDefs(es, SE) = names /\ NamedOnce(es, SE) /\ NamedOnce(es, FE)
        /\ NamesOfDefs(es, FE) = NamesOfDefs(ds, FD)
    BY <1>1, <1>2, NamesMove
  <1>4. \A i \in SE : ExtractsStruct(es[i])
    BY <1>1, <1>2 DEF Moved
  <1>5. \A i \in FE : ExtractsSignature(es[i], names)
    BY <1>1, <1>2 DEF Moved
  <1>6. FE # {}
    BY <1>1, <1>2 DEF Moved
  <1>7. \A n \in names : es[Named(es, SE, n)] = ds[Named(ds, SD, n)]
    BY <1>1, <1>2, NamesMove
  <1>8. \A n \in NamesOfDefs(ds, FD) : es[Named(es, FE, n)] = ds[Named(ds, FD, n)]
    BY <1>1, <1>2, NamesMove
  <1>9. LayoutsOf(es) = LayoutsOf(ds)
    BY <1>3, <1>7 DEF LayoutsOf, SD, SE
  <1>10. SignaturesOf(es) = SignaturesOf(ds)
    BY <1>3, <1>8 DEF SignaturesOf, StructNames, SD, SE, FD, FE
  <1>11. Collected(es)
    BY <1>3, <1>4, <1>5, <1>6 DEF Collected, StructNames, SD, SE, FD, FE
  <1>. QED
    BY <1>9, <1>10, <1>11

LEMMA ModuleMoves ==
  ASSUME NEW p, NEW ds, NEW es, Rearranges(p, ds, es)
  PROVE  LowerModule(es) = LowerModule(ds)
  <1>1. Rearranges(p, es, ds)
    BY RearrangedBack
  <1>2. Collected(es) <=> Collected(ds)
    BY <1>1, CollectedMoves
  <1>3. Moved(p, Functions(ds), Functions(es), ds, es)
    BY KindsMove
  <1>4. \A sigs : LowersBodies(es, sigs) <=> LowersBodies(ds, sigs)
    BY <1>3 DEF LowersBodies, Moved
  <1>5. CASE Collected(ds)
    <2>1. LayoutsOf(es) = LayoutsOf(ds) /\ SignaturesOf(es) = SignaturesOf(ds)
      BY <1>5, CollectedMoves
    <2>. QED
      BY <1>2, <1>4, <1>5, <2>1 DEF LowerModule
  <1>6. CASE ~Collected(ds)
    BY <1>2, <1>6 DEF LowerModule
  <1>. QED
    BY <1>5, <1>6

\* For every source module: exchanging any two of its definitions changes nothing
\* of what the front end makes of it. (Every order is reached by exchanges.)
THEOREM DefinitionsComeInAnyOrder == Spec => []OrderDoesNotMatter
  <1>1. ASSUME NEW t \in Texts PROVE OrderFree[t]
    <2> DEFINE ds == Source[t].defs
    <2>1. Lowered[t] = LowerModule(ds)
      BY DEF Lowered
    <2>2. ds \in Seq(ToSet(ds))
      BY SourceAssumption
    <2> SUFFICES ASSUME NEW i \in 1 .. Len(ds), NEW j \in 1 .. Len(ds), i < j
                 PROVE  LowerModule(Exchanged(ds, i, j)) = LowerModule(ds)
      BY <2>1 DEF OrderFree
    <2>. HIDE DEF ds
    <2> DEFINE es == Exchanged(ds, i, j)
               p == [k \in DOMAIN ds |-> IF k = i THEN j ELSE IF k = j THEN i ELSE k]
    <2>3. DOMAIN ds = 1 .. Len(ds)
      BY <2>2
    <2>4. DOMAIN es = DOMAIN ds /\ \A k \in DOMAIN ds : es[k] = IF k = i THEN ds[j] ELSE IF k = j THEN ds[i] ELSE ds[k]
      BY <2>3 DEF Exchanged
    <2>. HIDE DEF es
    <2>5. Rearranges(p, ds, es)
      BY <2>3, <2>4 DEF Rearranges
    <2>. QED
      BY <2>5, ModuleMoves DEF es
  <1>2. TypeOK => OrderDoesNotMatter
    BY <1>1, TextsAreRead DEF OrderDoesNotMatter
  <1>. QED
    BY <1>2, TypeCorrect, PTL

-----------------------------------------------------------------------------
(* The layout of structs. *)

LEMMA MaxIs ==
  ASSUME NEW S, S \subseteq Int, NEW m \in S, \A x \in S : m >= x
  PROVE  Max(S) = m
  <1>1. \A x \in S : (\A y \in S : x >= y) => x = m
    OBVIOUS
  <1>. QED
    BY <1>1 DEF Max

\* p is the first place from "from" on that is aligned to a.
FirstAligned(p, from, a) == p >= from /\ \A q \in from .. p : q % a = 0 <=> q = p

LEMMA AlignToFirst ==
  ASSUME NEW v \in Nat, NEW a \in {1, 8}
  PROVE  AlignTo(v, a) \in Nat /\ FirstAligned(AlignTo(v, a), v, a)
  <1>1. CASE a = 1
    BY <1>1 DEF AlignTo, FirstAligned
  <1>2. CASE a = 8
    <2> DEFINE w == (v + 8 - 1) \div 8
    <2>1. w \in Nat /\ w * 8 >= v /\ w * 8 < v + 8
      OBVIOUS
    <2>2. AlignTo(v, a) = w * 8
      BY <1>2 DEF AlignTo
    <2>. HIDE DEF w
    <2>3. ASSUME NEW q \in v .. w * 8 PROVE q % 8 = 0 <=> q = w * 8
      BY <2>1
    <2>. QED
      BY <1>2, <2>1, <2>2, <2>3 DEF FirstAligned
  <1>. QED
    BY <1>1, <1>2

LayoutN(fields) == Len(fields)
LayoutBase(fields) == [offsets |-> <<>>, size |-> 0, alignment |-> 1]
LayoutOp(fields, a, i) == PlaceField(a, fields[i])
LaidOutBy == INSTANCE Recursion WITH N <- LayoutN, Base <- LayoutBase, Op <- LayoutOp

\* The first n fields are placed in the layout.
PlacedUpTo(fields, n, layout) ==
  LET at(i) == layout.offsets[fields[i].id]
      end(i) == IF i = 0 THEN 0 ELSE at(i) + SizeOf(fields[i].typ)
  IN  /\ DOMAIN layout = {"offsets", "size", "alignment"}
      /\ layout.size \in Nat /\ layout.size = end(n)
      /\ \A i \in 1 .. n : /\ fields[i].id \in DOMAIN layout.offsets
                           /\ at(i) \in Nat
                           /\ FirstAligned(at(i), end(i - 1), SizeOf(fields[i].typ))
      /\ layout.alignment = IF \E i \in 1 .. n : SizeOf(fields[i].typ) = 8 THEN 8 ELSE 1

IdsDiffer(fields) == \A i, j \in 1 .. Len(fields) : fields[i].id = fields[j].id => i = j

LEMMA FieldPlaced ==
  ASSUME NEW fields, Len(fields) \in Nat, IdsDiffer(fields), NEW n \in 0 .. Len(fields) - 1,
         NEW layout, PlacedUpTo(fields, n, layout)
  PROVE  PlacedUpTo(fields, n + 1, PlaceField(layout, fields[n + 1]))
  <1> DEFINE f == fields[n + 1]
             size(i) == SizeOf(fields[i].typ)
             at(i) == layout.offsets[fields[i].id]
             end(i) == IF i = 0 THEN 0 ELSE at(i) + size(i)
             new == PlaceField(layout, f)
             at2(i) == new.offsets[fields[i].id]
             end2(i) == IF i = 0 THEN 0 ELSE at2(i) + size(i)
             place == AlignTo(layout.size, size(n + 1))
  <1>1. /\ n \in Nat /\ n + 1 \in 1 .. Len(fields) /\ 1 .. n \subseteq 1 .. Len(fields)
        /\ 1 .. n + 1 = 1 .. n \cup {n + 1} /\ n + 1 # 0 /\ (n + 1) - 1 = n
    OBVIOUS
  <1>2. \A i : size(i) \in {1, 8}
    BY DEF SizeOf
  <1>. HIDE DEF size
  <1>3. /\ layout.size \in Nat /\ layout.size = end(n)
        /\ \A i \in 1 .. n : /\ fields[i].id \in DOMAIN layout.offsets
                             /\ at(i) \in Nat
                             /\ FirstAligned(at(i), end(i - 1), size(i))
        /\ layout.alignment = IF \E i \in 1 .. n : size(i) = 8 THEN 8 ELSE 1
    BY DEF PlacedUpTo, size
  <1>4. place \in Nat /\ FirstAligned(place, layout.size, size(n + 1))
    BY <1>2, <1>3, AlignToFirst
  <1>. HIDE DEF place
  <1>5. /\ new.offsets = Put(layout.offsets, f.id, place)
        /\ new.size = place + size(n + 1)
        /\ new.alignment = Max({layout.alignment, size(n + 1)})
        /\ DOMAIN new = {"offsets", "size", "alignment"}
    BY DEF PlaceField, place, size
  <1>. HIDE DEF new
  <1>6. /\ at2(n + 1) = place /\ f.id \in DOMAIN new.offsets
        /\ \A i \in 1 .. n : at2(i) = at(i) /\ fields[i].id \in DOMAIN new.offsets
    <2>1. \A i \in 1 .. n : fields[i].id # f.id
      BY <1>1 DEF IdsDiffer
    <2>. QED
      BY <1>3, <1>5, <2>1 DEF Put
  <1>. HIDE DEF at, at2, f
  <1>7. \A i \in 0 .. n : end2(i) = end(i)
    BY <1>1, <1>6
  <1>8. new.size = end2(n + 1) /\ new.size \in Nat
    BY <1>1, <1>2, <1>4, <1>5, <1>6
  <1>9. ASSUME NEW i \in 1 .. n + 1
        PROVE  /\ fields[i].id \in DOMAIN new.offsets
               /\ at2(i) \in Nat
               /\ FirstAligned(at2(i), end2(i - 1), size(i))
    <2>1. CASE i = n + 1
      <3>1. end2(i - 1) = layout.size
        BY <1>1, <1>3, <1>7, <2>1
      <3>. HIDE DEF end2
      <3>. QED
        BY <1>4, <1>6, <2>1, <3>1 DEF f
    <2>2. CASE i \in 1 .. n
      <3>1. end2(i - 1) = end(i - 1)
        BY <1>1, <1>7, <2>2
      <3>. HIDE DEF end2, end
      <3>. QED
        BY <1>3, <1>6, <2>2, <3>1
    <2>. QED
      BY <1>1, <2>1, <2>2
  <1>10. new.alignment = IF \E i \in 1 .. n + 1 : size(i) = 8 THEN 8 ELSE 1
    <2> DEFINE S == {layout.alignment, size(n + 1)}
               m == IF \E i \in 1 .. n + 1 : size(i) = 8 THEN 8 ELSE 1
    <2>1. S \subseteq Int /\ m \in S /\ \A x \in S : m >= x
      BY <1>1, <1>2, <1>3
    <2>2. Max(S) = m
      BY <2>1, MaxIs
    <2>. QED
      BY <1>5, <2>2
  <1>11. PlacedUpTo(fields, n + 1, new)
    BY <1>5, <1>8, <1>9, <1>10 DEF PlacedUpTo, size, at2
  <1>. QED
    BY <1>11 DEF new, f

LEMMA FieldsPlaced ==
  ASSUME NEW fields, Len(fields) \in Nat, IdsDiffer(fields)
  PROVE  \E end : /\ PlacedUpTo(fields, Len(fields), end)
                  /\ StructLayout(fields) = [end EXCEPT !.size = AlignTo(end.size, end.alignment)]
  <1> DEFINE a == LaidOutBy!Fold(fields)
             k == Len(fields)
  <1>1. StructLayout(fields) = [a[k] EXCEPT !.size = AlignTo(a[k].size, a[k].alignment)]
    BY DEF StructLayout, LaidOutBy!Fold, LayoutN, LayoutBase, LayoutOp
  <1>2. /\ a[0] = [offsets |-> <<>>, size |-> 0, alignment |-> 1]
        /\ \A i \in 1 .. k : a[i] = PlaceField(a[i - 1], fields[i])
    <2>. HIDE DEF a
    <2>1. LayoutN(fields) \in Nat /\ LayoutN(fields) = k
      BY DEF LayoutN
    <2>2. a[0] = LayoutBase(fields) /\ \A i \in 1 .. k : a[i] = LayoutOp(fields, a[i - 1], i)
      BY <2>1, LaidOutBy!FoldDef DEF a
    <2>. QED
      BY <2>2 DEF LayoutBase, LayoutOp
  <1>. HIDE DEF a, k
  <1>3. k \in Nat
    BY DEF k
  <1> DEFINE I == {i \in 0 .. k : PlacedUpTo(fields, i, a[i])}
  <1>4. 0 \in I
    BY <1>2, <1>3 DEF PlacedUpTo
  <1>5. \A i \in 0 .. k - 1 : i \in I => i + 1 \in I
    <2> SUFFICES ASSUME NEW i \in 0 .. k - 1, PlacedUpTo(fields, i, a[i])
                 PROVE  i + 1 \in 0 .. k /\ PlacedUpTo(fields, i + 1, a[i + 1])
      OBVIOUS
    <2>1. i + 1 \in 1 .. k /\ (i + 1) - 1 = i /\ i + 1 \in 0 .. k
      BY <1>3
    <2>2. a[i + 1] = PlaceField(a[i], fields[i + 1])
      BY <1>2, <2>1
    <2>3. PlacedUpTo(fields, i + 1, PlaceField(a[i], fields[i + 1]))
      BY FieldPlaced DEF k
    <2>. QED
      BY <2>1, <2>2, <2>3
  <1>6. k \in I
    <2>. HIDE DEF I
    <2>1. \A i \in 0 .. k : i \in I
      BY <1>3, <1>4, <1>5, LaidOutBy!Induction
    <2>. QED
      BY <1>3, <2>1
  <1>. QED
    BY <1>1, <1>6 DEF k

KeptN(p) == Len(p[1])
KeptBase(p) == <<>>
KeptOp(p, a, i) == IF p[1][i] \in p[2] THEN Append(a, p[1][i]) ELSE a
Kept == INSTANCE Recursion WITH N <- KeptN, Base <- KeptBase, Op <- KeptOp

LEMMA FilterIsSequence ==
  ASSUME NEW T, NEW seq \in Seq(T), NEW S
  PROVE  Filter(seq, S) \in Seq(T)
  <1> DEFINE p == <<seq, S>>
             a == Kept!Fold(p)
             k == Len(seq)
  <1>1. k \in Nat /\ \A i \in 1 .. k : seq[i] \in T
    OBVIOUS
  <1>2. Filter(seq, S) = a[k]
    BY DEF Filter, Kept!Fold, KeptN, KeptBase, KeptOp
  <1>3. /\ a[0] = <<>>
        /\ \A i \in 1 .. k : a[i] = IF seq[i] \in S THEN Append(a[i - 1], seq[i]) ELSE a[i - 1]
    <2>. HIDE DEF a
    <2>1. KeptN(p) \in Nat /\ KeptN(p) = k
      BY <1>1 DEF KeptN
    <2>2. a[0] = KeptBase(p) /\ \A i \in 1 .. k : a[i] = KeptOp(p, a[i - 1], i)
      BY <2>1, Kept!FoldDef DEF a
    <2>. QED
      BY <2>2 DEF KeptBase, KeptOp
  <1>. HIDE DEF a, k
  <1> DEFINE I == {i \in 0 .. k : a[i] \in Seq(T)}
  <1>4. 0 \in I
    <2>1. a[0] = <<>> /\ 0 \in 0 .. k
      BY <1>1, <1>3
    <2>2. <<>> \in Seq(T)
      OBVIOUS
    <2>. QED
      BY <2>1, <2>2
  <1>5. \A i \in 0 .. k - 1 : i \in I => i + 1 \in I
    <2> SUFFICES ASSUME NEW i \in 0 .. k - 1, a[i] \in Seq(T)
                 PROVE  i + 1 \in 0 .. k /\ a[i + 1] \in Seq(T)
      OBVIOUS
    <2>1. i + 1 \in 1 .. k /\ (i + 1) - 1 = i /\ i + 1 \in 0 .. k
      BY <1>1
    <2>2. a[i + 1] = IF seq[i + 1] \in S THEN Append(a[i], seq[i + 1]) ELSE a[i]
      BY <1>3, <2>1
    <2>. QED
      BY <1>1, <2>1, <2>2
  <1>6. k \in I
    <2>. HIDE DEF I
    <2>1. \A i \in 0 .. k : i \in I
      BY <1>1, <1>4, <1>5, Kept!Induction
    <2>. QED
      BY <1>1, <2>1
  <1>. QED
    BY <1>2, <1>6

LEMMA FieldsAreFinite ==
  ASSUME NEW t \in Texts, NEW class \in DefsOf(t), IsStruct(class)
  PROVE  /\ Len(FieldsOf(class)) \in Nat /\ DOMAIN FieldsOf(class) = 1 .. Len(FieldsOf(class))
         /\ Len(FieldsOf(class)) = 0 => FieldsOf(class) = <<>>
  <1> DEFINE items == Filter(class.body, {item \in ToSet(class.body) : item.s # "pass"})
  <1>1. class.body \in Seq(ToSet(class.body))
    BY SourceAssumption DEF DefsOf, IsStruct
  <1>2. items \in Seq(ToSet(class.body))
    BY <1>1, FilterIsSequence
  <1>3. Len(items) \in Nat
    BY <1>2
  <1>. HIDE DEF items
  <1>4. DOMAIN FieldsOf(class) = 1 .. Len(items)
    BY DEF FieldsOf, items
  <1>5. Len(FieldsOf(class)) = Len(items)
    BY <1>3 DEF FieldsOf, items
  <1>6. ASSUME Len(items) = 0 PROVE FieldsOf(class) = <<>>
    <2> DEFINE field(j) == [id |-> items[j].id,
                            typ |-> IF items[j].s = "field" THEN TypeName(items[j].ann) ELSE Raises]
    <2>1. FieldsOf(class) = [j \in 1 .. Len(items) |-> field(j)]
      BY DEF FieldsOf, items
    <2>. HIDE DEF field
    <2>2. [j \in 1 .. 0 |-> field(j)] = <<>>
      OBVIOUS
    <2>. QED
      BY <1>6, <2>1, <2>2
  <1>. QED
    BY <1>3, <1>4, <1>5, <1>6

\* For every class: the layout of a struct is the one LLVM gives it.
THEOREM StructsAreLaidOutLikeLLVMs == Spec => []LayoutsAreLLVMs
  <1>1. ASSUME NEW t \in Texts PROVE LaidOutLikeLLVM[t]
    <2> DEFINE defs == Source[t].defs
    <2>1. Lowered[t] = LowerModule(defs)
      BY DEF Lowered
    <2> SUFFICES ASSUME Lowered[t].ok, NEW class \in DefsOf(t), IsStruct(class), FieldsDiffer(class)
                 PROVE  LaidOut(FieldsOf(class), Lowered[t].structs[class.name])
      BY DEF LaidOutLikeLLVM
    <2>2. PICK i \in DOMAIN defs : class = defs[i]
      BY DEF DefsOf, ToSet
    <2>3. i \in Structs(defs)
      BY <2>2 DEF Structs
    <2>. HIDE DEF defs
    <2>4. /\ Lowered[t].structs[class.name] = StructLayout(FieldsOf(class))
          /\ ExtractsStruct(class)
      <3>1. LowerModule(defs).structs[defs[i].name] = StructLayout(FieldsOf(defs[i]))
            /\ Collected(defs)
        BY <2>1, <2>3, LoweredFacts
      <3>. QED
        BY <2>1, <2>2, <2>3, <3>1 DEF Collected
    <2> DEFINE fields == FieldsOf(class)
               k == Len(fields)
               layout == StructLayout(fields)
               size(j) == SizeOf(fields[j].typ)
    <2>5. /\ k \in Nat /\ DOMAIN fields = 1 .. k /\ k # 0
      <3>1. k \in Nat /\ DOMAIN fields = 1 .. k /\ (k = 0 => fields = <<>>)
        BY FieldsAreFinite
      <3>2. fields # <<>>
        BY <2>4 DEF ExtractsStruct
      <3>. HIDE DEF fields, k
      <3>. QED
        BY <3>1, <3>2
    <2>6. IdsDiffer(fields)
      BY DEF FieldsDiffer, IsInjective, IdsDiffer
    <2>. HIDE DEF fields
    <2>7. PICK end : /\ PlacedUpTo(fields, k, end)
                     /\ layout = [end EXCEPT !.size = AlignTo(end.size, end.alignment)]
      BY <2>5, <2>6, FieldsPlaced
    <2>. HIDE DEF layout, k
    <2> DEFINE at(j) == end.offsets[fields[j].id]
               stop(j) == IF j = 0 THEN 0 ELSE at(j) + size(j)
    <2>8. /\ DOMAIN end = {"offsets", "size", "alignment"}
          /\ end.size \in Nat /\ end.size = stop(k)
          /\ \A j \in 1 .. k : FirstAligned(at(j), stop(j - 1), size(j))
          /\ end.alignment = IF \E j \in 1 .. k : size(j) = 8 THEN 8 ELSE 1
      BY <2>7 DEF PlacedUpTo
    <2>9. /\ layout.offsets = end.offsets /\ layout.alignment = end.alignment
          /\ layout.size = AlignTo(end.size, end.alignment)
      BY <2>7, <2>8
    <2>10. FirstAligned(layout.size, stop(k), layout.alignment)
      <3>1. end.alignment \in {1, 8}
        BY <2>8
      <3>. HIDE DEF stop
      <3>. QED
        BY <2>8, <2>9, <3>1, AlignToFirst
    <2>11. layout.alignment = Max({size(j) : j \in 1 .. k})
      <3> DEFINE S == {size(j) : j \in 1 .. k}
                 m == IF \E j \in 1 .. k : size(j) = 8 THEN 8 ELSE 1
      <3>1. \A j : size(j) \in {1, 8}
        BY DEF SizeOf
      <3>2. size(1) \in S
        BY <2>5
      <3>. HIDE DEF size
      <3>3. S \subseteq Int /\ m \in S /\ \A x \in S : m >= x
        BY <3>1, <3>2
      <3>4. Max(S) = m
        BY <3>3, MaxIs
      <3>. QED
        BY <2>8, <2>9, <3>4 DEF size
    <2>12. LaidOut(fields, layout)
      BY <2>8, <2>9, <2>10, <2>11 DEF LaidOut, FirstAligned, SizeOf, k
    <2>. QED
      BY <2>4, <2>12 DEF layout, fields
  <1>2. TypeOK => LayoutsAreLLVMs
    BY <1>1, TextsAreRead DEF LayoutsAreLLVMs
  <1>. QED
    BY <1>2, TypeCorrect, PTL
=============================================================================
