------------------------------- MODULE Pipeline -------------------------------
(***************************************************************************)
(* aotc build and aotc clean, seen from the file system.  A build reads a   *)
(* source, compiles it in memory, writes <stem>.ll into its build           *)
(* directory and has clang make an artifact of that file.  Nothing is       *)
(* locked and nothing is written aside and renamed: builds of one directory *)
(* share the .ll file, and clean removes the directory file by file.  A     *)
(* step here is what runs between two points where another process may      *)
(* touch what this one uses.                                                *)
(*                                                                          *)
(* A file holds the text it was compiled from.  What lower_module, the      *)
(* passes and the code generator do with a text is Accepted here; Build     *)
(* says it in full.                                                         *)
(***************************************************************************)
EXTENDS Naturals

CONSTANTS
  Builds,      \* the processes that build
  Texts,       \* what a source may hold
  Accepted,    \* the texts that compile to LLVM IR
  Sources,     \* the source files
  Stems,       \* their names without the suffix
  StemOf,      \* the stem of each source: two may share one
  Dirs,        \* the directories built into
  Commands,    \* the commands given: [source, known, emit, dir, output]
  NoOutput,    \* no output asked for
  MaxEdits     \* bound on the edits of sources

Paths == Dirs \X Stems \X {"ll", "so", "s"}
NoText == "none"     \* also what a file that does not exist holds
Torn == "torn"       \* an .ll file cut short or mixed, or an artifact made of one
NoDir == "none"

ASSUME PipelineAssumption ==
  /\ Accepted \subseteq Texts /\ {NoText, Torn} \cap Texts = {} /\ NoText # Torn
  /\ NoDir \notin Dirs /\ NoOutput \notin Paths
  /\ StemOf \in [Sources -> Stems]
  /\ Commands # {}
  /\ Commands \subseteq [source : Sources, known : BOOLEAN, emit : {"ll", "so", "asm"},
                         dir : Dirs, output : Paths \cup {NoOutput}]
  /\ MaxEdits \in Nat

VARIABLES
  source,      \* the text of each source
  files,       \* what each path of a build directory holds
  dirs,        \* the directories that exist
  pc,          \* each build: where it is
  job,         \* each build: its command
  text,        \* each build: the text it has read
  handle,      \* each build: whether its .ll file, while open, is still the one at the path
  input,       \* each build: what clang has read
  contested,   \* history: the builds whose .ll path another process has touched
  cleaning,    \* clean: the directory it removes
  listed,      \* clean: the files it has listed and not removed yet
  cleanEnd,    \* clean: "none", "done" or "failed" so far
  edits        \* the edits so far

vars == <<source, files, dirs, pc, job, text, handle, input, contested,
          cleaning, listed, cleanEnd, edits>>
cleanVars == <<cleaning, listed, cleanEnd>>

IRPath(j) == <<j.dir, StemOf[j.source], "ll">>
DefaultOutput(j) == <<j.dir, StemOf[j.source], IF j.emit = "asm" THEN "s" ELSE "so">>
Output(j) == IF j.output = NoOutput THEN DefaultOutput(j) ELSE j.output
Artifact(j) == IF j.emit = "ll" THEN IRPath(j) ELSE Output(j)

\* Before a build has touched a file, and from then to its end.
Early == {"begin", "mkdir", "open"}
Busy == {"write", "check", "clang", "link"}
Ended == {"done", "rejected", "failed"}

Goto(b, place) == pc' = [pc EXCEPT ![b] = place]
Fail(b) == Goto(b, IF pc[b] \in Early THEN "rejected" ELSE "failed")

\* The builds that find another process has touched path p.
Disturbed(p, others) == {b \in others : pc[b] \in Busy /\ IRPath(job[b]) = p}

-----------------------------------------------------------------------------
(* A build. *)

\* Of a source that exists; the passes are looked up before it is read.
Refuse(b) ==
  /\ pc[b] = "begin"
  /\ \E j \in Commands : ~j.known /\ job' = [job EXCEPT ![b] = j]
  /\ Fail(b)
  /\ UNCHANGED <<source, files, dirs, text, handle, input, contested, cleanVars, edits>>

\* Mutant: an .ll file that is there already is taken for compiled.
CompileOnce(b) ==
  /\ pc[b] = "begin"
  /\ \E j \in Commands :
       /\ j.known
       /\ job' = [job EXCEPT ![b] = j]
       /\ text' = [text EXCEPT ![b] =
                     IF files[IRPath(j)] = NoText THEN source[j.source] ELSE files[IRPath(j)]]
       /\ IF text'[b] \in Accepted THEN Goto(b, "mkdir") ELSE Fail(b)
  /\ UNCHANGED <<source, files, dirs, handle, input, contested, cleanVars, edits>>

Compile(b) ==
  /\ pc[b] = "begin"
  /\ \E j \in Commands :
       /\ j.known
       /\ job' = [job EXCEPT ![b] = j]
       /\ text' = [text EXCEPT ![b] = source[j.source]]
       /\ IF source[j.source] \in Accepted THEN Goto(b, "mkdir") ELSE Fail(b)
  /\ UNCHANGED <<source, files, dirs, handle, input, contested, cleanVars, edits>>

MakeDir(b) ==
  /\ pc[b] = "mkdir"
  /\ dirs' = dirs \cup {job[b].dir}
  /\ Goto(b, "open")
  /\ UNCHANGED <<source, files, job, text, handle, input, contested, cleanVars, edits>>

\* Mutant: an existing file is kept.
OpenIRIfMissing(b) ==
  /\ pc[b] = "open"
  /\ IF job[b].dir \in dirs
     THEN /\ files' = [files EXCEPT ![IRPath(job[b])] = IF @ = NoText THEN Torn ELSE @]
          /\ handle' = [handle EXCEPT ![b] = files[IRPath(job[b])] = NoText]
          /\ contested' = contested \cup Disturbed(IRPath(job[b]), Builds \ {b})
          /\ Goto(b, "write")
     ELSE /\ Fail(b)
          /\ UNCHANGED <<files, handle, contested>>
  /\ UNCHANGED <<source, dirs, job, text, input, cleanVars, edits>>

\* Opening truncates the file; the directory may be gone again.
OpenIR(b) ==
  /\ pc[b] = "open"
  /\ IF job[b].dir \in dirs
     THEN /\ files' = [files EXCEPT ![IRPath(job[b])] = Torn]
          /\ handle' = [handle EXCEPT ![b] = TRUE]
          /\ contested' = contested \cup Disturbed(IRPath(job[b]), Builds \ {b})
          /\ Goto(b, "write")
     ELSE /\ Fail(b)
          /\ UNCHANGED <<files, handle, contested>>
  /\ UNCHANGED <<source, dirs, job, text, input, cleanVars, edits>>

\* A file that was unlinked takes the text with it; of one that others have
\* open too, the end or the whole may be theirs.  With emit "ll" that is all,
\* whatever output was asked for.
WriteIR(b) ==
  /\ pc[b] = "write"
  /\ IF handle[b]
     THEN \E t \in IF b \in contested THEN {text[b], Torn} ELSE {text[b]} :
            files' = [files EXCEPT ![IRPath(job[b])] = t]
     ELSE files' = files
  /\ contested' = contested \cup Disturbed(IRPath(job[b]), IF handle[b] THEN Builds \ {b} ELSE {})
  /\ Goto(b, IF job[b].emit = "ll" THEN "done" ELSE "check")
  /\ UNCHANGED <<source, dirs, job, text, handle, input, cleanVars, edits>>

\* clang may be missing, and the .ll file, again.
CheckClang(b) ==
  /\ pc[b] = "check"
  /\ \/ Fail(b) /\ UNCHANGED dirs
     \/ /\ files[IRPath(job[b])] # NoText
        /\ dirs' = dirs \cup {Output(job[b])[1]}
        /\ Goto(b, "clang")
  /\ UNCHANGED <<source, files, job, text, handle, input, contested, cleanVars, edits>>

\* clang takes a torn file for IR or refuses it.
ClangReads(b) ==
  /\ pc[b] = "clang"
  /\ \/ /\ files[IRPath(job[b])] # NoText
        /\ input' = [input EXCEPT ![b] = files[IRPath(job[b])]]
        /\ Goto(b, "link")
     \/ /\ files[IRPath(job[b])] \notin Texts
        /\ Fail(b) /\ UNCHANGED input
  /\ UNCHANGED <<source, files, dirs, job, text, handle, contested, cleanVars, edits>>

\* Mutant: a library that is missing is no error.
ClangEndsAnyway(b) ==
  /\ pc[b] = "link"
  /\ \E t \in {input[b], files[Output(job[b])]} : files' = [files EXCEPT ![Output(job[b])] = t]
  /\ contested' = contested \cup Disturbed(Output(job[b]), Builds \ {b})
  /\ Goto(b, "done")
  /\ UNCHANGED <<source, dirs, job, text, handle, input, cleanVars, edits>>

\* It puts the artifact in place, or fails, and an older one stays or goes.
ClangEnds(b) ==
  /\ pc[b] = "link"
  /\ \/ /\ Output(job[b])[1] \in dirs
        /\ files' = [files EXCEPT ![Output(job[b])] = input[b]]
        /\ Goto(b, "done")
     \/ /\ \E t \in {files[Output(job[b])], NoText} : files' = [files EXCEPT ![Output(job[b])] = t]
        /\ Fail(b)
  /\ contested' = contested \cup Disturbed(Output(job[b]), Builds \ {b})
  /\ UNCHANGED <<source, dirs, job, text, handle, input, cleanVars, edits>>

\* The process dies, and its clang with it.
Crash(b) ==
  /\ pc[b] \notin Ended \cup {"begin"}
  /\ Fail(b)
  /\ UNCHANGED <<source, files, dirs, job, text, handle, input, contested, cleanVars, edits>>

Build(b) ==
  \/ Refuse(b) \/ Compile(b) \/ MakeDir(b) \/ OpenIR(b) \/ WriteIR(b)
  \/ CheckClang(b) \/ ClangReads(b) \/ ClangEnds(b) \/ Crash(b)

-----------------------------------------------------------------------------
(* The user, and clean: rmtree lists the directory, then removes what it     *)
(* has listed, then the directory.                                           *)

Edit(s) ==
  /\ edits < MaxEdits
  /\ \E t \in Texts \ {source[s]} : source' = [source EXCEPT ![s] = t]
  /\ edits' = edits + 1
  /\ UNCHANGED <<files, dirs, pc, job, text, handle, input, contested, cleanVars>>

BeginClean(d) ==
  /\ cleaning = NoDir /\ cleanEnd = "none"
  /\ d \in dirs
  /\ cleaning' = d
  /\ listed' = {p \in Paths : p[1] = d /\ files[p] # NoText}
  /\ UNCHANGED <<source, files, dirs, pc, job, text, handle, input, contested, cleanEnd, edits>>

\* A file that is gone already is an error.
RemoveFile(p) ==
  /\ p \in listed
  /\ IF files[p] # NoText
     THEN /\ files' = [files EXCEPT ![p] = NoText]
          /\ handle' = [b \in Builds |-> handle[b] /\ IRPath(job[b]) # p]
          /\ contested' = contested \cup Disturbed(p, Builds)
          /\ listed' = listed \ {p}
          /\ UNCHANGED <<cleaning, cleanEnd>>
     ELSE /\ cleaning' = NoDir /\ listed' = {} /\ cleanEnd' = "failed"
          /\ UNCHANGED <<files, handle, contested>>
  /\ UNCHANGED <<source, dirs, pc, job, text, input, edits>>

\* The directory is removed if it is empty.
EndClean ==
  /\ cleaning # NoDir /\ listed = {}
  /\ IF \A p \in Paths : p[1] = cleaning => files[p] = NoText
     THEN dirs' = dirs \ {cleaning} /\ cleanEnd' = "done"
     ELSE dirs' = dirs /\ cleanEnd' = "failed"
  /\ cleaning' = NoDir
  /\ UNCHANGED <<source, files, pc, job, text, handle, input, contested, listed, edits>>

Init ==
  /\ source \in [Sources -> Texts]
  /\ files = [p \in Paths |-> NoText] /\ dirs = {}
  /\ pc = [b \in Builds |-> "begin"]
  /\ job = [b \in Builds |-> CHOOSE j \in Commands : TRUE]
  /\ text = [b \in Builds |-> NoText] /\ input = [b \in Builds |-> NoText]
  /\ handle = [b \in Builds |-> FALSE] /\ contested = {}
  /\ cleaning = NoDir /\ listed = {} /\ cleanEnd = "none"
  /\ edits = 0

Next ==
  \/ \E b \in Builds : Build(b)
  \/ \E s \in Sources : Edit(s)
  \/ \E d \in Dirs : BeginClean(d)
  \/ \E p \in Paths : RemoveFile(p)
  \/ EndClean

Spec == Init /\ [][Next]_vars

-----------------------------------------------------------------------------

TypeOK ==
  /\ source \in [Sources -> Texts]
  /\ files \in [Paths -> Texts \cup {Torn, NoText}]
  /\ dirs \subseteq Dirs
  /\ pc \in [Builds -> Early \cup Busy \cup Ended]
  /\ job \in [Builds -> Commands]
  /\ text \in [Builds -> Texts \cup {NoText}]
  /\ handle \in [Builds -> BOOLEAN]
  /\ input \in [Builds -> Texts \cup {Torn, NoText}]
  /\ contested \subseteq Builds
  /\ cleaning \in Dirs \cup {NoDir} /\ listed \subseteq Paths
  /\ cleanEnd \in {"none", "done", "failed"}
  /\ edits \in 0 .. MaxEdits

\* A build that ends well, undisturbed, leaves as its artifact what it made of
\* the text it read: never of an earlier one, a half-written file or nothing
\* (compile_file writes the .ll file and clang reads it back).
ArtifactsAreFresh ==
  [][\A b \in Builds :
       pc[b] # "done" /\ pc'[b] = "done" /\ b \notin contested =>
         files'[Artifact(job[b])] = text[b]]_vars

\* The .ll file and the shared library of a stem are made of the same text as
\* long as every build that touched one of them ended well and undisturbed,
\* and no clean of their directory is at work or was interrupted: only a
\* failure, a crash, an overlap, an output of another kind or place leaves an
\* older library beside a newer .ll file (compile_file, cmd_clean).
Settled(b) == pc[b] = "done" /\ b \notin contested /\ job[b].emit = "so" /\ job[b].output = NoOutput

Quiet(d, stem) ==
  /\ \A b \in Builds :
       \/ pc[b] \in Early \cup {"rejected"}
       \/ Settled(b)
       \/ {IRPath(job[b]), Output(job[b])} \cap {<<d, stem, "ll">>, <<d, stem, "so">>} = {}
  /\ cleaning # d /\ cleanEnd # "failed"

QuietDirectoriesAgree ==
  \A d \in Dirs, stem \in Stems : Quiet(d, stem) => files[<<d, stem, "so">>] = files[<<d, stem, "ll">>]
=============================================================================
