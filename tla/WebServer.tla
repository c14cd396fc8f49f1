----------------------------- MODULE WebServer ------------------------------
(***************************************************************************)
(* The web server (server.js): /run and /stop, the upload of a program and *)
(* of the Modbus master's configuration, the build as a chain of child     *)
(* processes that go on in each other's close callbacks, the controllers   *)
(* it spawns and kills, and the files they all share.                      *)
(*                                                                         *)
(* node runs one callback at a time, so a callback is one step; between    *)
(* two, any request, any exit of a child and any file operation of one may *)
(* come.  A child's work and its close callback are one step: the next     *)
(* child of the chain works in a step of its own.  The contents of a file  *)
(* are the number of the form they were uploaded with, 0 for what build.sh *)
(* installed.                                                              *)
(***************************************************************************)
EXTENDS Integers, Sequences

CONSTANTS
  ProgramNames, ConfigNames,  \* names of the files that users choose
  MaxForms, MaxRuns,          \* bounds: forms submitted, /run requests served
  Patient                     \* TRUE: users finish one thing before the next, and
                              \* choose a file for a configuration form

NoFile == "no file"

ASSUME WebAssumption ==
  /\ NoFile \notin ProgramNames \cup ConfigNames
  /\ MaxForms \in Nat /\ MaxRuns \in Nat /\ Patient \in BOOLEAN

VARIABLES
  procs,               \* the controllers spawned so far: program and life
  plcRunning, compilationEnded, compilationSuccess, uploadedFileName,
  pending,             \* forms whose file is stored and whose handler is to run
  builds,              \* the builds under way: the child at work, its argument
  helpers,             \* mv and cp of configurations under way
  disk,                \* the files in st_files/, in ./ and in core/
  forms, runs,         \* forms submitted, /run requests served
  kindOf,              \* history: what each form carried
  wanted,              \* history: the last program and configuration taken up
  linkFailed           \* history: the last run of build_core.sh built nothing

vars == <<procs, plcRunning, compilationEnded, compilationSuccess, uploadedFileName,
          pending, builds, helpers, disk, forms, runs, kindOf, wanted, linkFailed>>
flags   == <<plcRunning, compilationEnded, compilationSuccess>>
history == <<kindOf, wanted, linkFailed>>

Names   == ProgramNames \cup ConfigNames
Missing == -1

Init ==
  /\ procs = <<[program |-> 0, life |-> "up"]>>
  /\ plcRunning = TRUE
  /\ compilationEnded = FALSE /\ compilationSuccess = FALSE
  /\ uploadedFileName = NoFile
  /\ pending = {} /\ builds = {} /\ helpers = {}
  /\ disk = [st |-> [n \in Names |-> Missing], pous |-> Missing, core |-> 0, openplc |-> 0,
             coreCfg |-> 0, rootCfg |-> 0]
  /\ forms = 0 /\ runs = 0
  /\ kindOf = << >>
  /\ wanted = [program |-> 0, config |-> 0, configBefore |-> 0]
  /\ linkFailed = FALSE

-----------------------------------------------------------------------------
(* The controllers.  openplc is the one spawned last. *)

openplc == Len(procs)

Spawned == Append(procs, [program |-> disk'.openplc, life |-> "up"])

\* openplc.kill('SIGTERM'), of no effect on a process that is gone.
Killed ==
  [procs EXCEPT ![openplc].life = IF @ = "up" THEN "terminating" ELSE @]

\* A controller told to terminate does so; one may also end by itself, and its
\* close callback changes nothing.
Terminate(p) ==
  /\ procs[p].life = "terminating"
  /\ procs' = [procs EXCEPT ![p].life = "gone"]
  /\ UNCHANGED <<flags, uploadedFileName, pending, builds, helpers, disk, forms, runs, history>>

EndByItself(p) ==
  /\ procs[p].life = "up"
  /\ procs' = [procs EXCEPT ![p].life = "gone"]
  /\ UNCHANGED <<flags, uploadedFileName, pending, builds, helpers, disk, forms, runs, history>>

-----------------------------------------------------------------------------
(* The pages. *)

Idle == builds = {} /\ pending = {}

\* Faulty variant of Run: whatever plcRunning says.
RunAnyway ==
  /\ runs < MaxRuns /\ runs' = runs + 1
  /\ Patient => Idle
  /\ UNCHANGED disk
  /\ procs' = Spawned /\ plcRunning' = TRUE
  /\ UNCHANGED <<compilationEnded, compilationSuccess, uploadedFileName, pending, builds,
                 helpers, forms, history>>

Run ==
  /\ runs < MaxRuns /\ runs' = runs + 1
  /\ Patient => Idle
  /\ ~plcRunning
  /\ UNCHANGED disk
  /\ procs' = Spawned /\ plcRunning' = TRUE
  /\ UNCHANGED <<compilationEnded, compilationSuccess, uploadedFileName, pending, builds,
                 helpers, forms, history>>

\* Faulty variant of Stop: the flag is set and nobody is told.
StopFlagOnly ==
  /\ plcRunning
  /\ plcRunning' = FALSE
  /\ UNCHANGED <<procs, compilationEnded, compilationSuccess, uploadedFileName, pending, builds,
                 helpers, disk, forms, runs, history>>

Stop ==
  /\ plcRunning
  /\ procs' = Killed /\ plcRunning' = FALSE
  /\ UNCHANGED <<compilationEnded, compilationSuccess, uploadedFileName, pending, builds,
                 helpers, disk, forms, runs, history>>

\* The file of a form is stored under the name it has (onFileUploadComplete); a
\* form without a file leaves uploadedFileName as it is, so that an empty
\* configuration form takes the program uploaded before for a configuration.
Submit(kind, name) ==
  /\ forms < MaxForms /\ forms' = forms + 1
  /\ Patient => Idle /\ helpers = {} /\ (kind = "config" => name # NoFile)
  /\ pending' = pending \cup {forms'}
  /\ kindOf' = Append(kindOf, [kind |-> kind, file |-> name])
  /\ IF name = NoFile
       THEN UNCHANGED <<uploadedFileName, disk>>
       ELSE /\ uploadedFileName' = name
            /\ disk' = [disk EXCEPT !.st[name] = forms']
  /\ UNCHANGED <<procs, flags, builds, helpers, runs, wanted, linkFailed>>

\* The handler of /api/upload, with optimizeCode().
Upload(f) ==
  /\ f \in pending /\ pending' = pending \ {f} /\ kindOf[f].kind = "program"
  /\ procs' = Killed /\ plcRunning' = FALSE
  /\ compilationEnded' = FALSE /\ compilationSuccess' = FALSE
  /\ builds' = builds \cup {[id |-> f, child |-> "st_optimizer", file |-> uploadedFileName]}
  /\ wanted' = [wanted EXCEPT !.program = IF kindOf[f].file = NoFile THEN @ ELSE f]
  /\ UNCHANGED <<uploadedFileName, helpers, disk, forms, runs, kindOf, linkFailed>>

\* The handler of /api/changeModbusCfg: mv and cp start together.
ChangeModbusCfg(f) ==
  /\ f \in pending /\ pending' = pending \ {f} /\ kindOf[f].kind = "config"
  /\ helpers' = helpers \cup {[id |-> f, child |-> c, file |-> uploadedFileName] : c \in {"mv", "cp"}}
  /\ wanted' = IF kindOf[f].file = NoFile THEN wanted
               ELSE [wanted EXCEPT !.config = f, !.configBefore = wanted.config]
  /\ UNCHANGED <<procs, flags, uploadedFileName, builds, disk, forms, runs, kindOf, linkFailed>>

-----------------------------------------------------------------------------
(* The children and their close callbacks. *)

Contents(b) == IF b.file = NoFile THEN Missing ELSE disk.st[b.file]
Advance(b, child) == builds' = (builds \ {b}) \cup {[b EXCEPT !.child = child]}

\* Faulty variant of Fails: the result page waits on.
FailsSilently(b) ==
  /\ builds' = builds \ {b}
  /\ UNCHANGED <<procs, flags, uploadedFileName, pending, helpers, disk, forms, runs, history>>

\* A child exits with a code other than 0, or was given no file to work on.
Fails(b) ==
  /\ builds' = builds \ {b} /\ compilationEnded' = TRUE
  /\ UNCHANGED <<procs, plcRunning, compilationSuccess, uploadedFileName, pending, helpers,
                 disk, forms, runs, history>>

Optimize(b) ==
  /\ b.child = "st_optimizer" /\ Contents(b) # Missing
  /\ Advance(b, "iec2c")
  /\ UNCHANGED <<procs, flags, uploadedFileName, pending, helpers, disk, forms, runs, history>>

\* Only a program compiles.
Compile(b) ==
  /\ b.child = "iec2c" /\ Contents(b) # Missing
  /\ kindOf[Contents(b)].kind = "program"
  /\ disk' = [disk EXCEPT !.pous = Contents(b)]
  /\ Advance(b, "mv")
  /\ UNCHANGED <<procs, flags, uploadedFileName, pending, helpers, forms, runs, history>>

\* Faulty variant of MoveFiles: the generated files are moved elsewhere.
MoveFilesAstray(b) ==
  /\ b.child = "mv" /\ disk.pous # Missing
  /\ disk' = [disk EXCEPT !.pous = Missing]
  /\ Advance(b, "build_core.sh")
  /\ UNCHANGED <<procs, flags, uploadedFileName, pending, helpers, forms, runs, history>>

MoveFiles(b) ==
  /\ b.child = "mv" /\ disk.pous # Missing
  /\ disk' = [disk EXCEPT !.core = disk.pous, !.pous = Missing]
  /\ Advance(b, "build_core.sh")
  /\ UNCHANGED <<procs, flags, uploadedFileName, pending, helpers, forms, runs, history>>

\* Faulty variant of BuildCore: a failing g++ leaves no controller behind.
BuildCoreUnlinked(b, ok) ==
  /\ b.child = "build_core.sh"
  /\ disk' = [disk EXCEPT !.openplc = IF ok THEN disk.core ELSE Missing]
  /\ linkFailed' = ~ok
  /\ procs' = Spawned /\ plcRunning' = TRUE
  /\ compilationSuccess' = TRUE /\ compilationEnded' = TRUE
  /\ builds' = builds \ {b}
  /\ UNCHANGED <<uploadedFileName, pending, helpers, forms, runs, kindOf, wanted>>

\* build_core.sh ends in "cd ..", so exec() sees no error: when g++ fails the
\* old controller is started and success reported all the same.
BuildCore(b, ok) ==
  /\ b.child = "build_core.sh"
  /\ disk' = IF ok THEN [disk EXCEPT !.openplc = disk.core] ELSE disk
  /\ linkFailed' = ~ok
  /\ procs' = Spawned /\ plcRunning' = TRUE
  /\ compilationSuccess' = TRUE /\ compilationEnded' = TRUE
  /\ builds' = builds \ {b}
  /\ UNCHANGED <<uploadedFileName, pending, helpers, forms, runs, kindOf, wanted>>

Build(b) ==
  \/ Optimize(b) \/ Compile(b) \/ MoveFiles(b)
  \/ b.child # "build_core.sh" /\ Fails(b)
  \/ \E ok \in BOOLEAN : BuildCore(b, ok)

\* mv -f st_files/<name> core/mbconfig.cfg
MoveConfig(h) ==
  /\ h.child = "mv"
  /\ disk' = IF Contents(h) = Missing THEN disk
             ELSE [disk EXCEPT !.coreCfg = Contents(h), !.st[h.file] = Missing]
  /\ helpers' = helpers \ {h}
  /\ UNCHANGED <<procs, flags, uploadedFileName, pending, builds, forms, runs, history>>

\* Faulty variant of CopyConfig: cp the other way round.
CopyConfigBack(h) ==
  /\ h.child = "cp"
  /\ disk' = [disk EXCEPT !.coreCfg = disk.rootCfg]
  /\ helpers' = helpers \ {h}
  /\ UNCHANGED <<procs, flags, uploadedFileName, pending, builds, forms, runs, history>>

\* cp -f core/mbconfig.cfg ./, where the controller reads it
CopyConfig(h) ==
  /\ h.child = "cp"
  /\ disk' = [disk EXCEPT !.rootCfg = disk.coreCfg]
  /\ helpers' = helpers \ {h}
  /\ UNCHANGED <<procs, flags, uploadedFileName, pending, builds, forms, runs, history>>

-----------------------------------------------------------------------------
Handle(f) == Upload(f) \/ ChangeModbusCfg(f)

Next ==
  \/ Run \/ Stop
  \/ \E n \in ProgramNames \cup {NoFile} : Submit("program", n)
  \/ \E n \in ConfigNames \cup {NoFile} : Submit("config", n)
  \/ \E f \in pending : Handle(f)
  \/ \E b \in builds : Build(b)
  \/ \E h \in helpers : MoveConfig(h) \/ CopyConfig(h)
  \/ \E p \in DOMAIN procs : Terminate(p) \/ EndByItself(p)

\* Handlers run, children exit and a signalled controller ends; nobody need
\* send a request, and no controller need end by itself.
Fairness ==
  /\ WF_vars(\E f \in pending : Handle(f))
  /\ WF_vars(\E b \in builds : Build(b))
  /\ WF_vars(\E h \in helpers : MoveConfig(h) \/ CopyConfig(h))
  /\ WF_vars(\E p \in DOMAIN procs : Terminate(p))

Spec == Init /\ [][Next]_vars /\ Fairness

-----------------------------------------------------------------------------
File == Missing..MaxForms

TypeOK ==
  /\ procs \in Seq([program : Nat, life : {"up", "terminating", "gone"}]) /\ procs # << >>
  /\ plcRunning \in BOOLEAN /\ compilationEnded \in BOOLEAN /\ compilationSuccess \in BOOLEAN
  /\ uploadedFileName \in Names \cup {NoFile}
  /\ pending \subseteq 1..forms
  /\ \A b \in builds : b.child \in {"st_optimizer", "iec2c", "mv", "build_core.sh"}
  /\ \A h \in helpers : h.child \in {"mv", "cp"}
  /\ disk.st \in [Names -> File] /\ disk.pous \in File
  /\ disk.core \in Nat /\ disk.openplc \in Nat /\ disk.coreCfg \in Nat /\ disk.rootCfg \in Nat

Up == {p \in DOMAIN procs : procs[p].life = "up"}

\* Two controllers never drive the outputs together, and none does when the
\* main page says "Stopped": only the one spawned last can be up, and only if
\* plcRunning says so; all others have been told to terminate.
OneController == \A p \in Up : p = openplc /\ plcRunning

\* When the status page reports success, the controller started last runs the
\* program uploaded last and no other (unless g++ failed, which build_core.sh
\* conceals), and the result is never shown before the build is over.
RunsLastUpload ==
  /\ compilationSuccess /\ ~linkFailed => procs[openplc].program = wanted.program
  /\ compilationEnded => builds = {}

\* An uploaded configuration has replaced the one in core/ when both children
\* are done; the one the controller reads is that or the one before it.
ConfigAtMostOneBehind ==
  pending = {} /\ helpers = {} =>
    /\ disk.coreCfg = wanted.config
    /\ disk.rootCfg \in {wanted.config, wanted.configBefore}

\* A program taken up is built or found wrong in the end, and the status page
\* shows which: no child fails without a word.
BuildEnds ==
  \A f \in 1..MaxForms :
    f \in pending /\ kindOf[f].kind = "program" ~> builds = {} /\ compilationEnded

\* After /stop every controller is gone in the end, unless one is started anew.
StopWorks == ~plcRunning ~> plcRunning \/ \A p \in DOMAIN procs : procs[p].life = "gone"
=============================================================================
