-------------------------- MODULE WebServer_proofs --------------------------
(***************************************************************************)
(* Proofs about WebServer, for any files, forms and requests: as long as   *)
(* users finish one thing before the next, no two controllers are up       *)
(* together, and none is when the main page says "Stopped"; what runs is   *)
(* the program uploaded last that compiled, with a configuration at most   *)
(* one form old.                                                           *)
(* And about StOptimizer, the program its builds begin with, for programs  *)
(* of any length: the output executes what the input does, and comes out   *)
(* of a second run as it is.                                               *)
(***************************************************************************)
EXTENDS WebServer, StOptimizer, Induction, FiniteSetTheorems, SequenceTheorems

Lives == {"up", "terminating", "gone"}
Controller == [program : Nat, life : Lives]
Children == {"st_optimizer", "iec2c", "mv", "build_core.sh"}
Disk == [st : [Names -> File], pous : File, core : Nat, openplc : Nat, coreCfg : Nat, rootCfg : Nat]

\* What the variables are.
Shape ==
  /\ procs \in Seq(Controller) /\ procs # << >>
  /\ plcRunning \in BOOLEAN /\ compilationEnded \in BOOLEAN /\ compilationSuccess \in BOOLEAN
  /\ uploadedFileName \in Names \cup {NoFile}
  /\ forms \in 0..MaxForms /\ pending \subseteq 1..forms
  /\ builds \subseteq [id : Nat, child : Children, file : Names \cup {NoFile}]
  /\ helpers \subseteq [id : Nat, child : {"mv", "cp"}, file : Names \cup {NoFile}]
  /\ disk \in Disk

\* Only the controller spawned last is up, and only if plcRunning says so.
LastMayBeUp ==
  \A p \in DOMAIN procs : procs[p].life = "up" => p = Len(procs) /\ plcRunning

\* There is one form or one build at a time, and no controller during either.
OneAtATime ==
  /\ \A f, g \in pending : f = g
  /\ \A b, c \in builds : b = c
  /\ builds # {} => pending = {} /\ ~plcRunning

Orderly == Shape /\ LastMayBeUp /\ OneAtATime

-----------------------------------------------------------------------------
(* The controllers. *)

LEMMA InitOrderly == Init => Orderly
  <1> SUFFICES ASSUME Init PROVE Orderly
    OBVIOUS
  <1>1. Shape
    <2>1. procs \in Seq(Controller) /\ procs # << >>
      BY DEF Init, Controller, Lives
    <2>2. disk \in Disk
      BY WebAssumption DEF Init, Disk, File, Missing
    <2>3. forms \in 0..MaxForms /\ pending \subseteq 1..forms
      BY WebAssumption DEF Init
    <2> QED BY <2>1, <2>2, <2>3 DEF Init, Shape
  <1>2. LastMayBeUp  BY DEF Init, LastMayBeUp
  <1>3. OneAtATime  BY DEF Init, OneAtATime
  <1> QED BY <1>1, <1>2, <1>3 DEF Orderly

\* kill('SIGTERM') leaves none up.
LEMMA KillLeavesNone ==
  ASSUME Orderly
  PROVE  /\ Killed \in Seq(Controller) /\ Killed # << >> /\ Len(Killed) = Len(procs)
         /\ \A p \in DOMAIN Killed : Killed[p].life # "up"
  <1> DEFINE new == IF procs[openplc].life = "up" THEN "terminating" ELSE procs[openplc].life
  <1>1. procs \in Seq(Controller) /\ procs # << >> /\ Len(procs) \in DOMAIN procs
    BY DEF Orderly, Shape
  <1>2. procs[openplc] \in Controller
    BY <1>1 DEF openplc
  <1>3. [procs[openplc] EXCEPT !.life = new] \in Controller
    BY <1>2 DEF Controller, Lives
  <1>4. Killed = [procs EXCEPT ![openplc] = [procs[openplc] EXCEPT !.life = new]]
    BY DEF Killed
  <1>5. Killed \in Seq(Controller) /\ Len(Killed) = Len(procs) /\ Killed # << >>
    BY <1>1, <1>3, <1>4 DEF openplc
  <1>6. ASSUME NEW p \in DOMAIN Killed PROVE Killed[p].life # "up"
    <2>1. CASE p = openplc
      BY <2>1, <1>1, <1>2, <1>4 DEF openplc, Controller
    <2>2. CASE p # openplc
      BY <2>2, <1>1, <1>4, <1>6 DEF openplc, Orderly, LastMayBeUp
    <2> QED BY <2>1, <2>2
  <1> QED BY <1>5, <1>6

\* A new controller is the only one up if none was.
LEMMA SpawnLeavesOne ==
  ASSUME Orderly, ~plcRunning, disk' \in Disk
  PROVE  /\ Spawned \in Seq(Controller) /\ Spawned # << >>
         /\ \A p \in DOMAIN Spawned : Spawned[p].life = "up" => p = Len(Spawned)
  <1> DEFINE new == [program |-> disk'.openplc, life |-> "up"]
  <1>1. procs \in Seq(Controller)
    BY DEF Orderly, Shape
  <1>2. new \in Controller
    BY DEF Disk, Controller, Lives
  <1>3. /\ Append(procs, new) \in Seq(Controller) /\ Append(procs, new) # << >>
        /\ Len(Append(procs, new)) = Len(procs) + 1
        /\ \A p \in 1..Len(procs) : Append(procs, new)[p] = procs[p]
    BY <1>1, <1>2, AppendProperties
  <1>4. \A p \in 1..Len(procs) : procs[p].life # "up"
    BY <1>1 DEF Orderly, LastMayBeUp
  <1> QED BY <1>1, <1>3, <1>4 DEF Spawned

\* A life that ends.
LEMMA GoneOrderly ==
  ASSUME Orderly, NEW p \in DOMAIN procs, Terminate(p) \/ EndByItself(p)
  PROVE  Orderly'
  <1>1. procs' = [procs EXCEPT ![p] = [procs[p] EXCEPT !.life = "gone"]]
    BY DEF Terminate, EndByItself
  <1>2. UNCHANGED <<flags, uploadedFileName, pending, builds, helpers, disk, forms>>
    BY DEF Terminate, EndByItself
  <1>3. procs \in Seq(Controller) /\ procs # << >> /\ procs[p] \in Controller
    BY DEF Orderly, Shape
  <1>4. [procs[p] EXCEPT !.life = "gone"] \in Controller
    BY <1>3 DEF Controller, Lives
  <1>5. procs' \in Seq(Controller) /\ procs' # << >> /\ Len(procs') = Len(procs)
    BY <1>1, <1>3, <1>4
  <1>6. \A q \in DOMAIN procs' : procs'[q].life = "up" => procs[q].life = "up"
    BY <1>1, <1>3, <1>4, <1>5 DEF Controller
  <1>7. Shape'  BY <1>2, <1>5 DEF Orderly, Shape, flags
  <1>8. LastMayBeUp'  BY <1>2, <1>3, <1>5, <1>6 DEF Orderly, LastMayBeUp, flags
  <1>9. OneAtATime'  BY <1>2 DEF Orderly, OneAtATime, flags
  <1> QED BY <1>7, <1>8, <1>9 DEF Orderly

-----------------------------------------------------------------------------
(* The pages. *)

LEMMA RunOrderly ==
  ASSUME Patient, Orderly, Run
  PROVE  Orderly'
  <1>1. disk' \in Disk /\ ~plcRunning /\ procs' = Spawned /\ plcRunning' = TRUE
    BY DEF Run, Orderly, Shape
  <1>2. UNCHANGED <<compilationEnded, compilationSuccess, uploadedFileName, pending, builds,
                    helpers, disk, forms>>
    BY DEF Run
  <1>3. Shape'  BY <1>1, <1>2, SpawnLeavesOne DEF Orderly, Shape
  <1>4. LastMayBeUp'  BY <1>1, SpawnLeavesOne DEF LastMayBeUp
  <1>5. OneAtATime'  BY <1>2 DEF Run, Idle, Orderly, OneAtATime
  <1> QED BY <1>3, <1>4, <1>5 DEF Orderly

LEMMA StopOrderly ==
  ASSUME Orderly, Stop
  PROVE  Orderly'
  <1>1. procs' = Killed /\ plcRunning' = FALSE
    BY DEF Stop
  <1>2. UNCHANGED <<compilationEnded, compilationSuccess, uploadedFileName, pending, builds,
                    helpers, disk, forms>>
    BY DEF Stop
  <1>3. Shape'  BY <1>1, <1>2, KillLeavesNone DEF Orderly, Shape
  <1>4. LastMayBeUp'  BY <1>1, KillLeavesNone DEF LastMayBeUp
  <1>5. OneAtATime'  BY <1>1, <1>2 DEF Orderly, OneAtATime
  <1> QED BY <1>3, <1>4, <1>5 DEF Orderly

LEMMA SubmitOrderly ==
  ASSUME Patient, Orderly, NEW kind, NEW name \in Names \cup {NoFile}, Submit(kind, name)
  PROVE  Orderly'
  <1>1. forms' \in 0..MaxForms /\ forms' = forms + 1 /\ pending' = {forms'} /\ builds = {}
    BY WebAssumption DEF Submit, Idle, Orderly, Shape
  <1>2. UNCHANGED <<procs, flags, builds, helpers>>
    BY DEF Submit
  <1>3. disk' \in Disk
    <2>1. CASE name = NoFile
      BY <2>1 DEF Submit, Orderly, Shape
    <2>2. CASE name # NoFile
      <3>1. disk \in Disk /\ name \in Names
        BY <2>2 DEF Orderly, Shape
      <3>2. disk' = [disk EXCEPT !.st = [disk.st EXCEPT ![name] = forms']]
        BY <2>2 DEF Submit
      <3>3. forms' \in File
        BY <1>1, WebAssumption DEF File, Missing
      <3>4. [disk.st EXCEPT ![name] = forms'] \in [Names -> File]
        BY <3>1, <3>3 DEF Disk
      <3> QED BY <3>1, <3>2, <3>4 DEF Disk
    <2> QED BY <2>1, <2>2
  <1>4. uploadedFileName' \in Names \cup {NoFile}
    BY DEF Submit, Orderly, Shape
  <1>5. pending' \subseteq 1..forms'
    BY <1>1 DEF Orderly, Shape
  <1>6. Shape'  BY <1>1, <1>2, <1>3, <1>4, <1>5 DEF Orderly, Shape, flags
  <1>7. LastMayBeUp'  BY <1>2 DEF Orderly, LastMayBeUp, flags
  <1>8. OneAtATime'  BY <1>1, <1>2 DEF Orderly, OneAtATime, flags
  <1> QED BY <1>6, <1>7, <1>8 DEF Orderly

LEMMA UploadOrderly ==
  ASSUME Orderly, NEW f \in pending, Upload(f)
  PROVE  Orderly'
  <1> DEFINE new == [id |-> f, child |-> "st_optimizer", file |-> uploadedFileName]
  <1>1. procs' = Killed /\ plcRunning' = FALSE
    BY DEF Upload
  <1>2. UNCHANGED <<uploadedFileName, helpers, disk, forms>> /\ pending' = pending \ {f}
    BY DEF Upload
  <1>3. builds = {} /\ builds' = {new} /\ pending' = {}
    BY <1>2 DEF Upload, Orderly, OneAtATime
  <1>4. new \in [id : Nat, child : Children, file : Names \cup {NoFile}]
    BY DEF Orderly, Shape, Children
  <1>5. compilationEnded' \in BOOLEAN /\ compilationSuccess' \in BOOLEAN
    BY DEF Upload
  <1>6. Shape'  BY <1>1, <1>2, <1>3, <1>4, <1>5, KillLeavesNone DEF Orderly, Shape
  <1>7. LastMayBeUp'  BY <1>1, KillLeavesNone DEF LastMayBeUp
  <1>8. OneAtATime'  BY <1>1, <1>3 DEF OneAtATime
  <1> QED BY <1>6, <1>7, <1>8 DEF Orderly

LEMMA ChangeModbusCfgOrderly ==
  ASSUME Orderly, NEW f \in pending, ChangeModbusCfg(f)
  PROVE  Orderly'
  <1>1. UNCHANGED <<procs, flags, uploadedFileName, builds, disk, forms>> /\ pending' = pending \ {f}
    BY DEF ChangeModbusCfg
  <1>2. helpers' \subseteq [id : Nat, child : {"mv", "cp"}, file : Names \cup {NoFile}]
    BY DEF ChangeModbusCfg, Orderly, Shape
  <1>3. Shape'  BY <1>1, <1>2 DEF Orderly, Shape, flags
  <1>4. LastMayBeUp'  BY <1>1 DEF Orderly, LastMayBeUp, flags
  <1>5. OneAtATime'  BY <1>1 DEF Orderly, OneAtATime, flags
  <1> QED BY <1>3, <1>4, <1>5 DEF Orderly

-----------------------------------------------------------------------------
(* The children. *)

LEMMA ContentsIsFile ==
  ASSUME Shape, NEW b, b.file \in Names \cup {NoFile}
  PROVE  Contents(b) \in File
  BY WebAssumption DEF Shape, Disk, Contents, File, Missing

\* A build that goes on with its next child, whatever it did to the disk.
LEMMA AdvanceOrderly ==
  ASSUME Orderly, NEW b \in builds, NEW child \in Children, Advance(b, child), disk' \in Disk,
         UNCHANGED <<procs, flags, uploadedFileName, pending, helpers, forms>>
  PROVE  Orderly'
  <1>1. builds' = {[b EXCEPT !.child = child]}
    BY DEF Advance, Orderly, OneAtATime
  <1>2. [b EXCEPT !.child = child] \in [id : Nat, child : Children, file : Names \cup {NoFile}]
    BY DEF Orderly, Shape
  <1>3. Shape'  BY <1>1, <1>2 DEF Orderly, Shape, flags
  <1>4. LastMayBeUp'  BY DEF Orderly, LastMayBeUp, flags
  <1>5. OneAtATime'  BY <1>1 DEF Orderly, OneAtATime, flags
  <1> QED BY <1>3, <1>4, <1>5 DEF Orderly

LEMMA FailsOrderly ==
  ASSUME Orderly, NEW b \in builds, Fails(b)
  PROVE  Orderly'
  <1>1. UNCHANGED <<procs, plcRunning, compilationSuccess, uploadedFileName, pending, helpers,
                    disk, forms>>
    BY DEF Fails
  <1>2. builds' = {} /\ compilationEnded' = TRUE
    BY DEF Fails, Orderly, OneAtATime
  <1>3. Shape'  BY <1>1, <1>2 DEF Orderly, Shape
  <1>4. LastMayBeUp'  BY <1>1 DEF Orderly, LastMayBeUp
  <1>5. OneAtATime'  BY <1>1, <1>2 DEF Orderly, OneAtATime
  <1> QED BY <1>3, <1>4, <1>5 DEF Orderly

LEMMA BuildCoreOrderly ==
  ASSUME Orderly, NEW b \in builds, NEW ok \in BOOLEAN, BuildCore(b, ok)
  PROVE  Orderly'
  <1>1. ~plcRunning /\ pending = {}
    BY DEF Orderly, OneAtATime
  <1>2. disk' \in Disk
    BY DEF BuildCore, Orderly, Shape, Disk
  <1>3. procs' = Spawned /\ plcRunning' = TRUE /\ compilationSuccess' = TRUE
        /\ compilationEnded' = TRUE /\ UNCHANGED <<uploadedFileName, pending, helpers, forms>>
    BY DEF BuildCore
  <1>4. builds' = {}
    BY DEF BuildCore, Orderly, OneAtATime
  <1>5. Shape'  BY <1>1, <1>2, <1>3, <1>4, SpawnLeavesOne DEF Orderly, Shape
  <1>6. LastMayBeUp'  BY <1>1, <1>2, <1>3, SpawnLeavesOne DEF LastMayBeUp
  <1>7. OneAtATime'  BY <1>1, <1>3, <1>4 DEF OneAtATime
  <1> QED BY <1>5, <1>6, <1>7 DEF Orderly

LEMMA BuildOrderly ==
  ASSUME Orderly, NEW b \in builds, Build(b)
  PROVE  Orderly'
  <1>0. b \in [id : Nat, child : Children, file : Names \cup {NoFile}] /\ disk \in Disk
    BY DEF Orderly, Shape
  <1>1. CASE Optimize(b)
    BY <1>0, <1>1, AdvanceOrderly DEF Optimize, Children
  <1>2. CASE Compile(b)
    <2>1. Contents(b) \in File
      BY <1>0, ContentsIsFile DEF Orderly
    <2>2. disk' \in Disk
      BY <1>0, <1>2, <2>1 DEF Compile, Disk
    <2> QED BY <1>2, <2>2, AdvanceOrderly DEF Compile, Children
  <1>3. CASE MoveFiles(b)
    <2>1. disk.pous \in Nat /\ Missing \in File
      BY <1>0, <1>3, WebAssumption DEF MoveFiles, Disk, File, Missing
    <2>2. disk' \in Disk
      BY <1>0, <1>3, <2>1 DEF MoveFiles, Disk
    <2> QED BY <1>3, <2>2, AdvanceOrderly DEF MoveFiles, Children
  <1>4. CASE Fails(b)
    BY <1>4, FailsOrderly
  <1>5. ASSUME NEW ok \in BOOLEAN, BuildCore(b, ok) PROVE Orderly'
    BY <1>5, BuildCoreOrderly
  <1> QED BY <1>1, <1>2, <1>3, <1>4, <1>5 DEF Build

LEMMA HelperOrderly ==
  ASSUME Orderly, NEW h \in helpers, MoveConfig(h) \/ CopyConfig(h)
  PROVE  Orderly'
  <1>0. h \in [id : Nat, child : {"mv", "cp"}, file : Names \cup {NoFile}] /\ disk \in Disk
    BY DEF Orderly, Shape
  <1>1. UNCHANGED <<procs, flags, uploadedFileName, pending, builds, forms>> /\ helpers' \subseteq helpers
    BY DEF MoveConfig, CopyConfig
  <1>2. disk' \in Disk
    <2>1. CASE CopyConfig(h)
      BY <1>0, <2>1 DEF CopyConfig, Disk
    <2>2. CASE MoveConfig(h) /\ Contents(h) = Missing
      BY <1>0, <2>2 DEF MoveConfig
    <2>3. CASE MoveConfig(h) /\ Contents(h) # Missing
      <3>1. Contents(h) \in File /\ h.file \in Names
        BY <1>0, <2>3, ContentsIsFile DEF Orderly, Contents
      <3>2. Contents(h) \in Nat /\ Missing \in File
        BY <3>1, <2>3, WebAssumption DEF File, Missing
      <3>3. [disk.st EXCEPT ![h.file] = Missing] \in [Names -> File]
        BY <1>0, <3>1, <3>2 DEF Disk
      <3>4. disk' = [disk EXCEPT !.coreCfg = Contents(h), !.st = [disk.st EXCEPT ![h.file] = Missing]]
        BY <2>3 DEF MoveConfig
      <3> QED BY <1>0, <3>2, <3>3, <3>4 DEF Disk
    <2> QED BY <2>1, <2>2, <2>3
  <1>3. Shape'  BY <1>1, <1>2 DEF Orderly, Shape, flags
  <1>4. LastMayBeUp'  BY <1>1 DEF Orderly, LastMayBeUp, flags
  <1>5. OneAtATime'  BY <1>1 DEF Orderly, OneAtATime, flags
  <1> QED BY <1>3, <1>4, <1>5 DEF Orderly

-----------------------------------------------------------------------------
LEMMA NextOrderly ==
  ASSUME Patient, Orderly, [Next]_vars
  PROVE  Orderly'
  <1>1. CASE UNCHANGED vars
    BY <1>1 DEF vars, flags, history, Orderly, Shape, LastMayBeUp, OneAtATime
  <1>2. CASE Run  BY <1>2, RunOrderly
  <1>3. CASE Stop  BY <1>3, StopOrderly
  <1>4. ASSUME NEW n \in ProgramNames \cup {NoFile}, Submit("program", n) PROVE Orderly'
    BY <1>4, SubmitOrderly DEF Names
  <1>5. ASSUME NEW n \in ConfigNames \cup {NoFile}, Submit("config", n) PROVE Orderly'
    BY <1>5, SubmitOrderly DEF Names
  <1>6. ASSUME NEW f \in pending, Handle(f) PROVE Orderly'
    BY <1>6, UploadOrderly, ChangeModbusCfgOrderly DEF Handle
  <1>7. ASSUME NEW b \in builds, Build(b) PROVE Orderly'
    BY <1>7, BuildOrderly
  <1>8. ASSUME NEW h \in helpers, MoveConfig(h) \/ CopyConfig(h) PROVE Orderly'
    BY <1>8, HelperOrderly
  <1>9. ASSUME NEW p \in DOMAIN procs, Terminate(p) \/ EndByItself(p) PROVE Orderly'
    BY <1>9, GoneOrderly
  <1> QED BY <1>1, <1>2, <1>3, <1>4, <1>5, <1>6, <1>7, <1>8, <1>9 DEF Next

LEMMA AlwaysOrderly ==
  ASSUME Patient
  PROVE  Spec => []Orderly
  BY InitOrderly, NextOrderly, PTL DEF Spec

\* The types of WebServer: processes, flags, files and children are what the
\* callbacks take them for.
THEOREM WebTypeOK ==
  ASSUME Patient
  PROVE  Spec => []TypeOK
  <1>1. Orderly => TypeOK
    BY DEF Orderly, Shape, Controller, Lives, Children, Disk, TypeOK
  <1> QED BY <1>1, AlwaysOrderly, PTL

\* For users who finish one thing before the next, neither /run nor the end of
\* a build starts a controller beside another, and /stop and each upload
\* terminate the only one there is.
THEOREM WebOneController ==
  ASSUME Patient
  PROVE  Spec => []OneController
  <1>1. Orderly => OneController
    BY DEF Orderly, LastMayBeUp, OneController, Up, openplc
  <1> QED BY <1>1, AlwaysOrderly, PTL

-----------------------------------------------------------------------------
(* What runs and what is configured.  Uploaded is the file that the next     *)
(* handler will work on; At says which helper has not ended yet.             *)

Form   == [kind : {"program", "config"}, file : Names \cup {NoFile}]
Wanted == [program : Nat, config : Nat, configBefore : Nat]

Uploaded == IF uploadedFileName = NoFile THEN Missing ELSE disk.st[uploadedFileName]
At(child) == \E h \in helpers : h.child = child

\* The history of the forms.
Record == kindOf \in Seq(Form) /\ Len(kindOf) = forms /\ wanted \in Wanted

\* Forms, builds and helpers exclude one another, and all work on the file
\* uploaded last.
OneHelp ==
  /\ helpers # {} => pending = {} /\ builds = {}
  /\ \A g, h \in helpers : g.child = h.child => g = h
  /\ \A h \in helpers : h.file = uploadedFileName
  /\ \A b \in builds : b.file = uploadedFileName

\* The file uploaded last is that of the form at hand, is on its way to core/,
\* or is the program taken up last; it may be gone.
UploadTaken ==
  /\ \A f \in pending :
       /\ kindOf[f].kind = "config" => kindOf[f].file # NoFile
       /\ kindOf[f].file # NoFile => Uploaded = f
       /\ kindOf[f].file = NoFile => Uploaded \in {Missing, wanted.program}
  /\ At("mv") => Uploaded = wanted.config
  /\ pending = {} /\ ~At("mv") => Uploaded \in {Missing, wanted.program}

\* What a build has made of it so far.
Chain ==
  \A b \in builds :
    /\ b.child = "mv" => disk.pous = wanted.program
    /\ b.child = "build_core.sh" => disk.core = wanted.program

\* What the flags of the status page stand for.
Built ==
  /\ compilationSuccess => builds = {}
  /\ compilationEnded => builds = {}
  /\ compilationSuccess /\ ~linkFailed =>
       disk.openplc = wanted.program /\ procs[Len(procs)].program = wanted.program

\* Which configurations are in core/ and ./ while mv and cp are under way.
Configured ==
  /\ disk.coreCfg = IF At("mv") THEN wanted.configBefore ELSE wanted.config
  /\ ~At("cp") => disk.rootCfg \in {wanted.config, wanted.configBefore}

Kept == Record /\ OneHelp /\ UploadTaken /\ Chain /\ Built /\ Configured

LEMMA InitKept == Init => Kept
  <1> SUFFICES ASSUME Init PROVE Kept
    OBVIOUS
  <1>1. Record  BY DEF Init, Record, Wanted
  <1>2. OneHelp /\ Chain /\ Built  BY DEF Init, OneHelp, Chain, Built
  <1>3. UploadTaken /\ Configured  BY DEF Init, UploadTaken, Configured, Uploaded, At
  <1> QED BY <1>1, <1>2, <1>3 DEF Kept

\* Steps that touch controllers and flags only.
LEMMA PageKept ==
  ASSUME Kept,
         UNCHANGED <<compilationEnded, compilationSuccess, uploadedFileName, pending, builds,
                     helpers, disk, forms, history>>,
         procs'[Len(procs')].program = procs[Len(procs)].program
         \/ procs'[Len(procs')].program = disk.openplc
  PROVE  Kept'
  <1>1. Record' /\ OneHelp' /\ Chain'
    BY DEF Kept, Record, OneHelp, Chain, history
  <1>2. UploadTaken' /\ Configured'
    BY DEF Kept, UploadTaken, Configured, Uploaded, At, history
  <1>3. Built'
    BY DEF Kept, Built, history
  <1> QED BY <1>1, <1>2, <1>3 DEF Kept

LEMMA GoneKept ==
  ASSUME Orderly, Kept, NEW p \in DOMAIN procs, Terminate(p) \/ EndByItself(p)
  PROVE  Kept'
  <1>1. procs' = [procs EXCEPT ![p] = [procs[p] EXCEPT !.life = "gone"]]
    BY DEF Terminate, EndByItself
  <1>2. procs \in Seq(Controller) /\ procs # << >> /\ Len(procs) \in DOMAIN procs
    BY DEF Orderly, Shape
  <1>3. Len(procs') = Len(procs) /\ procs'[Len(procs)].program = procs[Len(procs)].program
    BY <1>1, <1>2 DEF Controller
  <1>4. UNCHANGED <<compilationEnded, compilationSuccess, uploadedFileName, pending, builds,
                    helpers, disk, forms, history>>
    BY DEF Terminate, EndByItself, flags
  <1> QED BY <1>3, <1>4, PageKept

LEMMA RunKept ==
  ASSUME Orderly, Kept, Run
  PROVE  Kept'
  <1>1. procs \in Seq(Controller) /\ procs' = Append(procs, [program |-> disk.openplc, life |-> "up"])
    BY DEF Run, Spawned, Orderly, Shape
  <1>2. procs'[Len(procs')].program = disk.openplc
    BY <1>1
  <1> QED BY <1>2, PageKept DEF Run

LEMMA StopKept ==
  ASSUME Orderly, Kept, Stop
  PROVE  Kept'
  <1>1. procs \in Seq(Controller) /\ procs # << >> /\ Len(procs) \in DOMAIN procs
    BY DEF Orderly, Shape
  <1> DEFINE last == procs[Len(procs)]
             new  == IF last.life = "up" THEN "terminating" ELSE last.life
  <1>2. last \in Controller
    BY <1>1
  <1>3. [last EXCEPT !.life = new] \in Controller
        /\ [last EXCEPT !.life = new].program = last.program
    BY <1>2 DEF Controller, Lives
  <1>4. procs' = [procs EXCEPT ![Len(procs)] = [last EXCEPT !.life = new]]
    BY DEF Stop, Killed, openplc
  <1>5. Len(procs') = Len(procs) /\ procs'[Len(procs)] = [last EXCEPT !.life = new]
    BY <1>1, <1>3, <1>4
  <1> QED BY <1>3, <1>5, PageKept DEF Stop

\* A form and its file: nothing else is under way.
LEMMA SubmitKept ==
  ASSUME Patient, Orderly, Kept, NEW kind \in {"program", "config"},
         NEW name \in Names \cup {NoFile}, Submit(kind, name)
  PROVE  Kept'
  <1> DEFINE form == [kind |-> kind, file |-> name]
  <1>1. /\ forms' = forms + 1 /\ forms \in Nat
        /\ pending = {} /\ builds = {} /\ helpers = {} /\ pending' = {forms'}
        /\ kind = "config" => name # NoFile
    BY WebAssumption DEF Submit, Idle, Orderly, Shape
  <1>2. UNCHANGED <<procs, flags, builds, helpers, wanted, linkFailed>>
    BY DEF Submit
  <1>3. kindOf \in Seq(Form) /\ Len(kindOf) = forms /\ kindOf' = Append(kindOf, form) /\ form \in Form
    BY DEF Submit, Kept, Record, Form
  <1>4. kindOf' \in Seq(Form) /\ Len(kindOf') = forms' /\ kindOf'[forms'] = form
    BY <1>1, <1>3
  <1>5. /\ disk'.pous = disk.pous /\ disk'.core = disk.core /\ disk'.openplc = disk.openplc
        /\ disk'.coreCfg = disk.coreCfg /\ disk'.rootCfg = disk.rootCfg
        /\ name = NoFile => Uploaded' = Uploaded
        /\ name # NoFile => Uploaded' = forms'
    <2>1. CASE name = NoFile
      BY <2>1 DEF Submit, Uploaded
    <2>2. CASE name # NoFile
      <3>1. disk \in Disk /\ name \in Names
        BY <2>2 DEF Orderly, Shape
      <3>2. disk' = [disk EXCEPT !.st = [disk.st EXCEPT ![name] = forms']] /\ uploadedFileName' = name
        BY <2>2 DEF Submit
      <3>3. disk'.st[name] = forms'
        BY <3>1, <3>2 DEF Disk
      <3> QED BY <2>2, <3>1, <3>2, <3>3 DEF Disk, Uploaded
    <2> QED BY <2>1, <2>2
  <1>6. Uploaded \in {Missing, wanted.program}
    BY <1>1 DEF Kept, UploadTaken, At
  <1>7. Record' /\ OneHelp'
    BY <1>1, <1>2, <1>4 DEF Kept, Record, OneHelp
  <1>8. UploadTaken'
    BY <1>1, <1>2, <1>4, <1>5, <1>6 DEF UploadTaken, At
  <1>9. Chain' /\ Built' /\ Configured'
    BY <1>1, <1>2, <1>5 DEF Kept, Chain, Built, Configured, At, flags
  <1> QED BY <1>7, <1>8, <1>9 DEF Kept

LEMMA UploadKept ==
  ASSUME Orderly, Kept, NEW f \in pending, Upload(f)
  PROVE  Kept'
  <1> DEFINE new == [id |-> f, child |-> "st_optimizer", file |-> uploadedFileName]
  <1>1. pending' = {} /\ builds' = {new} /\ helpers = {}
    BY DEF Upload, Orderly, OneAtATime, Kept, OneHelp
  <1>2. /\ UNCHANGED <<uploadedFileName, helpers, disk, forms, kindOf, linkFailed>>
        /\ compilationEnded' = FALSE /\ compilationSuccess' = FALSE
    BY DEF Upload
  <1>3. f \in Nat /\ wanted \in Wanted
    BY DEF Orderly, Shape, Kept, Record
  <1>4. /\ wanted' \in Wanted /\ wanted'.config = wanted.config
        /\ wanted'.configBefore = wanted.configBefore
        /\ wanted'.program = IF kindOf[f].file = NoFile THEN wanted.program ELSE f
    BY <1>3 DEF Upload, Wanted
  <1>5. Uploaded' = Uploaded /\ Uploaded \in {Missing, wanted'.program}
    BY <1>2, <1>4 DEF Kept, UploadTaken, Uploaded
  <1>6. Record'  BY <1>2, <1>4 DEF Kept, Record
  <1>7. OneHelp'  BY <1>1, <1>2 DEF OneHelp
  <1>8. UploadTaken'  BY <1>1, <1>2, <1>5 DEF UploadTaken, At
  <1>9. Chain' /\ Built'  BY <1>1, <1>2 DEF Chain, Built
  <1>10. Configured'  BY <1>2, <1>4 DEF Kept, Configured, At
  <1> QED BY <1>6, <1>7, <1>8, <1>9, <1>10 DEF Kept

LEMMA ChangeModbusCfgKept ==
  ASSUME Orderly, Kept, NEW f \in pending, ChangeModbusCfg(f)
  PROVE  Kept'
  <1> DEFINE new(c) == [id |-> f, child |-> c, file |-> uploadedFileName]
  <1>1. pending' = {} /\ builds = {} /\ helpers = {} /\ helpers' = {new("mv"), new("cp")}
    BY DEF ChangeModbusCfg, Orderly, OneAtATime, Kept, OneHelp
  <1>2. UNCHANGED <<procs, flags, uploadedFileName, builds, disk, forms, kindOf, linkFailed>>
    BY DEF ChangeModbusCfg
  <1>3. f \in Nat /\ wanted \in Wanted /\ kindOf[f].file # NoFile /\ Uploaded = f
    BY DEF Orderly, Shape, Kept, Record, UploadTaken, ChangeModbusCfg
  <1>4. /\ wanted' \in Wanted /\ wanted'.program = wanted.program
        /\ wanted'.config = f /\ wanted'.configBefore = wanted.config
    BY <1>3 DEF ChangeModbusCfg, Wanted
  <1>5. At("mv")' /\ At("cp")'
    BY <1>1 DEF At
  <1>6. Record'  BY <1>2, <1>4 DEF Kept, Record
  <1>7. OneHelp'  BY <1>1, <1>2 DEF OneHelp
  <1>8. UploadTaken'  BY <1>1, <1>2, <1>3, <1>4, <1>5 DEF UploadTaken, Uploaded
  <1>9. Chain' /\ Built'  BY <1>1, <1>2, <1>4 DEF Kept, Chain, Built, flags
  <1>10. Configured'
    BY <1>1, <1>2, <1>4, <1>5 DEF Kept, Configured, At
  <1> QED BY <1>6, <1>7, <1>8, <1>9, <1>10 DEF Kept

\* A build that goes on, or ends, leaves the files of forms alone.
LEMMA BuildStepKept ==
  ASSUME Orderly, Kept, NEW b \in builds,
         UNCHANGED <<uploadedFileName, pending, helpers, forms, kindOf, wanted>>,
         disk'.st = disk.st, disk'.coreCfg = disk.coreCfg, disk'.rootCfg = disk.rootCfg,
         \A c \in builds' : c.file = uploadedFileName
  PROVE  Record' /\ OneHelp' /\ UploadTaken' /\ Configured'
  <1>1. Record'  BY DEF Kept, Record
  <1>2. OneHelp'  BY DEF Kept, OneHelp
  <1>3. UploadTaken'  BY DEF Kept, UploadTaken, Uploaded, At
  <1>4. Configured'  BY DEF Kept, Configured, At
  <1> QED BY <1>1, <1>2, <1>3, <1>4

\* The child that a build goes on with, and what is on the disk for it.
LEMMA AdvanceKept ==
  ASSUME Orderly, Kept, NEW b \in builds, NEW child \in Children, Advance(b, child),
         UNCHANGED <<procs, flags, uploadedFileName, pending, helpers, forms, history>>,
         disk'.st = disk.st, disk'.coreCfg = disk.coreCfg, disk'.rootCfg = disk.rootCfg,
         child = "mv" => disk'.pous = wanted.program,
         child = "build_core.sh" => disk'.core = wanted.program
  PROVE  Kept'
  <1>0. b \in [id : Nat, child : Children, file : Names \cup {NoFile}] /\ b.file = uploadedFileName
    BY DEF Orderly, Shape, Kept, OneHelp
  <1>1. PICK c : c = [b EXCEPT !.child = child]
    OBVIOUS
  <1>2. builds' = {c} /\ c.child = child /\ c.file = uploadedFileName
    BY <1>0, <1>1 DEF Advance, Orderly, OneAtATime
  <1>3. Record' /\ OneHelp' /\ UploadTaken' /\ Configured'
    BY <1>2, BuildStepKept DEF history
  <1>4. Chain'
    BY <1>2 DEF Chain, history
  <1>5. Built'
    BY <1>2 DEF Kept, Built, flags, history
  <1> QED BY <1>3, <1>4, <1>5 DEF Kept

LEMMA BuildKept ==
  ASSUME Orderly, Kept, NEW b \in builds, Build(b)
  PROVE  Kept'
  <1>0. /\ disk \in Disk /\ b.file = uploadedFileName
        /\ \A c \in builds : c = b
        /\ pending = {} /\ helpers = {}
    BY DEF Orderly, Shape, OneAtATime, Kept, OneHelp
  <1>1. CASE Optimize(b)
    BY <1>1, AdvanceKept DEF Optimize, Children
  <1>2. CASE Compile(b)
    <2>1. Contents(b) = Uploaded /\ Contents(b) # Missing
      BY <1>0, <1>2 DEF Compile, Contents, Uploaded
    <2>2. Contents(b) = wanted.program
      BY <1>0, <2>1 DEF Kept, UploadTaken, At
    <2>3. /\ disk'.pous = wanted.program /\ disk'.st = disk.st
          /\ disk'.coreCfg = disk.coreCfg /\ disk'.rootCfg = disk.rootCfg
      BY <1>0, <1>2, <2>2 DEF Compile, Disk
    <2> QED BY <1>2, <2>3, AdvanceKept DEF Compile, Children
  <1>3. CASE MoveFiles(b)
    <2>1. /\ disk'.core = wanted.program /\ disk'.st = disk.st
          /\ disk'.coreCfg = disk.coreCfg /\ disk'.rootCfg = disk.rootCfg
      BY <1>0, <1>3 DEF MoveFiles, Disk, Kept, Chain
    <2> QED BY <1>3, <2>1, AdvanceKept DEF MoveFiles, Children
  <1>4. CASE Fails(b)
    <2>1. builds' = {} /\ disk' = disk
      BY <1>0, <1>4 DEF Fails
    <2>2. Record' /\ OneHelp' /\ UploadTaken' /\ Configured'
      BY <1>4, <2>1, BuildStepKept DEF Fails, history
    <2>3. Chain' /\ Built'
      BY <1>4, <2>1 DEF Fails, Kept, Chain, Built, history
    <2> QED BY <2>2, <2>3 DEF Kept
  <1>5. ASSUME NEW ok \in BOOLEAN, BuildCore(b, ok) PROVE Kept'
    <2>1. builds' = {} /\ linkFailed' = ~ok /\ UNCHANGED <<pending, helpers, forms, kindOf, wanted>>
      BY <1>0, <1>5 DEF BuildCore
    <2>2. /\ disk'.st = disk.st /\ disk'.coreCfg = disk.coreCfg /\ disk'.rootCfg = disk.rootCfg
          /\ ok => disk'.openplc = wanted.program
      BY <1>0, <1>5 DEF BuildCore, Disk, Kept, Chain
    <2>3. Record' /\ OneHelp' /\ UploadTaken' /\ Configured'
      BY <1>5, <2>1, <2>2, BuildStepKept DEF BuildCore
    <2>4. procs \in Seq(Controller) /\ procs' = Append(procs, [program |-> disk'.openplc, life |-> "up"])
      BY <1>5 DEF BuildCore, Spawned, Orderly, Shape
    <2>5. procs'[Len(procs')].program = disk'.openplc
      BY <2>4
    <2>6. Chain' /\ Built'
      BY <2>1, <2>2, <2>5 DEF Chain, Built
    <2> QED BY <2>3, <2>6 DEF Kept
  <1> QED BY <1>1, <1>2, <1>3, <1>4, <1>5 DEF Build

\* One helper ends: mv takes the upload to core/, cp what is there to ./.
LEMMA HelperKept ==
  ASSUME Orderly, Kept, NEW h \in helpers, MoveConfig(h) \/ CopyConfig(h)
  PROVE  Kept'
  <1>0. /\ disk \in Disk /\ h.file = uploadedFileName
        /\ h.child \in {"mv", "cp"} /\ uploadedFileName \in Names \cup {NoFile}
        /\ pending = {} /\ builds = {} /\ wanted \in Wanted
        /\ \A g \in helpers : g.child = h.child => g = h
    BY DEF Orderly, Shape, Kept, OneHelp, Record
  <1>1. /\ UNCHANGED <<procs, flags, uploadedFileName, pending, builds, forms, history>>
        /\ helpers' = helpers \ {h}
    BY DEF MoveConfig, CopyConfig
  <1>2. disk'.openplc = disk.openplc
    BY <1>0 DEF MoveConfig, CopyConfig, Disk
  <1>3. Record'  BY <1>1 DEF Kept, Record, history
  <1>4. OneHelp'  BY <1>1 DEF Kept, OneHelp
  <1>5. Chain' /\ Built'
    BY <1>0, <1>1, <1>2 DEF Kept, Chain, Built, flags, history
  <1>6. CASE MoveConfig(h)
    <2>1. At("mv") /\ ~At("mv")' /\ At("cp")' = At("cp")
      BY <1>0, <1>1, <1>6 DEF MoveConfig, At
    <2>2. Contents(h) = Uploaded /\ Uploaded = wanted.config /\ Uploaded # Missing
      BY <1>0, <2>1 DEF Contents, Uploaded, Kept, UploadTaken, Wanted, Missing
    <2>3. h.file \in Names
      BY <1>0, <2>2 DEF Uploaded
    <2>4. disk' = [disk EXCEPT !.coreCfg = wanted.config, !.st = [disk.st EXCEPT ![h.file] = Missing]]
      BY <1>6, <2>2 DEF MoveConfig
    <2>5. disk'.coreCfg = wanted.config /\ disk'.rootCfg = disk.rootCfg /\ disk'.st[h.file] = Missing
      BY <1>0, <2>3, <2>4 DEF Disk
    <2>6. UploadTaken'
      BY <1>0, <1>1, <2>1, <2>5 DEF UploadTaken, Uploaded
    <2>7. Configured'
      BY <1>1, <2>1, <2>5 DEF Kept, Configured, history
    <2> QED BY <1>3, <1>4, <1>5, <2>6, <2>7 DEF Kept
  <1>7. CASE CopyConfig(h)
    <2>1. At("mv")' = At("mv")
      BY <1>1, <1>7 DEF CopyConfig, At
    <2>2. disk'.coreCfg = disk.coreCfg /\ disk'.rootCfg = disk.coreCfg /\ disk'.st = disk.st
      BY <1>0, <1>7 DEF CopyConfig, Disk
    <2>3. UploadTaken'
      BY <1>0, <1>1, <2>1, <2>2 DEF Kept, UploadTaken, Uploaded, history
    <2>4. Configured'
      BY <1>1, <2>1, <2>2 DEF Kept, Configured, history
    <2> QED BY <1>3, <1>4, <1>5, <2>3, <2>4 DEF Kept
  <1> QED BY <1>6, <1>7

LEMMA NextKept ==
  ASSUME Patient, Orderly, Kept, [Next]_vars
  PROVE  Kept'
  <1>1. CASE UNCHANGED vars
    <2>1. /\ UNCHANGED <<compilationEnded, compilationSuccess, uploadedFileName, pending, builds,
                         helpers, disk, forms, history>>
          /\ procs' = procs
      BY <1>1 DEF vars, history
    <2>2. procs'[Len(procs')].program = procs[Len(procs)].program
      BY <2>1
    <2> QED BY <2>1, <2>2, PageKept
  <1>2. CASE Run  BY <1>2, RunKept
  <1>3. CASE Stop  BY <1>3, StopKept
  <1>4. ASSUME NEW n \in ProgramNames \cup {NoFile}, Submit("program", n) PROVE Kept'
    BY <1>4, SubmitKept DEF Names
  <1>5. ASSUME NEW n \in ConfigNames \cup {NoFile}, Submit("config", n) PROVE Kept'
    BY <1>5, SubmitKept DEF Names
  <1>6. ASSUME NEW f \in pending, Handle(f) PROVE Kept'
    BY <1>6, UploadKept, ChangeModbusCfgKept DEF Handle
  <1>7. ASSUME NEW b \in builds, Build(b) PROVE Kept'
    BY <1>7, BuildKept
  <1>8. ASSUME NEW h \in helpers, MoveConfig(h) \/ CopyConfig(h) PROVE Kept'
    BY <1>8, HelperKept
  <1>9. ASSUME NEW p \in DOMAIN procs, Terminate(p) \/ EndByItself(p) PROVE Kept'
    BY <1>9, GoneKept
  <1> QED BY <1>1, <1>2, <1>3, <1>4, <1>5, <1>6, <1>7, <1>8, <1>9 DEF Next

LEMMA AlwaysKept ==
  ASSUME Patient
  PROVE  Spec => []Kept
  <1>1. Orderly /\ Kept /\ [Next]_vars => Kept'
    BY NextKept
  <1> QED BY <1>1, InitKept, AlwaysOrderly, PTL DEF Spec

\* The status page never claims success for another program than the one
\* uploaded last, across any number of uploads, failed builds, configurations,
\* /run and /stop, and shows no result before the build is over.
THEOREM WebRunsLastUpload ==
  ASSUME Patient
  PROVE  Spec => []RunsLastUpload
  <1>1. Kept => RunsLastUpload
    BY DEF Kept, Built, RunsLastUpload, openplc
  <1> QED BY <1>1, AlwaysKept, PTL

\* mv and cp start together, and whichever ends first, ./ holds the
\* configuration uploaded last or the one before it, never an older one.
THEOREM WebConfigAtMostOneBehind ==
  ASSUME Patient
  PROVE  Spec => []ConfigAtMostOneBehind
  <1>1. Kept => ConfigAtMostOneBehind
    BY DEF Kept, Configured, At, ConfigAtMostOneBehind
  <1> QED BY <1>1, AlwaysKept, PTL

-----------------------------------------------------------------------------
(* The ST optimizer, which the web server runs on each program it builds:   *)
(* the depth of the lines of a program.                                      *)

\* What a line adds to the depth.
Turn(line) == IF line.kind = "IF" THEN 1 ELSE IF line.kind = "END_IF" THEN -1 ELSE 0

LEMMA CountType ==
  ASSUME NEW p, NEW i \in Nat, NEW j \in Int, NEW kind
  PROVE  Count(p, i, j, kind) \in Nat
<1>1. IsFiniteSet(i..j)
  BY FS_Interval
<1>2. {k \in i..j : p[k].kind = kind} \in SUBSET (i..j)
  OBVIOUS
<1>3. IsFiniteSet({k \in i..j : p[k].kind = kind})
  BY <1>1, <1>2, FS_Subset
<1> QED BY <1>3, FS_CardinalityType DEF Count

\* The empty interval has no lines, and one line more counts if it is of the kind.
LEMMA CountNone ==
  ASSUME NEW p, NEW i \in Nat, NEW kind
  PROVE  Count(p, i, i - 1, kind) = 0
<1>1. {k \in i..(i - 1) : p[k].kind = kind} = {}
  OBVIOUS
<1> QED BY <1>1, FS_EmptySet DEF Count

LEMMA CountNext ==
  ASSUME NEW p, NEW i \in Nat, NEW j \in Int, i <= j + 1, NEW kind
  PROVE  Count(p, i, j + 1, kind) = Count(p, i, j, kind) + (IF p[j + 1].kind = kind THEN 1 ELSE 0)
<1> DEFINE A == {k \in i..j : p[k].kind = kind}
<1>1. IsFiniteSet(i..j) /\ A \in SUBSET (i..j)
  BY FS_Interval
<1>2. IsFiniteSet(A) /\ j + 1 \notin A
  BY <1>1, FS_Subset
<1>3. CASE p[j + 1].kind = kind
  <2>1. {k \in i..(j + 1) : p[k].kind = kind} = A \cup {j + 1}
    BY <1>3
  <2> HIDE DEF A
  <2>2. Cardinality(A \cup {j + 1}) = Cardinality(A) + 1
    BY <1>2, FS_AddElement
  <2>3. Count(p, i, j + 1, kind) = Cardinality(A \cup {j + 1})
    BY <2>1 DEF Count
  <2>4. Count(p, i, j, kind) = Cardinality(A)
    BY DEF Count, A
  <2> QED BY <1>3, <2>2, <2>3, <2>4
<1>4. CASE p[j + 1].kind # kind
  <2>1. {k \in i..(j + 1) : p[k].kind = kind} = A
    BY <1>4
  <2>2. Count(p, i, j + 1, kind) = Count(p, i, j, kind)
    BY <2>1 DEF Count
  <2>3. Count(p, i, j, kind) \in Nat
    BY CountType
  <2> QED BY <1>4, <2>2, <2>3
<1> QED BY <1>3, <1>4

\* The depth before the first line and after one more.
LEMMA DepthNext ==
  ASSUME NEW p
  PROVE  /\ Depth(p, 0) = 0
         /\ \A j \in Nat : Depth(p, j) \in Int /\ Depth(p, j + 1) = Depth(p, j) + Turn(p[j + 1])
<1>1. Depth(p, 0) = 0
  <2>1. Count(p, 1, 1 - 1, "IF") = 0 /\ Count(p, 1, 1 - 1, "END_IF") = 0
    BY CountNone
  <2> QED BY <2>1 DEF Depth
<1>2. ASSUME NEW j \in Nat
      PROVE  Depth(p, j) \in Int /\ Depth(p, j + 1) = Depth(p, j) + Turn(p[j + 1])
  <2>1. PICK a \in Nat, b \in Nat : a = Count(p, 1, j, "IF") /\ b = Count(p, 1, j, "END_IF")
    BY CountType
  <2>2. Count(p, 1, j + 1, "IF") = a + (IF p[j + 1].kind = "IF" THEN 1 ELSE 0)
    BY <2>1, CountNext
  <2>3. Count(p, 1, j + 1, "END_IF") = b + (IF p[j + 1].kind = "END_IF" THEN 1 ELSE 0)
    BY <2>1, CountNext
  <2>4. "IF" # "END_IF"
    OBVIOUS
  <2> QED BY <2>1, <2>2, <2>3, <2>4 DEF Depth, Turn
<1> QED BY <1>1, <1>2

\* What is counted from a line on is the difference of two depths.
LEMMA DepthFrom ==
  ASSUME NEW p, NEW i \in Nat, i # 0, NEW y \in Nat
  PROVE  Count(p, i, i - 1 + y, "IF") - Count(p, i, i - 1 + y, "END_IF")
           = Depth(p, i - 1 + y) - Depth(p, i - 1)
<1> DEFINE T == {z \in Nat : Count(p, i, i - 1 + z, "IF") - Count(p, i, i - 1 + z, "END_IF")
                               = Depth(p, i - 1 + z) - Depth(p, i - 1)}
<1>0. i - 1 \in Nat
  OBVIOUS
<1>1. 0 \in T
  <2>1. Count(p, i, i - 1, "IF") = 0 /\ Count(p, i, i - 1, "END_IF") = 0
    BY CountNone
  <2>2. Depth(p, i - 1) \in Int
    BY <1>0, DepthNext
  <2>3. i - 1 + 0 = i - 1 /\ 0 \in Nat
    OBVIOUS
  <2>4. 0 - 0 = Depth(p, i - 1) - Depth(p, i - 1)
    BY <2>2
  <2> QED BY <2>1, <2>3, <2>4
<1>2. ASSUME NEW z \in Nat, z \in T PROVE z + 1 \in T
  <2>1. PICK j \in Nat : j = i - 1 + z /\ i - 1 + (z + 1) = j + 1 /\ i <= j + 1
    BY <1>0
  <2>2. PICK a \in Nat, b \in Nat : a = Count(p, i, j, "IF") /\ b = Count(p, i, j, "END_IF")
    BY CountType
  <2>a. j \in Int /\ i <= j + 1
    BY <2>1
  <2>3. Count(p, i, j + 1, "IF") = a + (IF p[j + 1].kind = "IF" THEN 1 ELSE 0)
    <3>1. Count(p, i, j + 1, "IF")
            = Count(p, i, j, "IF") + (IF p[j + 1].kind = "IF" THEN 1 ELSE 0)
      BY <2>a, CountNext
    <3> QED BY <2>2, <3>1, Zenon
  <2>4. Count(p, i, j + 1, "END_IF") = b + (IF p[j + 1].kind = "END_IF" THEN 1 ELSE 0)
    <3>1. Count(p, i, j + 1, "END_IF")
            = Count(p, i, j, "END_IF") + (IF p[j + 1].kind = "END_IF" THEN 1 ELSE 0)
      BY <2>a, CountNext
    <3> QED BY <2>2, <3>1, Zenon
  <2>5. PICK c \in Int, d \in Int : c = Depth(p, j) /\ d = Depth(p, i - 1)
    BY <1>0, DepthNext
  <2>6. Depth(p, j + 1) = c + Turn(p[j + 1])
    BY <2>5, DepthNext
  <2>7. a - b = c - d
    BY <1>2, <2>1, <2>2, <2>5
  <2>8. Count(p, i, j + 1, "IF") - Count(p, i, j + 1, "END_IF") = Depth(p, j + 1) - d
    BY <2>3, <2>4, <2>6, <2>7 DEF Turn
  <2>9. z + 1 \in Nat
    OBVIOUS
  <2> QED BY <2>1, <2>5, <2>8, <2>9
<1> HIDE DEF T
<1>3. y \in T
  BY <1>1, <1>2, SetInduction
<1> QED BY <1>3 DEF T

-----------------------------------------------------------------------------
(* Programs whose IFs are closed. *)

Lines == IfLines \cup {EndIf, Else} \cup {Statement(k) : k \in Nat}

\* No END_IF without its IF, and no IF without its END_IF.
Balanced(p) ==
  /\ p \in Seq(Lines)
  /\ \A k \in 0..Len(p) : Depth(p, k) >= 0
  /\ Depth(p, Len(p)) = 0

LEMMA LineKinds ==
  ASSUME NEW l \in Lines
  PROVE  /\ l.kind \in {"IF", "END_IF", "ELSE", "statement"}
         /\ l.kind = "IF" => l \in IfLines
         /\ l.kind = "END_IF" => l = EndIf
         /\ l.kind = "ELSE" => l = Else
         /\ l.kind = "statement" => \E k \in Nat : l = Statement(k)
<1>1. CASE l \in IfLines
  BY <1>1, OptimizerAssumption
<1>2. CASE l = EndIf
  BY <1>2 DEF EndIf
<1>3. CASE l = Else
  BY <1>3 DEF Else
<1>4. CASE l \in {Statement(k) : k \in Nat}
  BY <1>4 DEF Statement
<1> QED BY <1>1, <1>2, <1>3, <1>4 DEF Lines

\* The depth from line to line.
LEMMA Steps ==
  ASSUME NEW p, Balanced(p)
  PROVE  /\ Len(p) \in Nat /\ DOMAIN p = 1..Len(p) /\ Depth(p, 0) = 0
         /\ \A k \in 0..Len(p) : Depth(p, k) \in Nat
         /\ \A k \in 1..Len(p) : /\ p[k] \in Lines
                                 /\ k - 1 \in 0..Len(p)
                                 /\ Depth(p, k) = Depth(p, k - 1) + Turn(p[k])
<1>1. Len(p) \in Nat /\ DOMAIN p = 1..Len(p) /\ \A k \in 1..Len(p) : p[k] \in Lines
  BY DEF Balanced
<1>2. \A k \in 0..Len(p) : k \in Nat
  OBVIOUS
<1>3. \A k \in 0..Len(p) : Depth(p, k) \in Nat
  BY <1>2, DepthNext DEF Balanced
<1>4. ASSUME NEW k \in 1..Len(p)
      PROVE  k - 1 \in 0..Len(p) /\ Depth(p, k) = Depth(p, k - 1) + Turn(p[k])
  <2>1. PICK j \in Nat : k = j + 1 /\ j = k - 1
    <3>1. k - 1 \in Nat /\ k = (k - 1) + 1
      BY <1>1
    <3> QED BY <3>1
  <2>2. Depth(p, j + 1) = Depth(p, j) + Turn(p[j + 1])
    BY DepthNext
  <2>3. k - 1 \in 0..Len(p)
    BY <1>1
  <2> QED BY <2>1, <2>2, <2>3
<1> QED BY <1>1, <1>3, <1>4, DepthNext

\* e is where the IF at line i ends.
Ends(p, i, e) ==
  /\ e \in (i + 1)..Len(p) /\ Depth(p, e) = Depth(p, i) - 1
  /\ \A k \in i..(e - 1) : Depth(p, k) >= Depth(p, i)

\* In the terms of count_for_break.
LEMMA CountDepth ==
  ASSUME NEW p, Balanced(p), NEW i \in 1..Len(p), p[i].kind = "IF", NEW j \in i..Len(p)
  PROVE  /\ Count(p, i, j, "IF") \in Nat /\ Count(p, i, j, "END_IF") \in Nat
         /\ Count(p, i, j, "IF") - Count(p, i, j, "END_IF") = Depth(p, j) - Depth(p, i) + 1
<1>1. i \in Nat /\ i # 0 /\ j \in Nat /\ j \in 0..Len(p) /\ i \in 0..Len(p)
  BY Steps
<1>2. PICK y \in Nat : j = i - 1 + y
  <2>1. j - (i - 1) \in Nat /\ j = i - 1 + (j - (i - 1))
    BY <1>1
  <2> QED BY <2>1
<1>3. Count(p, i, j, "IF") - Count(p, i, j, "END_IF") = Depth(p, j) - Depth(p, i - 1)
  BY <1>1, <1>2, DepthFrom
<1>4. Depth(p, i) = Depth(p, i - 1) + 1 /\ i - 1 \in 0..Len(p)
  BY Steps DEF Turn
<1>5. Depth(p, i) \in Nat /\ Depth(p, i - 1) \in Nat /\ Depth(p, j) \in Nat
  BY <1>1, <1>4, Steps
<1>6. Count(p, i, j, "IF") \in Nat /\ Count(p, i, j, "END_IF") \in Nat
  BY <1>1, CountType
<1> QED BY <1>3, <1>4, <1>5, <1>6

LEMMA EndExists ==
  ASSUME NEW p, Balanced(p), NEW i \in 1..Len(p), p[i].kind = "IF"
  PROVE  \E e : Ends(p, i, e)
<1> DEFINE T == {k \in (i + 1)..Len(p) : Depth(p, k) < Depth(p, i)}
<1>0. Len(p) \in Nat /\ i \in 0..Len(p) /\ i - 1 \in 0..Len(p) /\ Len(p) \in 0..Len(p)
  BY Steps
<1>1. Depth(p, i) \in Nat /\ Depth(p, i) = Depth(p, i - 1) + 1 /\ Depth(p, i - 1) \in Nat
  BY <1>0, Steps DEF Turn
<1>2. Len(p) \in T
  <2>1. Depth(p, Len(p)) = 0
    BY DEF Balanced
  <2>2. i # Len(p)
    BY <1>1, <2>1
  <2> QED BY <1>0, <1>1, <2>1, <2>2
<1>3. T \subseteq Nat
  BY <1>0
<1>4. PICK e \in T : \A k \in T : e <= k
  BY <1>2, <1>3, LeastMember
<1>5. e \in 1..Len(p) /\ e - 1 \in i..Len(p) /\ e - 1 \in 0..Len(p)
  BY <1>0
<1>6. ASSUME NEW k \in i..(e - 1) PROVE Depth(p, k) >= Depth(p, i)
  <2>1. k \in 0..Len(p) /\ k < e
    BY <1>0, <1>5
  <2>2. Depth(p, k) \in Nat
    BY <2>1, Steps
  <2>3. CASE k = i
    BY <1>1, <2>3
  <2>4. CASE k # i
    <3>1. k \in (i + 1)..Len(p)
      BY <2>1, <2>4
    <3>2. k \notin T
      BY <1>3, <1>4, <2>1
    <3> QED BY <1>1, <2>2, <3>1, <3>2
  <2> QED BY <2>3, <2>4
<1>7. Depth(p, e) = Depth(p, i) - 1
  <2>1. Depth(p, e) = Depth(p, e - 1) + Turn(p[e])
    BY <1>5, Steps
  <2>2. e \in 0..Len(p)
    BY <1>5
  <2>3. Depth(p, e) \in Nat /\ Depth(p, e - 1) \in Nat
    BY <1>5, <2>2, Steps
  <2>4. e - 1 \in i..(e - 1)
    BY <1>5
  <2>5. Depth(p, e - 1) >= Depth(p, i)
    BY <1>6, <2>4
  <2>6. Turn(p[e]) \in {-1, 0, 1}
    BY DEF Turn
  <2>7. Depth(p, e) < Depth(p, i)
    BY <1>4
  <2> QED BY <1>1, <2>1, <2>3, <2>5, <2>6, <2>7
<1> QED BY <1>6, <1>7 DEF Ends

LEMMA EndIs ==
  ASSUME NEW p, Balanced(p), NEW i \in 1..Len(p), p[i].kind = "IF"
  PROVE  Ends(p, i, EndOf(p, i)) /\ p[EndOf(p, i)] = EndIf
<1> DEFINE C(j) == /\ Count(p, i, j, "IF") = Count(p, i, j, "END_IF")
                   /\ \A k \in (i + 1)..(j - 1) : Count(p, i, k, "IF") > Count(p, i, k, "END_IF")
<1>0. Len(p) \in Nat /\ i \in Nat /\ Depth(p, i) \in Nat
  <2>1. Len(p) \in Nat /\ i \in 0..Len(p)
    BY Steps
  <2> QED BY <2>1, Steps
<1>1. ASSUME NEW j \in (i + 1)..Len(p) PROVE C(j) <=> Ends(p, i, j)
  <2>1. ASSUME NEW k \in i..Len(p)
        PROVE  /\ Count(p, i, k, "IF") \in Nat /\ Count(p, i, k, "END_IF") \in Nat
               /\ Depth(p, k) \in Nat
               /\ Count(p, i, k, "IF") - Count(p, i, k, "END_IF") = Depth(p, k) - Depth(p, i) + 1
    <3>1. k \in 0..Len(p)
      BY <1>0
    <3>2. Depth(p, k) \in Nat
      BY <3>1, Steps
    <3> QED BY <3>2, CountDepth, SMTT(30)
  <2>2. \A k \in i..(j - 1) : k \in i..Len(p)
    BY <1>0
  <2>3. \A k \in i..(j - 1) : k = i \/ k \in (i + 1)..(j - 1)
    BY <1>0
  <2>4. j \in i..Len(p)
    BY <1>0
  <2>5. Count(p, i, j, "IF") = Count(p, i, j, "END_IF") <=> Depth(p, j) = Depth(p, i) - 1
    <3>1. /\ Count(p, i, j, "IF") \in Nat /\ Count(p, i, j, "END_IF") \in Nat
          /\ Depth(p, j) \in Nat
          /\ Count(p, i, j, "IF") - Count(p, i, j, "END_IF") = Depth(p, j) - Depth(p, i) + 1
      BY <2>1, <2>4, Zenon
    <3>2. Depth(p, i) \in Nat
      BY <1>0
    <3>3. ASSUME NEW a \in Nat, NEW b \in Nat, NEW c \in Nat, NEW d \in Nat, a - b = c - d + 1
          PROVE  a = b <=> c = d - 1
      BY <3>3
    <3> QED BY <3>1, <3>2, <3>3
  <2>6. ASSUME NEW k \in (i + 1)..(j - 1)
        PROVE  k \in i..(j - 1)
               /\ (Count(p, i, k, "IF") > Count(p, i, k, "END_IF") <=> Depth(p, k) >= Depth(p, i))
    <3>1. k \in i..Len(p) /\ k \in i..(j - 1)
      BY <1>0
    <3>2. /\ Count(p, i, k, "IF") \in Nat /\ Count(p, i, k, "END_IF") \in Nat
          /\ Depth(p, k) \in Nat
          /\ Count(p, i, k, "IF") - Count(p, i, k, "END_IF") = Depth(p, k) - Depth(p, i) + 1
      BY <2>1, <3>1, Zenon
    <3>3. Depth(p, i) \in Nat
      BY <1>0
    <3>4. ASSUME NEW a \in Nat, NEW b \in Nat, NEW c \in Nat, NEW d \in Nat, a - b = c - d + 1
          PROVE  a > b <=> c >= d
      BY <3>4
    <3> QED BY <3>1, <3>2, <3>3, <3>4
  <2>7. (\A k \in i..(j - 1) : Depth(p, k) >= Depth(p, i))
          <=> \A k \in (i + 1)..(j - 1) : Depth(p, k) >= Depth(p, i)
    BY <1>0, <2>3, <2>6
  <2> QED BY <2>5, <2>6, <2>7 DEF Ends
<1>2. PICK e : Ends(p, i, e)
  BY EndExists
<1>3. e \in (i + 1)..Len(p) /\ C(e)
  BY <1>1, <1>2 DEF Ends
<1>4. EndOf(p, i) = CHOOSE j \in (i + 1)..Len(p) : C(j)
  BY DEF EndOf
<1> HIDE DEF C
<1>5. EndOf(p, i) \in (i + 1)..Len(p) /\ C(EndOf(p, i))
  BY <1>3, <1>4
<1>6. PICK f \in (i + 1)..Len(p) : f = EndOf(p, i) /\ Ends(p, i, f)
  BY <1>1, <1>5
<1>7. p[f] = EndIf
  <2>1. f \in 1..Len(p) /\ f - 1 \in i..(f - 1)
    BY <1>0
  <2>2. Depth(p, f) = Depth(p, f - 1) + Turn(p[f]) /\ p[f] \in Lines /\ f - 1 \in 0..Len(p)
    BY <2>1, Steps
  <2>3. Depth(p, f) = Depth(p, i) - 1 /\ Depth(p, f - 1) >= Depth(p, i) /\ Depth(p, f - 1) \in Nat
    BY <1>6, <2>1, <2>2, Steps DEF Ends
  <2>4. Turn(p[f]) \notin {0, 1}
    BY <1>0, <2>2, <2>3
  <2> QED BY <2>2, <2>4, LineKinds DEF Turn
<1> QED BY <1>6, <1>7

\* Line k is inside the IF of line i.
Inside(p, i, k) == k \in (i + 1)..Len(p) /\ \A x \in i..k : Depth(p, x) >= Depth(p, i)

LEMMA SurroundsIs ==
  ASSUME NEW p, Balanced(p), NEW i \in 1..Len(p), p[i].kind = "IF", NEW k \in 1..Len(p)
  PROVE  /\ Surrounds(p, i, k) <=> Inside(p, i, k)
         /\ Inside(p, i, k) <=> i < k /\ k < EndOf(p, i)
<1>0. Len(p) \in Nat /\ i \in 0..Len(p) /\ Depth(p, i) \in Nat
  BY Steps
<1>1. PICK e \in (i + 1)..Len(p) : e = EndOf(p, i) /\ Ends(p, i, e)
  BY EndIs DEF Ends
<1>2. Depth(p, e) = Depth(p, i) - 1 /\ \A x \in i..(e - 1) : Depth(p, x) >= Depth(p, i)
  BY <1>1 DEF Ends
<1>3. ASSUME i < k, k < e PROVE Inside(p, i, k)
  <2>1. \A x \in i..k : x \in i..(e - 1)
    BY <1>0, <1>3
  <2>2. k \in (i + 1)..Len(p)
    BY <1>0, <1>3
  <2> QED BY <1>2, <2>1, <2>2 DEF Inside
<1>4. ASSUME Inside(p, i, k) PROVE i < k /\ k < e
  <2>1. k \in (i + 1)..Len(p)
    BY <1>4 DEF Inside
  <2>2. ASSUME e <= k PROVE FALSE
    <3>1. e \in i..k
      BY <1>0, <2>2
    <3>2. Depth(p, e) >= Depth(p, i)
      BY <1>4, <3>1 DEF Inside
    <3> QED BY <1>0, <1>2, <3>2
  <2> QED BY <1>0, <2>1, <2>2
<1> QED BY <1>1, <1>3, <1>4 DEF Surrounds

-----------------------------------------------------------------------------
(* First-level IFs. *)

\* The line of the first-level IF around a line, if it is in one.
Around(p, m) == {p[i] : i \in {j \in TopIfs(p) : Surrounds(p, j, m)}}

LEMMA TopIs ==
  ASSUME NEW p, Balanced(p), NEW i \in TopIfs(p)
  PROVE  /\ i \in 1..Len(p) /\ i - 1 \in 0..Len(p) /\ p[i].kind = "IF"
         /\ Depth(p, i) = 1 /\ Depth(p, i - 1) = 0
         /\ \A k \in 1..Len(p) : Surrounds(p, i, k) <=> Inside(p, i, k)
<1>1. i \in 1..Len(p) /\ p[i].kind = "IF" /\ Depth(p, i) = 1
  BY Steps DEF TopIfs
<1>2. i - 1 \in 0..Len(p) /\ Depth(p, i) = Depth(p, i - 1) + 1
  BY <1>1, Steps DEF Turn
<1>3. Depth(p, i - 1) \in Nat
  BY <1>2, Steps
<1>4. Depth(p, i - 1) = 0
  BY <1>1, <1>2, <1>3
<1> QED BY <1>1, <1>2, <1>4, SurroundsIs

LEMMA InsideDepth ==
  ASSUME NEW p, Balanced(p), NEW i \in TopIfs(p), NEW k, Inside(p, i, k)
  PROVE  /\ k \in 1..Len(p) /\ i < k /\ k - 1 \in 0..Len(p)
         /\ Depth(p, k) >= 1 /\ Depth(p, k - 1) >= 1
<1>0. Len(p) \in Nat /\ i \in 1..Len(p) /\ Depth(p, i) = 1
  BY Steps, TopIs
<1>1. k \in (i + 1)..Len(p) /\ \A x \in i..k : Depth(p, x) >= 1
  BY <1>0 DEF Inside
<1>2. k \in i..k /\ k - 1 \in i..k
  BY <1>0, <1>1
<1> QED BY <1>0, <1>1, <1>2

LEMMA InsideOne ==
  ASSUME NEW p, Balanced(p), NEW i \in TopIfs(p), NEW j \in TopIfs(p), NEW k,
         Inside(p, i, k), Inside(p, j, k)
  PROVE  i = j
<1>1. ASSUME NEW a \in TopIfs(p), NEW b \in TopIfs(p), Inside(p, a, k), Inside(p, b, k), a < b
      PROVE  FALSE
  <2>1. a \in 1..Len(p) /\ b \in 1..Len(p) /\ Depth(p, a) = 1 /\ Depth(p, b - 1) = 0
        /\ Len(p) \in Nat
    BY Steps, TopIs
  <2>2. k \in (b + 1)..Len(p) /\ \A x \in a..k : Depth(p, x) >= 1
    BY <1>1, <2>1 DEF Inside
  <2>3. b - 1 \in a..k
    BY <1>1, <2>1, <2>2
  <2>4. Depth(p, b - 1) >= 1
    BY <2>2, <2>3
  <2> QED BY <2>1, <2>4
<1>2. i \in Nat /\ j \in Nat
  <2>1. i \in 1..Len(p) /\ j \in 1..Len(p) /\ Len(p) \in Nat
    BY Steps, TopIs
  <2> QED BY <2>1
<1>3. ~(i < j) /\ ~(j < i)
  BY <1>1
<1> QED BY <1>2, <1>3

LEMMA AroundIs ==
  ASSUME NEW p, Balanced(p), NEW k \in 1..Len(p)
  PROVE  /\ \A i \in TopIfs(p) : Inside(p, i, k) => Around(p, k) = {p[i]}
         /\ \A l \in Around(p, k) :
              Around(p, k) = {l} /\ \E i \in TopIfs(p) : Inside(p, i, k) /\ p[i] = l
<1>1. \A i \in TopIfs(p) : Surrounds(p, i, k) <=> Inside(p, i, k)
  BY TopIs
<1>2. Around(p, k) = {p[i] : i \in {j \in TopIfs(p) : Inside(p, j, k)}}
  BY <1>1 DEF Around
<1>3. ASSUME NEW i \in TopIfs(p), Inside(p, i, k) PROVE Around(p, k) = {p[i]}
  <2>1. {j \in TopIfs(p) : Inside(p, j, k)} = {i}
    BY <1>3, InsideOne
  <2> QED BY <1>2, <2>1
<1>4. ASSUME NEW l \in Around(p, k)
      PROVE  Around(p, k) = {l} /\ \E i \in TopIfs(p) : Inside(p, i, k) /\ p[i] = l
  <2>1. PICK i \in TopIfs(p) : Inside(p, i, k) /\ p[i] = l
    BY <1>2
  <2> QED BY <1>3, <2>1
<1> QED BY <1>3, <1>4

\* Lines of depth 0 and first-level IFs are in none.
LEMMA AroundNone ==
  ASSUME NEW p, Balanced(p), NEW k \in 1..Len(p), Depth(p, k) = 0 \/ k \in TopIfs(p)
  PROVE  Around(p, k) = {}
<1> SUFFICES ASSUME NEW l \in Around(p, k) PROVE FALSE
  OBVIOUS
<1>1. PICK i \in TopIfs(p) : Inside(p, i, k)
  BY AroundIs
<1>2. Depth(p, k) >= 1 /\ Depth(p, k - 1) >= 1
  BY <1>1, InsideDepth
<1> QED BY <1>2, TopIs

\* All others are in one.
LEMMA AroundSome ==
  ASSUME NEW p, Balanced(p), NEW k \in 1..Len(p), Depth(p, k) # 0, k \notin TopIfs(p)
  PROVE  \E i \in TopIfs(p) : Inside(p, i, k)
<1>0. Len(p) \in Nat /\ k \in 0..Len(p) /\ k \in Nat /\ Depth(p, 0) = 0
  BY Steps
<1> DEFINE T == {y \in 0..k : Depth(p, k - y) = 0}
<1>1. k \in T
  <2>1. k - k = 0 /\ k \in 0..k
    BY <1>0
  <2> QED BY <1>0, <2>1
<1>2. PICK y \in T : \A z \in T : y <= z
  <2>1. T \subseteq Nat /\ T # {}
    BY <1>1
  <2> HIDE DEF T
  <2> QED BY <2>1, LeastMember
<1>3. PICK i : i = k - y + 1
  OBVIOUS
<1>4. y # 0
  <2>1. k - 0 = k
    BY <1>0
  <2> QED BY <2>1
<1>5. i \in 1..k /\ i \in 1..Len(p) /\ i - 1 = k - y /\ y \in Nat
  BY <1>0, <1>3, <1>4
<1>6. ASSUME NEW x \in i..k PROVE Depth(p, x) >= 1
  <2>1. k - x \in 0..k /\ k - (k - x) = x /\ k - x < y /\ x \in 0..Len(p)
    BY <1>0, <1>3, <1>5
  <2>2. Depth(p, x) # 0
    <3>1. PICK z : z = k - x
      OBVIOUS
    <3>2. z \in 0..k /\ z < y /\ k - z = x
      BY <2>1, <3>1
    <3>3. z \notin T
      <4>1. z \in T => y <= z
        BY <1>2
      <4>2. ~(y <= z)
        BY <1>5, <3>2
      <4> QED BY <4>1, <4>2
    <3> QED BY <3>2, <3>3
  <2>3. Depth(p, x) \in Nat
    BY <2>1, Steps
  <2> QED BY <2>2, <2>3
<1>7. Depth(p, i) = 1 /\ p[i].kind = "IF"
  <2>1. Depth(p, i - 1) = 0
    BY <1>5
  <2>2. Depth(p, i) = 0 + Turn(p[i])
    BY <1>5, <2>1, Steps
  <2>3. i \in i..k
    BY <1>0, <1>5
  <2>4. Depth(p, i) >= 1
    BY <1>6, <2>3
  <2> QED BY <2>2, <2>4 DEF Turn
<1>8. i \in TopIfs(p)
  BY <1>5, <1>7, Steps DEF TopIfs
<1>9. k \in (i + 1)..Len(p)
  BY <1>0, <1>5, <1>8
<1> QED BY <1>6, <1>7, <1>8, <1>9 DEF Inside

\* The next line, and the one before, of a line in the depth.
LEMMA InsideNext ==
  ASSUME NEW p, Balanced(p), NEW i \in TopIfs(p), NEW k, Inside(p, i, k), Depth(p, k) >= 2
  PROVE  Inside(p, i, k + 1)
<1>0. Len(p) \in Nat /\ i \in 1..Len(p) /\ Depth(p, i) = 1 /\ Depth(p, Len(p)) = 0
  BY Steps, TopIs DEF Balanced
<1>1. k \in (i + 1)..Len(p) /\ \A x \in i..k : Depth(p, x) >= 1
  BY <1>0 DEF Inside
<1>2. k + 1 \in 1..Len(p) /\ (k + 1) - 1 = k /\ k \in 0..Len(p)
  BY <1>0, <1>1
<1>3. Depth(p, k + 1) = Depth(p, k) + Turn(p[k + 1]) /\ Depth(p, k) \in Nat
  BY <1>2, Steps
<1>4. Depth(p, k + 1) >= 1
  BY <1>3 DEF Turn
<1>5. \A x \in i..(k + 1) : x \in i..k \/ x = k + 1
  BY <1>0, <1>1
<1>6. k + 1 \in (i + 1)..Len(p)
  BY <1>0, <1>1, <1>2
<1> QED BY <1>0, <1>1, <1>4, <1>5, <1>6 DEF Inside

LEMMA InsidePrevious ==
  ASSUME NEW p, Balanced(p), NEW i \in TopIfs(p), NEW k, Inside(p, i, k), Depth(p, k - 1) >= 2
  PROVE  Inside(p, i, k - 1)
<1>0. Len(p) \in Nat /\ i \in 1..Len(p) /\ Depth(p, i) = 1
  BY Steps, TopIs
<1>1. k \in (i + 1)..Len(p) /\ \A x \in i..k : Depth(p, x) >= 1
  BY <1>0 DEF Inside
<1>2. k - 1 # i
  BY <1>0
<1>3. k - 1 \in (i + 1)..Len(p) /\ \A x \in i..(k - 1) : x \in i..k
  BY <1>0, <1>1, <1>2
<1> QED BY <1>0, <1>1, <1>3 DEF Inside

-----------------------------------------------------------------------------
(* Lines taken from places of a program. *)

\* g is the w lines that p has at the places t.
From(g, p, t, w) ==
  /\ w \in Nat /\ t \in [1..w -> Nat]
  /\ g \in Seq(Lines) /\ Len(g) = w
  /\ \A k \in 1..w : g[k] = p[t[k]]

\* r is s followed by t.
Joins(r, s, m, t, w) ==
  /\ r \in [1..(m + w) -> Nat]
  /\ \A k \in 1..m : r[k] = s[k]
  /\ \A k \in 1..w : r[m + k] = t[k]

LEMMA Halves ==
  ASSUME NEW m \in Nat, NEW w \in Nat
  PROVE  /\ m + w \in Nat
         /\ \A k \in 1..(m + w) : k \in 1..m \/ \E l \in 1..w : k = m + l
         /\ \A k \in 1..m : k \in 1..(m + w)
         /\ \A l \in 1..w : m + l \in 1..(m + w)
<1>1. ASSUME NEW k \in 1..(m + w), k \notin 1..m PROVE \E l \in 1..w : k = m + l
  <2>1. k - m \in 1..w /\ k = m + (k - m)
    BY <1>1
  <2> QED BY <2>1
<1> QED BY <1>1

LEMMA JoinExists ==
  ASSUME NEW m \in Nat, NEW w \in Nat, NEW s \in [1..m -> Nat], NEW t \in [1..w -> Nat]
  PROVE  \E r : Joins(r, s, m, t, w)
<1> DEFINE r == [k \in 1..(m + w) |-> IF k \in 1..m THEN s[k] ELSE t[k - m]]
<1>1. \A k \in 1..m : k \in 1..(m + w) /\ r[k] = s[k]
  OBVIOUS
<1>2. \A k \in 1..w : m + k \in 1..(m + w) /\ m + k \notin 1..m /\ (m + k) - m = k
  OBVIOUS
<1>3. \A k \in 1..w : r[m + k] = t[k]
  BY <1>2
<1>4. ASSUME NEW k \in 1..(m + w) PROVE r[k] \in Nat
  <2>1. CASE k \in 1..m
    BY <1>1, <2>1
  <2>2. CASE k \notin 1..m
    <3>1. PICK l \in 1..w : k = m + l
      BY <2>2, Halves
    <3> QED BY <1>3, <3>1
  <2> QED BY <2>1, <2>2
<1>5. r = [k \in 1..(m + w) |-> r[k]]
  OBVIOUS
<1> HIDE DEF r
<1>6. r \in [1..(m + w) -> Nat]
  BY <1>4, <1>5
<1> QED BY <1>1, <1>3, <1>6 DEF Joins

Long(g, m) == m \in Nat /\ g \in Seq(Lines) /\ Len(g) = m

Chained(f, g, m, h, w) ==
  /\ f \in Seq(Lines) /\ Len(f) = m + w
  /\ \A k \in 1..m : f[k] = g[k]
  /\ \A k \in 1..w : f[m + k] = h[k]

LEMMA ChainIs ==
  ASSUME NEW m, NEW w, NEW g, NEW h, Long(g, m), Long(h, w)
  PROVE  Chained(g \o h, g, m, h, w)
BY DEF Long, Chained

LEMMA FromJoin ==
  ASSUME NEW p, NEW g, NEW h, NEW s, NEW t, NEW m, NEW w, NEW r,
         From(g, p, s, m), From(h, p, t, w), Joins(r, s, m, t, w)
  PROVE  From(g \o h, p, r, m + w)
<1>1. m \in Nat /\ w \in Nat /\ g \in Seq(Lines) /\ h \in Seq(Lines) /\ Len(g) = m /\ Len(h) = w
  BY DEF From
<1>2. /\ g \o h \in Seq(Lines) /\ Len(g \o h) = m + w
      /\ \A k \in 1..m : (g \o h)[k] = g[k]
      /\ \A k \in 1..w : (g \o h)[m + k] = h[k]
  <2>1. Long(g, m) /\ Long(h, w)
    BY <1>1 DEF Long
  <2>2. Chained(g \o h, g, m, h, w)
    BY <2>1, ChainIs
  <2> QED BY <2>2 DEF Chained
<1>3. r \in [1..(m + w) -> Nat] /\ (\A k \in 1..m : r[k] = s[k]) /\ \A k \in 1..w : r[m + k] = t[k]
  BY DEF Joins
<1>4. ASSUME NEW k \in 1..(m + w) PROVE (g \o h)[k] = p[r[k]]
  <2>1. CASE k \in 1..m
    <3>1. g[k] = p[s[k]]
      BY <2>1 DEF From
    <3>2. (g \o h)[k] = g[k] /\ r[k] = s[k]
      BY <1>2, <1>3, <2>1, Zenon
    <3> QED BY <3>1, <3>2, Zenon
  <2>2. ASSUME NEW l \in 1..w, k = m + l PROVE (g \o h)[k] = p[r[k]]
    <3>1. h[l] = p[t[l]]
      BY DEF From
    <3>2. (g \o h)[m + l] = h[l] /\ r[m + l] = t[l]
      BY <1>2, <1>3, Zenon
    <3> QED BY <2>2, <3>1, <3>2, Zenon
  <2>3. k \in 1..m \/ \E l \in 1..w : k = m + l
    BY <1>1, Halves
  <2> QED BY <2>1, <2>2, <2>3
<1>5. m + w \in Nat
  BY <1>1
<1> QED BY <1>2, <1>3, <1>4, <1>5 DEF From

\* t goes through the set A of places in order.
Enumerates(t, w, A) ==
  /\ \A k \in 1..w : t[k] \in A
  /\ \A q \in A : \E k \in 1..w : t[k] = q
  /\ \A k, l \in 1..w : k < l => t[k] < t[l]

\* g is the lines of p at the places of A.
Lists(g, p, A) == \E w, t : From(g, p, t, w) /\ Enumerates(t, w, A)

LEMMA ListsNone ==
  ASSUME NEW p
  PROVE  Lists(<< >>, p, {})
<1> DEFINE t == [k \in 1..0 |-> 0]
<1>1. From(<< >>, p, t, 0)
  BY DEF From
<1>2. Enumerates(t, 0, {})
  BY DEF Enumerates
<1> QED BY <1>1, <1>2 DEF Lists

LEMMA ListsJoin ==
  ASSUME NEW p, NEW g, NEW h, NEW A, NEW B, Lists(g, p, A), Lists(h, p, B),
         \A a \in A, b \in B : a < b
  PROVE  Lists(g \o h, p, A \cup B)
<1>1. PICK m, s : From(g, p, s, m) /\ Enumerates(s, m, A)
  BY DEF Lists
<1>2. PICK w, t : From(h, p, t, w) /\ Enumerates(t, w, B)
  BY DEF Lists
<1>3. m \in Nat /\ w \in Nat /\ s \in [1..m -> Nat] /\ t \in [1..w -> Nat]
  BY <1>1, <1>2 DEF From
<1>4. PICK r : Joins(r, s, m, t, w)
  BY <1>3, JoinExists
<1>5. From(g \o h, p, r, m + w)
  BY <1>1, <1>2, <1>4, FromJoin
<1>6. (\A k \in 1..m : r[k] = s[k]) /\ \A k \in 1..w : r[m + k] = t[k]
  BY <1>4 DEF Joins
<1>7. ASSUME NEW k \in 1..(m + w) PROVE r[k] \in A \cup B
  <2>1. CASE k \in 1..m
    BY <1>1, <1>6, <2>1 DEF Enumerates
  <2>2. ASSUME NEW l \in 1..w, k = m + l PROVE r[k] \in A \cup B
    BY <1>2, <1>6, <2>2 DEF Enumerates
  <2> QED BY <1>3, <2>1, <2>2, Halves
<1>8. ASSUME NEW q \in A \cup B PROVE \E k \in 1..(m + w) : r[k] = q
  <2>1. CASE q \in A
    <3>1. PICK k \in 1..m : s[k] = q
      BY <1>1, <2>1 DEF Enumerates
    <3>2. k \in 1..(m + w)
      BY <1>3, Halves
    <3> QED BY <1>6, <3>1, <3>2
  <2>2. CASE q \in B
    <3>1. PICK k \in 1..w : t[k] = q
      BY <1>2, <2>2 DEF Enumerates
    <3>2. m + k \in 1..(m + w)
      BY <1>3, Halves
    <3> QED BY <1>6, <3>1, <3>2
  <2> QED BY <2>1, <2>2
<1>9. ASSUME NEW k \in 1..(m + w), NEW l \in 1..(m + w), k < l PROVE r[k] < r[l]
  <2>1. CASE k \in 1..m /\ l \in 1..m
    BY <1>1, <1>6, <1>9, <2>1 DEF Enumerates
  <2>2. ASSUME NEW y \in 1..w, l = m + y, k \in 1..m PROVE r[k] < r[l]
    <3>1. r[k] \in A /\ r[l] \in B
      BY <1>1, <1>2, <1>6, <2>2 DEF Enumerates
    <3> QED BY <3>1
  <2>3. ASSUME NEW x \in 1..w, k = m + x, NEW y \in 1..w, l = m + y PROVE r[k] < r[l]
    <3>1. x < y
      BY <1>3, <1>9, <2>3
    <3> QED BY <1>2, <1>6, <2>3, <3>1 DEF Enumerates
  <2>4. ASSUME NEW x \in 1..w, k = m + x, l \in 1..m PROVE FALSE
    BY <1>3, <1>9, <2>4
  <2>5. k \in 1..m \/ \E x \in 1..w : k = m + x
    BY <1>3, Halves
  <2>6. l \in 1..m \/ \E y \in 1..w : l = m + y
    BY <1>3, Halves
  <2> QED BY <2>1, <2>2, <2>3, <2>4, <2>5, <2>6
<1>10. Enumerates(r, m + w, A \cup B)
  BY <1>7, <1>8, <1>9 DEF Enumerates
<1> QED BY <1>5, <1>10 DEF Lists

\* An interval of lines.
LEMMA ListsInterval ==
  ASSUME NEW p \in Seq(Lines), NEW a \in Nat, a # 0, NEW b \in Nat, b <= Len(p), a <= b + 1
  PROVE  Lists(SubSeq(p, a, b), p, a..b)
<1>1. PICK w \in Nat : b = a - 1 + w
  <2>1. b - (a - 1) \in Nat /\ b = a - 1 + (b - (a - 1))
    OBVIOUS
  <2> QED BY <2>1
<1> DEFINE t == [k \in 1..w |-> a - 1 + k]
<1>2. t \in [1..w -> Nat]
  OBVIOUS
<1>3. /\ SubSeq(p, a, b) \in Seq(Lines) /\ Len(SubSeq(p, a, b)) = w
      /\ \A k \in 1..w : SubSeq(p, a, b)[k] = p[a - 1 + k]
  <2>1. \A k \in a..b : p[k] \in Lines
    OBVIOUS
  <2>2. /\ SubSeq(p, a, b) \in Seq(Lines)
        /\ Len(SubSeq(p, a, b)) = IF a <= b THEN b - a + 1 ELSE 0
        /\ \A k \in 1..(b - a + 1) : SubSeq(p, a, b)[k] = p[a + k - 1]
    BY <2>1, SubSeqProperties
  <2>3. b - a + 1 = w /\ (a <= b \/ w = 0) /\ \A k \in 1..w : a + k - 1 = a - 1 + k
    BY <1>1
  <2>4. Len(SubSeq(p, a, b)) = w
    BY <1>1, <2>2, <2>3
  <2> QED BY <2>2, <2>3, <2>4
<1>4. From(SubSeq(p, a, b), p, t, w)
  BY <1>2, <1>3 DEF From
<1>5. Enumerates(t, w, a..b)
  <2>1. \A k \in 1..w : t[k] = a - 1 + k /\ a - 1 + k \in a..b
    BY <1>1
  <2>2. ASSUME NEW q \in a..b PROVE \E k \in 1..w : t[k] = q
    <3>1. q - (a - 1) \in 1..w /\ a - 1 + (q - (a - 1)) = q
      BY <1>1
    <3> QED BY <3>1
  <2>3. \A k, l \in 1..w : k < l => t[k] < t[l]
    BY <2>1
  <2> HIDE DEF t
  <2> QED BY <2>1, <2>2, <2>3 DEF Enumerates
<1> QED BY <1>4, <1>5 DEF Lists

-----------------------------------------------------------------------------
(* What moves into an IF. *)

\* The lines inside the first-level IFs from a place on that equal an IF line.
Moved(p, line, from) ==
  {q \in 1..Len(p) : \E i \in TopIfs(p) : from <= i /\ p[i] = line /\ Inside(p, i, q)}

\* The lines equal to this one are first-level IFs.
Topmost(p, line) == \A j \in 1..Len(p) : p[j] = line => j \in TopIfs(p)

\* One turn of the loop of lines 142-159.
Carry(g, line, k) ==
  IF k > Len(file) THEN << >>
  ELSE IF file[k] = line THEN BodyOf(file, k) \o g[EndOf(file, k) + 1]
  ELSE g[k + 1]

Carries(g, line, from) == g = [k \in from..(Len(file) + 1) |-> Carry(g, line, k)]

\* From line k on the values of g are what the loop makes of those after it.
LEMMA CarryNext ==
  ASSUME Balanced(file), NEW line, Topmost(file, line), NEW from \in 1..(Len(file) + 1),
         NEW k \in from..(Len(file) + 1),
         NEW g, NEW h, \A j \in from..(Len(file) + 1) : k < j => g[j] = h[j]
  PROVE  Carry(g, line, k) = Carry(h, line, k)
<1>0. Len(file) \in Nat
  BY Steps
<1>1. CASE k > Len(file)
  BY <1>1 DEF Carry
<1>2. CASE k <= Len(file) /\ file[k] = line
  <2>1. k \in TopIfs(file) /\ k \in 1..Len(file)
    BY <1>0, <1>2 DEF Topmost
  <2>2. PICK e : e = EndOf(file, k) /\ e \in (k + 1)..Len(file)
    BY <2>1, TopIs, EndIs DEF Ends
  <2>3. e + 1 \in from..(Len(file) + 1) /\ k < e + 1
    BY <1>0, <2>2
  <2>4. g[e + 1] = h[e + 1]
    BY <2>3
  <2> QED BY <1>0, <1>2, <2>2, <2>4 DEF Carry
<1>3. CASE k <= Len(file) /\ file[k] # line
  <2>1. k + 1 \in from..(Len(file) + 1) /\ k < k + 1
    BY <1>0, <1>3
  <2>2. g[k + 1] = h[k + 1]
    BY <2>1
  <2> QED BY <1>0, <1>3, <2>2 DEF Carry
<1> QED BY <1>0, <1>1, <1>2, <1>3

LEMMA CarriesExist ==
  ASSUME Balanced(file), NEW line, Topmost(file, line), NEW from \in 1..(Len(file) + 1)
  PROVE  \E g : Carries(g, line, from)
<1>0. PICK n \in Nat : n = Len(file) + 1
  BY Steps
<1> DEFINE T == {y \in Nat : \E g : \A k \in from..n : n <= k + y => g[k] = Carry(g, line, k)}
<1>1. ASSUME NEW y \in Nat, NEW g, \A k \in from..n : n < k + y => g[k] = Carry(g, line, k)
      PROVE  \E h : \A k \in from..n : n <= k + y => h[k] = Carry(h, line, k)
  <2> DEFINE h == [k \in from..n |-> IF k + y = n THEN Carry(g, line, k) ELSE g[k]]
  <2>1. ASSUME NEW k \in from..n, n <= k + y PROVE h[k] = Carry(h, line, k)
    <3>1. ASSUME NEW j \in from..n, k < j PROVE g[j] = h[j]
      <4>1. j + y # n
        BY <1>0, <2>1, <3>1
      <4> QED BY <4>1
    <3> HIDE DEF h
    <3>2. Carry(g, line, k) = Carry(h, line, k)
      BY <1>0, <3>1, CarryNext
    <3>3. h[k] = Carry(g, line, k)
      <4>1. CASE k + y = n
        BY <4>1 DEF h
      <4>2. CASE k + y # n
        <5>1. n < k + y
          BY <1>0, <2>1, <4>2
        <5> QED BY <1>1, <4>2, <5>1 DEF h
      <4> QED BY <4>1, <4>2
    <3> QED BY <3>2, <3>3
  <2> HIDE DEF h
  <2> QED BY <2>1
<1>2. 0 \in T
  <2>1. \A k \in from..n : ~(n < k + 0)
    BY <1>0
  <2>2. \A g : \A k \in from..n : n < k + 0 => g[k] = Carry(g, line, k)
    BY <2>1
  <2>3. 0 \in Nat
    OBVIOUS
  <2>4. \E h : \A k \in from..n : n <= k + 0 => h[k] = Carry(h, line, k)
    BY <1>1, <2>2, <2>3
  <2> QED BY <2>3, <2>4
<1>3. ASSUME NEW y \in Nat, y \in T PROVE y + 1 \in T
  <2>1. PICK g : \A k \in from..n : n <= k + y => g[k] = Carry(g, line, k)
    BY <1>3
  <2>2. \A k \in from..n : n < k + (y + 1) <=> n <= k + y
    BY <1>0
  <2>3. \A k \in from..n : n < k + (y + 1) => g[k] = Carry(g, line, k)
    BY <2>1, <2>2
  <2>4. PICK x \in Nat : x = y + 1
    OBVIOUS
  <2>5. \E h : \A k \in from..n : n <= k + x => h[k] = Carry(h, line, k)
    BY <1>1, <2>3, <2>4
  <2> QED BY <2>4, <2>5
<1> HIDE DEF T
<1>4. n \in T
  BY <1>0, <1>2, <1>3, SetInduction
<1>5. PICK g : \A k \in from..n : n <= k + n => g[k] = Carry(g, line, k)
  BY <1>4 DEF T
<1>6. \A k \in from..n : g[k] = Carry(g, line, k)
  <2>1. \A k \in from..n : n <= k + n
    BY <1>0
  <2> QED BY <1>5, <2>1
<1> DEFINE h == [k \in from..n |-> g[k]]
<1>7. ASSUME NEW k \in from..n PROVE h[k] = Carry(h, line, k)
  <2>1. \A j \in from..n : k < j => g[j] = h[j]
    OBVIOUS
  <2>2. h[k] = Carry(g, line, k)
    BY <1>6
  <2> HIDE DEF h
  <2>3. Carry(g, line, k) = Carry(h, line, k)
    BY <1>0, <2>1, CarryNext
  <2> QED BY <2>2, <2>3
<1>8. h = [k \in from..n |-> h[k]]
  OBVIOUS
<1> HIDE DEF h
<1>9. h = [k \in from..n |-> Carry(h, line, k)]
  BY <1>7, <1>8
<1> QED BY <1>0, <1>9 DEF Carries

LEMMA LaterIs ==
  ASSUME Balanced(file), NEW line, Topmost(file, line), NEW from \in 1..(Len(file) + 1)
  PROVE  \E g : Carries(g, line, from) /\ Later(line, from) = g[from]
<1> DEFINE g == CHOOSE g : Carries(g, line, from)
<1>1. Carries(g, line, from)
  BY CarriesExist
<1>2. Later(line, from) = g[from]
  BY DEF Later, Carries, Carry
<1> QED BY <1>1, <1>2

LEMMA MovedHere ==
  ASSUME NEW p, Balanced(p), NEW k \in TopIfs(p), NEW e, e = EndOf(p, k)
  PROVE  /\ e \in (k + 1)..Len(p)
         /\ Moved(p, p[k], k) = ((k + 1)..(e - 1)) \cup Moved(p, p[k], e + 1)
         /\ \A a \in (k + 1)..(e - 1), b \in Moved(p, p[k], e + 1) : a < b
<1>0. Len(p) \in Nat /\ k \in 1..Len(p) /\ p[k].kind = "IF" /\ Depth(p, k) = 1
  BY Steps, TopIs
<1>1. Ends(p, k, e) /\ p[e] = EndIf /\ e \in (k + 1)..Len(p)
  BY <1>0, EndIs DEF Ends
<1>2. ASSUME NEW q \in 1..Len(p) PROVE Inside(p, k, q) <=> q \in (k + 1)..(e - 1)
  <2>1. Inside(p, k, q) <=> k < q /\ q < e
    BY <1>0, SurroundsIs
  <2> QED BY <1>0, <1>1, <2>1
<1>3. ASSUME NEW i \in TopIfs(p), k <= i PROVE i = k \/ e + 1 <= i
  <2>1. i \in 1..Len(p) /\ Depth(p, i - 1) = 0 /\ p[i].kind = "IF"
    BY TopIs
  <2>2. i # e
    BY <1>1, <2>1 DEF EndIf
  <2>3. ~(k < i /\ i < e)
    <3> SUFFICES ASSUME k < i, i < e PROVE FALSE
      OBVIOUS
    <3>1. i - 1 \in k..(e - 1)
      BY <1>0, <1>1, <2>1
    <3>2. Depth(p, i - 1) >= Depth(p, k)
      BY <1>1, <3>1 DEF Ends
    <3> QED BY <1>0, <2>1, <3>2
  <2> QED BY <1>0, <1>1, <1>3, <2>1, <2>2, <2>3
<1>4. ASSUME NEW q \in Moved(p, p[k], k) PROVE q \in ((k + 1)..(e - 1)) \cup Moved(p, p[k], e + 1)
  <2>1. PICK i \in TopIfs(p) : k <= i /\ p[i] = p[k] /\ Inside(p, i, q) /\ q \in 1..Len(p)
    BY DEF Moved
  <2>2. CASE i = k
    BY <1>2, <2>1, <2>2
  <2>3. CASE e + 1 <= i
    BY <2>1, <2>3 DEF Moved
  <2> QED BY <1>3, <2>1, <2>2, <2>3
<1>5. ASSUME NEW q \in (k + 1)..(e - 1) PROVE q \in Moved(p, p[k], k)
  <2>1. q \in 1..Len(p) /\ k <= k
    BY <1>0, <1>1
  <2> QED BY <1>2, <2>1 DEF Moved
<1>6. ASSUME NEW q \in Moved(p, p[k], e + 1) PROVE q \in Moved(p, p[k], k) /\ e < q
  <2>1. PICK i \in TopIfs(p) : e + 1 <= i /\ p[i] = p[k] /\ Inside(p, i, q) /\ q \in 1..Len(p)
    BY DEF Moved
  <2>2. i \in 1..Len(p) /\ i < q
    BY <2>1, InsideDepth, TopIs
  <2>3. k <= i /\ e < q
    BY <1>0, <1>1, <2>1, <2>2
  <2> QED BY <2>1, <2>3 DEF Moved
<1>7. ASSUME NEW a \in (k + 1)..(e - 1), NEW b \in Moved(p, p[k], e + 1) PROVE a < b
  <2>1. b \in Nat
    BY DEF Moved
  <2>2. e < b
    BY <1>6
  <2> QED BY <1>0, <1>1, <2>1, <2>2
<1> QED BY <1>1, <1>4, <1>5, <1>6, <1>7

LEMMA BodyLists ==
  ASSUME NEW p, Balanced(p), NEW k \in TopIfs(p), NEW e, e = EndOf(p, k)
  PROVE  Lists(BodyOf(p, k), p, (k + 1)..(e - 1))
<1>1. PICK a \in Nat, b \in Nat : a = k + 1 /\ b = e - 1 /\ a # 0 /\ b <= Len(p) /\ a <= b + 1
  <2>1. k \in 1..Len(p) /\ e \in (k + 1)..Len(p) /\ Len(p) \in Nat
    BY Steps, TopIs, MovedHere
  <2>2. k + 1 \in Nat /\ e - 1 \in Nat /\ k + 1 # 0 /\ e - 1 <= Len(p) /\ k + 1 <= (e - 1) + 1
    BY <2>1
  <2> QED BY <2>2
<1>2. BodyOf(p, k) = SubSeq(p, a, b)
  BY <1>1 DEF BodyOf
<1>3. p \in Seq(Lines)
  BY DEF Balanced
<1> QED BY <1>1, <1>2, <1>3, ListsInterval

LEMMA MovedOn ==
  ASSUME NEW p, Balanced(p), NEW line, NEW k \in 1..Len(p), p[k] # line
  PROVE  Moved(p, line, k) = Moved(p, line, k + 1)
<1>1. ASSUME NEW i \in TopIfs(p), p[i] = line PROVE k <= i <=> k + 1 <= i
  <2>1. i \in 1..Len(p) /\ Len(p) \in Nat /\ i # k
    BY <1>1, Steps, TopIs
  <2> QED BY <2>1
<1> QED BY <1>1 DEF Moved

\* What lines 142-159 append.
LEMMA LaterLists ==
  ASSUME Balanced(file), NEW line, Topmost(file, line), NEW from \in 1..(Len(file) + 1)
  PROVE  Lists(Later(line, from), file, Moved(file, line, from))
<1>0. PICK n \in Nat : n = Len(file) + 1 /\ Len(file) \in Nat
  BY Steps
<1>1. PICK g : Carries(g, line, from) /\ Later(line, from) = g[from]
  BY LaterIs
<1>2. \A k \in from..n : g[k] = Carry(g, line, k)
  BY <1>0, <1>1 DEF Carries
<1> DEFINE Good(k) == Lists(g[k], file, Moved(file, line, k))
           T == {y \in Nat : \A k \in from..n : n <= k + y => Good(k)}
<1>3. ASSUME NEW k \in from..n, \A j \in from..n : k < j => Good(j) PROVE Good(k)
  <2>1. CASE k = n
    <3>1. g[k] = << >>
      BY <1>0, <1>2, <2>1 DEF Carry
    <3>2. Moved(file, line, k) = {}
      <4>1. \A i \in TopIfs(file) : ~(k <= i)
        <5>1. \A i \in TopIfs(file) : i \in 1..Len(file)
          BY TopIs
        <5> QED BY <1>0, <2>1, <5>1
      <4> QED BY <4>1 DEF Moved
    <3> QED BY <3>1, <3>2, ListsNone
  <2>2. CASE k # n /\ file[k] = line
    <3>1. k \in 1..Len(file) /\ ~(k > Len(file))
      BY <1>0, <2>2
    <3>2. k \in TopIfs(file)
      BY <2>2, <3>1 DEF Topmost
    <3>3. PICK e : e = EndOf(file, k)
      OBVIOUS
    <3>4. /\ e \in (k + 1)..Len(file)
          /\ Moved(file, line, k) = ((k + 1)..(e - 1)) \cup Moved(file, line, e + 1)
          /\ \A a \in (k + 1)..(e - 1), b \in Moved(file, line, e + 1) : a < b
      BY <2>2, <3>2, <3>3, MovedHere
    <3>5. e + 1 \in from..n /\ k < e + 1
      BY <1>0, <3>4
    <3>6. g[k] = BodyOf(file, k) \o g[e + 1]
      BY <1>2, <2>2, <3>1, <3>3 DEF Carry
    <3>7. Lists(g[e + 1], file, Moved(file, line, e + 1))
      BY <1>3, <3>5
    <3>8. Lists(BodyOf(file, k), file, (k + 1)..(e - 1))
      BY <3>2, <3>3, BodyLists
    <3> QED BY <3>4, <3>6, <3>7, <3>8, ListsJoin
  <2>3. CASE k # n /\ file[k] # line
    <3>1. k \in 1..Len(file) /\ ~(k > Len(file)) /\ k + 1 \in from..n /\ k < k + 1
      BY <1>0, <2>3
    <3>2. g[k] = g[k + 1]
      BY <1>2, <2>3, <3>1 DEF Carry
    <3>3. Moved(file, line, k) = Moved(file, line, k + 1)
      BY <2>3, <3>1, MovedOn
    <3>4. Good(k + 1)
      BY <1>3, <3>1
    <3> QED BY <3>2, <3>3, <3>4
  <2> QED BY <2>1, <2>2, <2>3
<1> HIDE DEF Good
<1>4. 0 \in T
  <2>1. ASSUME NEW k \in from..n, n <= k + 0 PROVE Good(k)
    <3>1. \A j \in from..n : ~(k < j)
      BY <1>0, <2>1
    <3> QED BY <1>3, <3>1
  <2> QED BY <2>1
<1>5. ASSUME NEW y \in Nat, y \in T PROVE y + 1 \in T
  <2>1. ASSUME NEW k \in from..n, n <= k + (y + 1) PROVE Good(k)
    <3>1. \A j \in from..n : k < j => n <= j + y
      BY <1>0, <2>1
    <3>2. \A j \in from..n : n <= j + y => Good(j)
      BY <1>5
    <3> QED BY <1>3, <3>1, <3>2
  <2>2. y + 1 \in Nat
    OBVIOUS
  <2> QED BY <2>1, <2>2
<1> HIDE DEF T
<1>6. n \in T
  BY <1>0, <1>4, <1>5, SetInduction
<1>7. Good(from)
  <2>1. \A k \in from..n : n <= k + n => Good(k)
    BY <1>6 DEF T
  <2>2. from \in from..n /\ n <= from + n
    BY <1>0
  <2> QED BY <2>1, <2>2
<1> QED BY <1>1, <1>7 DEF Good

-----------------------------------------------------------------------------
(* How a map s of places moves the lines of p: line k of the output is line  *)
(* s[k] of p.                                                                *)

Within(p, s, m) == m \in Nat /\ \A k \in 1..m : s[k] \in 1..Len(p)

\* Each line comes at the depth it had; lines below a first-level IF stay together.
Level(p, s, m) ==
  /\ m # 0 => Depth(p, s[1] - 1) = 0 /\ Depth(p, s[m]) = 0
  /\ \A k \in 1..m : k # m => Depth(p, s[k + 1] - 1) = Depth(p, s[k])
  /\ \A k \in 1..m : Depth(p, s[k]) >= 2 => k # m /\ s[k + 1] = s[k] + 1

\* The lines under a first-level IF come from under IFs equal to it.
Grouped(p, s, m) ==
  \A a, k \in 1..m :
    s[a] \in TopIfs(p) /\ a < k /\ (\A x \in a..k : Depth(p, s[x]) >= 1)
      => Around(p, s[k]) = {p[s[a]]}

\* Lines outside of all IFs come from lo + 1 to hi, the others from under those of N.
Comes(p, lo, hi, N, s, m) ==
  \A k \in 1..m :
    /\ Around(p, s[k]) = {} => lo < s[k] /\ s[k] <= hi
    /\ \A l : Around(p, s[k]) = {l} => l \in N
    /\ s[k] \in TopIfs(p) => p[s[k]] \in N

\* None of them is left behind.
Covers(p, lo, hi, N, s, m) ==
  \A q \in 1..Len(p) :
    \/ Around(p, q) = {} /\ p[q].kind = "statement" /\ lo < q /\ q <= hi
    \/ \E l \in N : Around(p, q) = {l}
    => \E k \in 1..m : s[k] = q

\* The lines under equal IFs stay in order, and so do those under none.
Ordered(p, s, m) ==
  \A k, l \in 1..m : k < l /\ Around(p, s[k]) = Around(p, s[l]) => s[k] < s[l]

\* No first-level IF comes twice.
Once(p, s, m) ==
  \A a, b \in 1..m :
    s[a] \in TopIfs(p) /\ s[b] \in TopIfs(p) /\ p[s[a]] = p[s[b]] => a = b

Moves(p, lo, hi, N, s, m) ==
  /\ Within(p, s, m) /\ Level(p, s, m) /\ Grouped(p, s, m)
  /\ Comes(p, lo, hi, N, s, m) /\ Covers(p, lo, hi, N, s, m)
  /\ Ordered(p, s, m) /\ Once(p, s, m)

\* Each place of r is one of the first or of the second part.
Parted(r, s, m, t, w) ==
  \A k \in 1..(m + w) : \/ k \in 1..m /\ r[k] = s[k]
                       \/ \E l \in 1..w : k = m + l /\ r[k] = t[l]

LEMMA Parts ==
  ASSUME NEW r, NEW s, NEW m \in Nat, NEW t, NEW w \in Nat, Joins(r, s, m, t, w)
  PROVE  Parted(r, s, m, t, w)
  BY Halves DEF Joins, Parted

LEMMA WithinJoin ==
  ASSUME NEW p, NEW r, NEW s, NEW m \in Nat, NEW t, NEW w \in Nat, Joins(r, s, m, t, w),
         Within(p, s, m), Within(p, t, w)
  PROVE  Within(p, r, m + w)
<1>0. Parted(r, s, m, t, w)
  BY Parts
<1>1. ASSUME NEW k \in 1..(m + w)
      PROVE  r[k] \in 1..Len(p)
  <2>1. \/ k \in 1..m /\ r[k] = s[k]
        \/ \E l \in 1..w : k = m + l /\ r[k] = t[l]
    BY <1>0 DEF Parted
  <2> QED
    BY <2>1 DEF Within
<1> QED
  BY <1>1, Halves DEF Within

LEMMA LevelJoin ==
  ASSUME NEW p, NEW r, NEW s, NEW m \in Nat, NEW t, NEW w \in Nat, Joins(r, s, m, t, w),
         Level(p, s, m), Level(p, t, w)
  PROVE  Level(p, r, m + w)
<1>0. Parted(r, s, m, t, w)
  BY Parts
<1>1. m + w # 0 => Depth(p, r[1] - 1) = 0 /\ Depth(p, r[m + w]) = 0
  <2>1. ASSUME m # 0, w = 0
        PROVE  r[1] = s[1] /\ r[m + w] = s[m]
    BY <2>1 DEF Joins
  <2>2. ASSUME m # 0, w # 0
        PROVE  r[1] = s[1] /\ r[m + w] = t[w]
    BY <2>2 DEF Joins
  <2>3. ASSUME m = 0, w # 0
        PROVE  r[1] = t[1] /\ r[m + w] = t[w]
    BY <2>3 DEF Joins
  <2> QED
    BY <2>1, <2>2, <2>3 DEF Level
<1>2. ASSUME NEW k \in 1..(m + w), k # m + w
      PROVE  \/ k \in 1..m /\ k # m /\ r[k] = s[k] /\ r[k + 1] = s[k + 1]
             \/ k = m /\ m # 0 /\ w # 0 /\ r[k] = s[m] /\ r[k + 1] = t[1]
             \/ \E l \in 1..w : l # w /\ r[k] = t[l] /\ r[k + 1] = t[l + 1]
  <2>1. CASE k \in 1..m
    <3>1. CASE k # m
      BY <2>1, <3>1 DEF Joins
    <3>2. CASE k = m
      BY <2>1, <3>2, <1>2 DEF Joins
    <3> QED
      BY <3>1, <3>2
  <2>2. CASE k \notin 1..m
    <3>1. PICK l \in 1..w : k = m + l /\ r[k] = t[l]
      BY <2>2, <1>0 DEF Parted
    <3>2. l # w /\ l + 1 \in 1..w /\ k + 1 = m + (l + 1)
      BY <3>1, <1>2
    <3> QED
      BY <3>1, <3>2 DEF Joins
  <2> QED
    BY <2>1, <2>2
<1>3. ASSUME NEW k \in 1..(m + w), k # m + w
      PROVE  Depth(p, r[k + 1] - 1) = Depth(p, r[k])
  BY <1>2, <1>3 DEF Level
<1>4. ASSUME NEW k \in 1..(m + w), Depth(p, r[k]) >= 2
      PROVE  k # m + w /\ r[k + 1] = r[k] + 1
  <2>1. k # m + w
    BY <1>1, <1>4
  <2>2. ~(m # 0 /\ r[k] = s[m])
    BY <1>4 DEF Level
  <2> QED
    BY <1>2, <1>4, <2>1, <2>2 DEF Level
<1> QED
  BY <1>1, <1>3, <1>4 DEF Level

LEMMA GroupedJoin ==
  ASSUME NEW p, NEW r, NEW s, NEW m \in Nat, NEW t, NEW w \in Nat, Joins(r, s, m, t, w),
         Level(p, s, m), Grouped(p, s, m), Grouped(p, t, w)
  PROVE  Grouped(p, r, m + w)
<1>0. Parted(r, s, m, t, w)
  BY Parts
<1>1. ASSUME NEW a \in 1..(m + w), NEW k \in 1..(m + w), r[a] \in TopIfs(p), a < k,
             \A x \in a..k : Depth(p, r[x]) >= 1
      PROVE  Around(p, r[k]) = {p[r[a]]}
  <2>1. CASE k \in 1..m
    <3>1. a \in 1..m /\ r[a] = s[a] /\ r[k] = s[k] /\ \A x \in a..k : r[x] = s[x]
      BY <1>1, <2>1 DEF Joins
    <3> QED
      BY <3>1, <1>1, <2>1 DEF Grouped
  <2>2. CASE k \notin 1..m /\ a \in 1..m
    <3>1. m # 0 /\ m \in a..k /\ r[m] = s[m]
      BY <2>2, <1>1 DEF Joins
    <3> QED
      BY <3>1, <1>1 DEF Level
  <2>3. CASE k \notin 1..m /\ a \notin 1..m
    <3>1. PICK l \in 1..w : k = m + l /\ r[k] = t[l]
      BY <2>3, <1>0 DEF Parted
    <3>2. PICK b \in 1..w : a = m + b /\ r[a] = t[b]
      BY <2>3, <1>0 DEF Parted
    <3>3. b < l
      BY <3>1, <3>2, <1>1
    <3>4. ASSUME NEW x \in b..l
          PROVE  Depth(p, t[x]) >= 1
      <4>1. x \in 1..w /\ m + x \in a..k
        BY <3>1, <3>2
      <4> QED
        BY <4>1, <1>1 DEF Joins
    <3>5. t[b] \in TopIfs(p)
      BY <3>2, <1>1
    <3>6. Around(p, t[l]) = {p[t[b]]}
      BY <3>3, <3>4, <3>5 DEF Grouped
    <3> QED
      BY <3>1, <3>2, <3>6
  <2> QED
    BY <2>1, <2>2, <2>3
<1> QED
  BY <1>1 DEF Grouped

LEMMA AroundKinds ==
  ASSUME NEW p, Balanced(p), NEW k \in 1..Len(p)
  PROVE  Around(p, k) = {} \/ \E l : Around(p, k) = {l}
<1>1. CASE Around(p, k) # {}
  <2>1. PICK l : l \in Around(p, k)
    BY <1>1
  <2>2. Around(p, k) = {l}
    BY <2>1, AroundIs
  <2> QED
    BY <2>2
<1> QED
  BY <1>1

LEMMA ComesJoin ==
  ASSUME NEW p, NEW r, NEW s, NEW m \in Nat, NEW t, NEW w \in Nat, Joins(r, s, m, t, w),
         NEW lo \in Nat, NEW mid \in Nat, NEW hi \in Nat, lo <= mid, mid <= hi, NEW L, NEW N,
         Within(p, s, m), Within(p, t, w), Comes(p, lo, mid, L, s, m), Comes(p, mid, hi, N, t, w)
  PROVE  Comes(p, lo, hi, L \cup N, r, m + w)
<1>0. Parted(r, s, m, t, w)
  BY Parts
<1>1. ASSUME NEW k \in 1..(m + w)
      PROVE  /\ Around(p, r[k]) = {} => lo < r[k] /\ r[k] <= hi
             /\ \A l : Around(p, r[k]) = {l} => l \in L \cup N
             /\ r[k] \in TopIfs(p) => p[r[k]] \in L \cup N
  <2>1. ASSUME k \in 1..m, r[k] = s[k]
        PROVE  /\ Around(p, r[k]) = {} => lo < r[k] /\ r[k] <= hi
               /\ \A l : Around(p, r[k]) = {l} => l \in L \cup N
               /\ r[k] \in TopIfs(p) => p[r[k]] \in L \cup N
    <3>1. Around(p, r[k]) = {} => lo < r[k] /\ r[k] <= mid
      BY <2>1 DEF Comes
    <3>2. r[k] \in Int
      BY <2>1 DEF Within
    <3>3. Around(p, r[k]) = {} => lo < r[k] /\ r[k] <= hi
      BY <3>1, <3>2
    <3> QED
      BY <2>1, <3>3 DEF Comes
  <2>2. ASSUME NEW j \in 1..w, r[k] = t[j]
        PROVE  /\ Around(p, r[k]) = {} => lo < r[k] /\ r[k] <= hi
               /\ \A l : Around(p, r[k]) = {l} => l \in L \cup N
               /\ r[k] \in TopIfs(p) => p[r[k]] \in L \cup N
    <3>1. Around(p, r[k]) = {} => mid < r[k] /\ r[k] <= hi
      BY <2>2 DEF Comes
    <3>2. r[k] \in Int
      BY <2>2 DEF Within
    <3>3. Around(p, r[k]) = {} => lo < r[k] /\ r[k] <= hi
      BY <3>1, <3>2
    <3> QED
      BY <2>2, <3>3 DEF Comes
  <2> QED
    BY <2>1, <2>2, <1>0 DEF Parted
<1> QED
  BY <1>1 DEF Comes

LEMMA CoversJoin ==
  ASSUME NEW p, NEW r, NEW s, NEW m \in Nat, NEW t, NEW w \in Nat, Joins(r, s, m, t, w),
         NEW lo \in Nat, NEW mid \in Nat, NEW hi \in Nat, lo <= mid, mid <= hi, NEW L, NEW N,
         Covers(p, lo, mid, L, s, m), Covers(p, mid, hi, N, t, w)
  PROVE  Covers(p, lo, hi, L \cup N, r, m + w)
<1>1. ASSUME NEW q, \E k \in 1..m : s[k] = q
      PROVE  \E k \in 1..(m + w) : r[k] = q
  BY <1>1, Halves DEF Joins
<1>2. ASSUME NEW q, \E k \in 1..w : t[k] = q
      PROVE  \E k \in 1..(m + w) : r[k] = q
  BY <1>2, Halves DEF Joins
<1>3. ASSUME NEW q \in 1..Len(p), Around(p, q) = {}, p[q].kind = "statement", lo < q, q <= hi
      PROVE  \E k \in 1..(m + w) : r[k] = q
  <2>1. CASE q <= mid
    <3>1. \E k \in 1..m : s[k] = q
      BY <1>3, <2>1 DEF Covers
    <3> QED
      BY <3>1, <1>1
  <2>2. CASE mid < q
    <3>1. \E k \in 1..w : t[k] = q
      BY <1>3, <2>2 DEF Covers
    <3> QED
      BY <3>1, <1>2
  <2> QED
    BY <2>1, <2>2, mid < q \/ q <= mid
<1>4. ASSUME NEW q \in 1..Len(p), NEW l \in L \cup N, Around(p, q) = {l}
      PROVE  \E k \in 1..(m + w) : r[k] = q
  <2>1. CASE l \in L
    <3>1. \E k \in 1..m : s[k] = q
      BY <1>4, <2>1 DEF Covers
    <3> QED
      BY <3>1, <1>1
  <2>2. CASE l \in N
    <3>1. \E k \in 1..w : t[k] = q
      BY <1>4, <2>2 DEF Covers
    <3> QED
      BY <3>1, <1>2
  <2> QED
    BY <2>1, <2>2
<1> QED
  BY <1>3, <1>4 DEF Covers

\* A line of the first part and one of the second are not under equal IFs.
Apart(p, s, m, t, w) ==
  \A k \in 1..m, l \in 1..w :
    /\ Around(p, s[k]) = Around(p, t[l]) => s[k] < t[l]
    /\ ~(s[k] \in TopIfs(p) /\ t[l] \in TopIfs(p) /\ p[s[k]] = p[t[l]])

LEMMA PartsApart ==
  ASSUME NEW p, Balanced(p), NEW s, NEW m \in Nat, NEW t, NEW w \in Nat,
         NEW lo \in Nat, NEW mid \in Nat, NEW hi \in Nat, NEW L, NEW N, L \cap N = {},
         Within(p, s, m), Within(p, t, w), Comes(p, lo, mid, L, s, m), Comes(p, mid, hi, N, t, w)
  PROVE  Apart(p, s, m, t, w)
<1>1. ASSUME NEW k \in 1..m, NEW l \in 1..w, Around(p, s[k]) = Around(p, t[l])
      PROVE  s[k] < t[l]
  <2>1. s[k] \in 1..Len(p) /\ s[k] \in Int /\ t[l] \in Int
    BY DEF Within
  <2>2. CASE Around(p, s[k]) = {}
    <3>1. s[k] <= mid
      BY <2>2 DEF Comes
    <3>2. mid < t[l]
      BY <2>2, <1>1 DEF Comes
    <3> QED
      BY <3>1, <3>2, <2>1
  <2>3. ASSUME NEW i, Around(p, s[k]) = {i}
        PROVE  FALSE
    BY <2>3, <1>1 DEF Comes
  <2> QED
    BY <2>1, <2>2, <2>3, AroundKinds
<1>2. ASSUME NEW k \in 1..m, NEW l \in 1..w
      PROVE  ~(s[k] \in TopIfs(p) /\ t[l] \in TopIfs(p) /\ p[s[k]] = p[t[l]])
  BY DEF Comes
<1> QED
  BY <1>1, <1>2 DEF Apart

LEMMA OrderedJoin ==
  ASSUME NEW p, NEW r, NEW s, NEW m \in Nat, NEW t, NEW w \in Nat, Joins(r, s, m, t, w),
         Apart(p, s, m, t, w), Ordered(p, s, m), Ordered(p, t, w)
  PROVE  Ordered(p, r, m + w)
<1>0. Parted(r, s, m, t, w)
  BY Parts
<1>1. ASSUME NEW k \in 1..(m + w), NEW l \in 1..(m + w), k < l, Around(p, r[k]) = Around(p, r[l])
      PROVE  r[k] < r[l]
  <2>1. CASE l \in 1..m
    <3>1. k \in 1..m /\ r[k] = s[k] /\ r[l] = s[l]
      BY <2>1, <1>1 DEF Joins
    <3> QED
      BY <3>1, <2>1, <1>1 DEF Ordered
  <2>2. ASSUME l \notin 1..m, k \in 1..m, r[k] = s[k]
        PROVE  r[k] < r[l]
    <3>1. PICK j \in 1..w : r[l] = t[j]
      BY <2>2, <1>0 DEF Parted
    <3> QED
      BY <3>1, <2>2, <1>1 DEF Apart
  <2>3. ASSUME l \notin 1..m, k \notin 1..m
        PROVE  r[k] < r[l]
    <3>1. PICK j \in 1..w : l = m + j /\ r[l] = t[j]
      BY <2>3, <1>0 DEF Parted
    <3>2. PICK i \in 1..w : k = m + i /\ r[k] = t[i]
      BY <2>3, <1>0 DEF Parted
    <3>3. i < j
      BY <3>1, <3>2, <1>1
    <3> QED
      BY <3>1, <3>2, <3>3, <1>1 DEF Ordered
  <2> QED
    BY <2>1, <2>2, <2>3, <1>0 DEF Joins
<1> QED
  BY <1>1 DEF Ordered

LEMMA OnceJoin ==
  ASSUME NEW p, NEW r, NEW s, NEW m \in Nat, NEW t, NEW w \in Nat, Joins(r, s, m, t, w),
         Apart(p, s, m, t, w), Once(p, s, m), Once(p, t, w)
  PROVE  Once(p, r, m + w)
<1>0. Parted(r, s, m, t, w)
  BY Parts
<1>1. ASSUME NEW k \in 1..(m + w), NEW l \in 1..(m + w),
             r[k] \in TopIfs(p), r[l] \in TopIfs(p), p[r[k]] = p[r[l]]
      PROVE  k = l
  <2>1. ASSUME k \in 1..m, r[k] = s[k], l \in 1..m, r[l] = s[l]
        PROVE  k = l
    BY <2>1, <1>1 DEF Once
  <2>2. ASSUME k \in 1..m, r[k] = s[k], NEW j \in 1..w, l = m + j, r[l] = t[j]
        PROVE  FALSE
    BY <2>2, <1>1 DEF Apart
  <2>3. ASSUME l \in 1..m, r[l] = s[l], NEW j \in 1..w, k = m + j, r[k] = t[j]
        PROVE  FALSE
    BY <2>3, <1>1 DEF Apart
  <2>4. ASSUME NEW i \in 1..w, k = m + i, r[k] = t[i], NEW j \in 1..w, l = m + j, r[l] = t[j]
        PROVE  k = l
    BY <2>4, <1>1 DEF Once
  <2>5. \/ k \in 1..m /\ r[k] = s[k]
        \/ \E j \in 1..w : k = m + j /\ r[k] = t[j]
    BY <1>0 DEF Parted
  <2>6. \/ l \in 1..m /\ r[l] = s[l]
        \/ \E j \in 1..w : l = m + j /\ r[l] = t[j]
    BY <1>0 DEF Parted
  <2> QED
    BY <2>1, <2>2, <2>3, <2>4, <2>5, <2>6
<1> QED
  BY <1>1 DEF Once

\* What a piece more of the output adds.
LEMMA MovesJoin ==
  ASSUME NEW p, Balanced(p), NEW r, NEW s, NEW m \in Nat, NEW t, NEW w \in Nat,
         Joins(r, s, m, t, w),
         NEW lo \in Nat, NEW mid \in Nat, NEW hi \in Nat, lo <= mid, mid <= hi,
         NEW L, NEW N, L \cap N = {},
         Moves(p, lo, mid, L, s, m), Moves(p, mid, hi, N, t, w)
  PROVE  Moves(p, lo, hi, L \cup N, r, m + w)
<1>1. /\ Within(p, s, m) /\ Level(p, s, m) /\ Grouped(p, s, m)
      /\ Comes(p, lo, mid, L, s, m) /\ Covers(p, lo, mid, L, s, m)
      /\ Ordered(p, s, m) /\ Once(p, s, m)
      /\ Within(p, t, w) /\ Level(p, t, w) /\ Grouped(p, t, w)
      /\ Comes(p, mid, hi, N, t, w) /\ Covers(p, mid, hi, N, t, w)
      /\ Ordered(p, t, w) /\ Once(p, t, w)
  BY DEF Moves
<1>2. Apart(p, s, m, t, w)
  BY <1>1, PartsApart
<1>3. Within(p, r, m + w) /\ Level(p, r, m + w) /\ Grouped(p, r, m + w)
  BY <1>1, WithinJoin, LevelJoin, GroupedJoin
<1>4. Comes(p, lo, hi, L \cup N, r, m + w) /\ Covers(p, lo, hi, L \cup N, r, m + w)
  BY <1>1, ComesJoin, CoversJoin
<1>5. Ordered(p, r, m + w) /\ Once(p, r, m + w)
  BY <1>1, <1>2, OrderedJoin, OnceJoin
<1> QED
  BY <1>3, <1>4, <1>5 DEF Moves

-----------------------------------------------------------------------------
(* The pieces of the output. *)

\* A line outside of all IFs.
LEMMA CopyMoves ==
  ASSUME NEW p, Balanced(p), NEW h \in 1..Len(p), Depth(p, h - 1) = 0, p[h].kind # "IF",
         NEW t, t[1] = h
  PROVE  Depth(p, h) = 0 /\ Moves(p, h - 1, h, {}, t, 1)
<1>1. Depth(p, h) = 0
  <2>1. Depth(p, h) \in Nat /\ Depth(p, h) = 0 + Turn(p[h])
    BY Steps
  <2>2. Turn(p[h]) \in {0, -1}
    BY DEF Turn
  <2> QED
    BY <2>1, <2>2
<1>2. h \notin TopIfs(p)
  BY DEF TopIfs
<1>3. Around(p, h) = {}
  BY <1>1, AroundNone
<1>4. Within(p, t, 1) /\ Level(p, t, 1) /\ Grouped(p, t, 1) /\ Ordered(p, t, 1) /\ Once(p, t, 1)
  BY <1>1 DEF Within, Level, Grouped, Ordered, Once
<1>5. Comes(p, h - 1, h, {}, t, 1)
  <2>1. h - 1 < h /\ h <= h
    OBVIOUS
  <2>2. \A l : Around(p, h) # {l}
    BY <1>3
  <2>3. \A k \in 1..1 : t[k] = h
    OBVIOUS
  <2> QED
    BY <1>2, <2>1, <2>2, <2>3 DEF Comes
<1>6. Covers(p, h - 1, h, {}, t, 1)
  BY DEF Covers
<1> QED
  BY <1>1, <1>4, <1>5, <1>6 DEF Moves

\* A first-level IF, its end and what is between.
Framed(p, h, e) ==
  /\ h \in 1..Len(p) /\ e \in (h + 1)..Len(p)
  /\ h \in TopIfs(p) /\ e \notin TopIfs(p)
  /\ Depth(p, h - 1) = 0 /\ Depth(p, h) = 1 /\ Depth(p, e - 1) = 1 /\ Depth(p, e) = 0
  /\ Around(p, h) = {} /\ Around(p, e) = {}
  /\ \A q \in 1..Len(p) : h <= q /\ q <= e /\ p[q].kind = "statement" => Around(p, q) = {p[h]}

LEMMA FramedIs ==
  ASSUME NEW p, Balanced(p), NEW h \in TopIfs(p)
  PROVE  Framed(p, h, EndOf(p, h))
<1> DEFINE e == EndOf(p, h)
<1>1. /\ h \in 1..Len(p) /\ p[h].kind = "IF"
      /\ Depth(p, h) = 1 /\ Depth(p, h - 1) = 0
  BY TopIs
<1>2. Ends(p, h, e) /\ p[e] = EndIf
  BY <1>1, EndIs
<1> HIDE DEF e
<1>3. e \in (h + 1)..Len(p) /\ Depth(p, e) = 0
  BY <1>1, <1>2 DEF Ends
<1>4. e \in 1..Len(p) /\ h < e
  BY <1>1, <1>3
<1>5. Depth(p, e - 1) = 1
  <2>1. Depth(p, e) = Depth(p, e - 1) + Turn(p[e]) /\ e - 1 \in 0..Len(p)
    BY <1>4, Steps
  <2>2. Turn(p[e]) = -1
    BY <1>2 DEF Turn, EndIf
  <2>3. Depth(p, e - 1) \in Nat
    BY <2>1, Steps
  <2> QED
    BY <1>3, <2>1, <2>2, <2>3
<1>6. e \notin TopIfs(p)
  BY <1>3 DEF TopIfs
<1>7. Around(p, h) = {} /\ Around(p, e) = {}
  BY <1>1, <1>3, <1>4, AroundNone
<1>8. ASSUME NEW q \in 1..Len(p), h <= q, q <= e, p[q].kind = "statement"
      PROVE  Around(p, q) = {p[h]}
  <2>1. h # q /\ e # q
    BY <1>1, <1>2, <1>8 DEF EndIf
  <2>2. h < q /\ q < e
    BY <2>1, <1>1, <1>4, <1>8
  <2>3. Inside(p, h, q)
    BY <2>2, <1>1, SurroundsIs DEF e
  <2> QED
    BY <2>3, AroundIs
<1> QED
  BY <1>1, <1>3, <1>5, <1>6, <1>7, <1>8 DEF Framed, e

\* The lines under the IFs equal to a line.
Under(p, line) == {q \in 1..Len(p) : Around(p, q) = {line}}

\* What is known of them.
Deep(p, A) ==
  \A q \in A :
    /\ q \in Nat /\ q \in 1..Len(p) /\ q \notin TopIfs(p)
    /\ Depth(p, q) \in Nat /\ Depth(p, q - 1) \in Nat
    /\ Depth(p, q) >= 1 /\ Depth(p, q - 1) >= 1
    /\ Depth(p, q) >= 2 => q + 1 \in A
    /\ Depth(p, q - 1) >= 2 => q - 1 \in A

LEMMA UnderDeep ==
  ASSUME NEW p, Balanced(p), NEW line
  PROVE  Deep(p, Under(p, line))
<1>1. ASSUME NEW q \in Under(p, line)
      PROVE  /\ q \in Nat /\ q \in 1..Len(p) /\ q \notin TopIfs(p)
             /\ Depth(p, q) \in Nat /\ Depth(p, q - 1) \in Nat
             /\ Depth(p, q) >= 1 /\ Depth(p, q - 1) >= 1
             /\ Depth(p, q) >= 2 => q + 1 \in Under(p, line)
             /\ Depth(p, q - 1) >= 2 => q - 1 \in Under(p, line)
  <2>1. q \in 1..Len(p) /\ Around(p, q) = {line}
    BY DEF Under
  <2>2. PICK i \in TopIfs(p) : Inside(p, i, q) /\ p[i] = line
    BY <2>1, AroundIs
  <2>3. q \notin TopIfs(p)
    BY <2>1, AroundNone
  <2>4. Depth(p, q) >= 1 /\ Depth(p, q - 1) >= 1 /\ q - 1 \in 0..Len(p) /\ q \in 0..Len(p) /\ q \in Nat
    BY <2>1, <2>2, InsideDepth, Steps
  <2>5. Depth(p, q) \in Nat /\ Depth(p, q - 1) \in Nat
    BY <2>4, Steps
  <2>6. ASSUME NEW x, Inside(p, i, x)
        PROVE  x \in Under(p, line)
    <3>1. x \in 1..Len(p)
      BY <2>6, InsideDepth
    <3>2. Around(p, x) = {p[i]}
      BY <2>6, <3>1, AroundIs
    <3> QED
      BY <3>1, <3>2, <2>2 DEF Under
  <2>7. Depth(p, q) >= 2 => q + 1 \in Under(p, line)
    BY <2>2, <2>6, InsideNext
  <2>8. Depth(p, q - 1) >= 2 => q - 1 \in Under(p, line)
    BY <2>2, <2>6, InsidePrevious
  <2> QED
    BY <2>1, <2>3, <2>4, <2>5, <2>7, <2>8
<1> QED
  BY <1>1 DEF Deep

\* t is h, the places of A in order, and e.
Wraps(t, w, h, e, A) ==
  /\ w \in Nat /\ w >= 2 /\ t[1] = h /\ t[w] = e
  /\ \A k \in 2..(w - 1) : t[k] \in A
  /\ \A q \in A : \E k \in 2..(w - 1) : t[k] = q
  /\ \A k, l \in 2..(w - 1) : k < l => t[k] < t[l]

LEMMA WrapsLevel ==
  ASSUME NEW p, NEW h, NEW e, NEW A, NEW t, NEW w,
         Framed(p, h, e), Deep(p, A), Wraps(t, w, h, e, A)
  PROVE  Level(p, t, w)
<1>0. w \in Nat /\ w >= 2 /\ t[1] = h /\ t[w] = e
  BY DEF Wraps
<1>a. ASSUME NEW k \in 2..(w - 1)
      PROVE  /\ t[k] \in A /\ t[k] \in Nat
             /\ Depth(p, t[k]) \in Nat /\ Depth(p, t[k]) >= 1
             /\ Depth(p, t[k] - 1) \in Nat /\ Depth(p, t[k] - 1) >= 1
             /\ Depth(p, t[k]) >= 2 => t[k] + 1 \in A
             /\ Depth(p, t[k] - 1) >= 2 => t[k] - 1 \in A
  <2>1. t[k] \in A
    BY DEF Wraps
  <2> QED
    BY <2>1 DEF Deep
<1>b. ASSUME NEW q \in A
      PROVE  \E k \in 2..(w - 1) : t[k] = q
  BY DEF Wraps
<1>c. ASSUME NEW k \in 2..(w - 1), NEW l \in 2..(w - 1), k < l
      PROVE  t[k] < t[l]
  BY <1>c DEF Wraps
<1>1. ASSUME NEW k \in 1..w, k # w, k # 1
      PROVE  k \in 2..(w - 1)
  BY <1>1, <1>0
<1>2. ASSUME NEW k \in 1..w, Depth(p, t[k]) >= 2
      PROVE  k # w /\ t[k + 1] = t[k] + 1
  <2>1. k # w /\ k # 1
    BY <1>2 DEF Wraps, Framed
  <2>2. k \in 2..(w - 1)
    BY <2>1, <1>1
  <2>3. t[k] \in A /\ t[k] \in Nat /\ t[k] + 1 \in A
    BY <2>2, <1>a, <1>2
  <2>4. PICK y \in 2..(w - 1) : t[y] = t[k] + 1
    BY <2>3, <1>b
  <2>5. ~(y < k) /\ y # k
    <3>1. y < k => t[y] < t[k]
      BY <2>2, <1>c
    <3> QED
      BY <3>1, <2>3, <2>4
  <2>6. k + 1 \in 2..(w - 1) /\ k < k + 1 /\ (k + 1 < y \/ k + 1 = y)
    BY <2>2, <2>5, <1>0
  <2>7. t[k] < t[k + 1] /\ t[k + 1] \in Nat
    <3>1. t[k + 1] \in Nat
      BY <2>6, <1>a
    <3> QED
      BY <3>1, <2>2, <2>6, <1>c
  <2>8. k + 1 < y => t[k + 1] < t[y]
    BY <2>6, <1>c
  <2> QED
    BY <2>1, <2>3, <2>4, <2>6, <2>7, <2>8
<1>3. ASSUME NEW k \in 1..w, k # w
      PROVE  Depth(p, t[k + 1] - 1) = Depth(p, t[k])
  <2>1. CASE Depth(p, t[k]) >= 2
    <3>1. t[k + 1] = t[k] + 1 /\ k # 1
      BY <1>2, <2>1 DEF Wraps, Framed
    <3>2. t[k] \in Nat
      BY <3>1, <1>1, <1>3, <1>a
    <3> QED
      BY <3>1, <3>2
  <2>2. CASE ~(Depth(p, t[k]) >= 2)
    <3>1. Depth(p, t[k]) = 1
      <4>1. CASE k = 1
        BY <4>1 DEF Wraps, Framed
      <4>2. CASE k # 1
        <5>1. Depth(p, t[k]) \in Nat /\ Depth(p, t[k]) >= 1
          BY <4>2, <1>1, <1>3, <1>a
        <5> QED
          BY <5>1, <2>2
      <4> QED
        BY <4>1, <4>2
    <3>2. CASE k + 1 = w
      BY <3>1, <3>2 DEF Wraps, Framed
    <3>3. CASE k + 1 # w
      <4>1. k + 1 \in 2..(w - 1) /\ w \in Nat
        BY <3>3, <1>3, <1>0
      <4>2. /\ t[k + 1] \in A /\ t[k + 1] \in Nat
            /\ Depth(p, t[k + 1] - 1) \in Nat /\ Depth(p, t[k + 1] - 1) >= 1
            /\ Depth(p, t[k + 1] - 1) >= 2 => t[k + 1] - 1 \in A
        BY <4>1, <1>a
      <4>3. ASSUME Depth(p, t[k + 1] - 1) >= 2
            PROVE  FALSE
        <5>1. PICK y \in 2..(w - 1) : t[y] = t[k + 1] - 1
          BY <4>2, <4>3, <1>b
        <5>2. ~(k + 1 < y) /\ k + 1 # y
          <6>1. k + 1 < y => t[k + 1] < t[y]
            BY <4>1, <1>c
          <6> QED
            BY <6>1, <4>2, <5>1
        <5>3. y # k
          BY <5>1, <4>3, <2>2
        <5>4. k \in 2..(w - 1) /\ y < k /\ k < k + 1
          BY <5>1, <5>2, <5>3, <4>1, <1>3
        <5>5. t[y] < t[k] /\ t[k] < t[k + 1] /\ t[k] \in Nat
          BY <5>4, <4>1, <1>a, <1>c
        <5> QED
          BY <5>1, <5>5, <4>2
      <4> QED
        BY <4>2, <4>3, <3>1
    <3> QED
      BY <3>2, <3>3
  <2> QED
    BY <2>1, <2>2
<1>4. Depth(p, t[1] - 1) = 0 /\ Depth(p, t[w]) = 0
  BY DEF Wraps, Framed
<1> QED
  BY <1>2, <1>3, <1>4 DEF Level

\* The places of such a map, one by one.
WrapsIs(p, t, w, h, e, A) ==
  \A k \in 1..w :
    \/ k = 1 /\ t[k] = h
    \/ k = w /\ t[k] = e
    \/ k \in 2..(w - 1) /\ t[k] \in A

LEMMA WrapsPlaces ==
  ASSUME NEW p, NEW h, NEW e, NEW A, NEW t, NEW w, Wraps(t, w, h, e, A)
  PROVE  WrapsIs(p, t, w, h, e, A)
<1>0. w \in Nat /\ w >= 2 /\ t[1] = h /\ t[w] = e
  BY DEF Wraps
<1>1. ASSUME NEW k \in 1..w, k # 1, k # w
      PROVE  k \in 2..(w - 1) /\ t[k] \in A
  <2>1. k \in 2..(w - 1)
    BY <1>0, <1>1
  <2> QED
    BY <2>1 DEF Wraps
<1> QED
  BY <1>0, <1>1 DEF WrapsIs

\* An IF with all that is under the IFs equal to it.
LEMMA WrapsMoves ==
  ASSUME NEW p, Balanced(p), NEW h, NEW e, Framed(p, h, e),
         NEW t, NEW w, Wraps(t, w, h, e, Under(p, p[h]))
  PROVE  Moves(p, h - 1, e, {p[h]}, t, w)
<1> DEFINE A == Under(p, p[h])
<1>a. Deep(p, A)
  BY UnderDeep
<1>b. \A q : q \in A <=> q \in 1..Len(p) /\ Around(p, q) = {p[h]}
  BY DEF Under
<1>c. Wraps(t, w, h, e, A)
  OBVIOUS
<1> HIDE DEF A
<1>d. WrapsIs(p, t, w, h, e, A)
  BY <1>c, WrapsPlaces
<1>e. w \in Nat /\ w >= 2 /\ t[1] = h /\ t[w] = e
  BY <1>c DEF Wraps
<1>f. /\ h \in 1..Len(p) /\ e \in (h + 1)..Len(p) /\ Len(p) \in Nat
      /\ h \in TopIfs(p) /\ e \notin TopIfs(p)
      /\ Depth(p, e) = 0 /\ Around(p, h) = {} /\ Around(p, e) = {}
  BY Steps DEF Framed
<1>g. h \in Nat /\ e \in 1..Len(p) /\ h < e /\ h - 1 < h /\ h <= e /\ e <= e /\ h - 1 < e
  BY <1>f
<1>h. \A q \in A : /\ q \in 1..Len(p) /\ q \notin TopIfs(p)
                   /\ Around(p, q) = {p[h]} /\ Around(p, q) # {}
  BY <1>a, <1>b DEF Deep
<1>1. Within(p, t, w)
  BY <1>d, <1>e, <1>f, <1>g, <1>h DEF Within, WrapsIs
<1>2. Level(p, t, w)
  BY <1>a, <1>c, WrapsLevel
<1>3. Grouped(p, t, w)
  <2>1. ASSUME NEW a \in 1..w, NEW k \in 1..w, t[a] \in TopIfs(p), a < k,
               \A x \in a..k : Depth(p, t[x]) >= 1
        PROVE  Around(p, t[k]) = {p[t[a]]}
    <3>1. a = 1 /\ t[a] = h
      BY <2>1, <1>d, <1>f, <1>h DEF WrapsIs
    <3>2. Depth(p, t[k]) >= 1 /\ k # 1
      BY <2>1, <3>1
    <3>3. t[k] # e
      BY <3>2, <1>f
    <3>4. t[k] \in A
      BY <3>2, <3>3, <1>d DEF WrapsIs
    <3> QED
      BY <3>1, <3>4, <1>h
  <2> QED
    BY <2>1 DEF Grouped
<1>4. Comes(p, h - 1, e, {p[h]}, t, w)
  <2>1. ASSUME NEW k \in 1..w
        PROVE  /\ Around(p, t[k]) = {} => h - 1 < t[k] /\ t[k] <= e
               /\ \A l : Around(p, t[k]) = {l} => l \in {p[h]}
               /\ t[k] \in TopIfs(p) => p[t[k]] \in {p[h]}
    <3>1. CASE t[k] = h
      BY <3>1, <1>f, <1>g
    <3>2. CASE t[k] = e
      BY <3>2, <1>f, <1>g
    <3>3. CASE t[k] \in A
      BY <3>3, <1>h
    <3> QED
      BY <3>1, <3>2, <3>3, <1>d DEF WrapsIs
  <2> QED
    BY <2>1 DEF Comes
<1>5. Covers(p, h - 1, e, {p[h]}, t, w)
  <2>1. ASSUME NEW q \in 1..Len(p), Around(p, q) = {}, p[q].kind = "statement", h - 1 < q, q <= e
        PROVE  FALSE
    <3>1. h <= q
      BY <2>1, <1>g
    <3>2. Around(p, q) = {p[h]}
      BY <2>1, <3>1 DEF Framed
    <3> QED
      BY <2>1, <3>2
  <2>2. ASSUME NEW q \in 1..Len(p), Around(p, q) = {p[h]}
        PROVE  \E k \in 1..w : t[k] = q
    <3>1. PICK k \in 2..(w - 1) : t[k] = q
      BY <2>2, <1>b, <1>c DEF Wraps
    <3>2. k \in 1..w
      BY <1>e
    <3> QED
      BY <3>1, <3>2
  <2> QED
    BY <2>1, <2>2 DEF Covers
<1>6. Ordered(p, t, w)
  <2>1. ASSUME NEW k \in 1..w, NEW l \in 1..w, k < l, Around(p, t[k]) = Around(p, t[l])
        PROVE  t[k] < t[l]
    <3>1. CASE t[k] \in A
      <4>1. l # 1
        BY <2>1
      <4>2. k \in 2..(w - 1) /\ l \in 2..(w - 1)
        BY <3>1, <4>1, <2>1, <1>d, <1>f, <1>e, <1>h DEF WrapsIs
      <4> QED
        BY <4>2, <2>1, <1>c DEF Wraps
    <3>2. CASE t[k] \notin A
      <4>1. k = 1 /\ t[k] = h
        BY <3>2, <2>1, <1>d, <1>e DEF WrapsIs
      <4>2. t[l] = e
        BY <4>1, <2>1, <1>d, <1>f, <1>h DEF WrapsIs
      <4> QED
        BY <4>1, <4>2, <1>g
    <3> QED
      BY <3>1, <3>2
  <2> QED
    BY <2>1 DEF Ordered
<1>7. Once(p, t, w)
  <2>1. ASSUME NEW k \in 1..w, t[k] \in TopIfs(p)
        PROVE  k = 1
    BY <2>1, <1>d, <1>f, <1>h DEF WrapsIs
  <2> QED
    BY <2>1 DEF Once
<1> QED
  BY <1>1, <1>2, <1>3, <1>4, <1>5, <1>6, <1>7 DEF Moves

\* An IF that comes again leaves nothing out, if the first one took it over.
LEMMA SkipMoves ==
  ASSUME NEW p, Balanced(p), NEW h, NEW e, Framed(p, h, e),
         NEW lo \in Nat, lo < h, NEW N, p[h] \in N, NEW s, NEW m, Moves(p, lo, h - 1, N, s, m)
  PROVE  Moves(p, lo, e, N, s, m)
<1>1. h \in 1..Len(p) /\ e \in (h + 1)..Len(p) /\ Len(p) \in Nat
  BY Steps DEF Framed
<1>2. /\ Within(p, s, m) /\ Level(p, s, m) /\ Grouped(p, s, m)
      /\ Comes(p, lo, h - 1, N, s, m) /\ Covers(p, lo, h - 1, N, s, m)
      /\ Ordered(p, s, m) /\ Once(p, s, m)
  BY DEF Moves
<1>3. Comes(p, lo, e, N, s, m)
  <2>1. ASSUME NEW k \in 1..m, Around(p, s[k]) = {}
        PROVE  lo < s[k] /\ s[k] <= e
    <3>1. lo < s[k] /\ s[k] <= h - 1
      BY <2>1, <1>2 DEF Comes
    <3>2. s[k] \in Int
      BY <1>2 DEF Within
    <3> QED
      BY <3>1, <3>2, <1>1
  <2> QED
    BY <2>1, <1>2 DEF Comes
<1>4. Covers(p, lo, e, N, s, m)
  <2>1. ASSUME NEW q \in 1..Len(p), Around(p, q) = {}, p[q].kind = "statement", lo < q, q <= e
        PROVE  \E k \in 1..m : s[k] = q
    <3>1. ~(h <= q)
      BY <2>1 DEF Framed
    <3>2. q <= h - 1
      BY <3>1, <1>1
    <3> QED
      BY <3>2, <2>1, <1>2 DEF Covers
  <2>2. ASSUME NEW q \in 1..Len(p), NEW l \in N, Around(p, q) = {l}
        PROVE  \E k \in 1..m : s[k] = q
    BY <2>2, <1>2 DEF Covers
  <2> QED
    BY <2>1, <2>2 DEF Covers
<1> QED
  BY <1>2, <1>3, <1>4 DEF Moves

-----------------------------------------------------------------------------
(* The output so far. *)

\* g is what the lines up to c become, where L are the first-level IFs seen.
Written(p, c, L, g) == \E s, m : From(g, p, s, m) /\ Moves(p, 0, c, L, s, m)

\* The first-level IFs up to a line.
TopLines(p, c) == {p[i] : i \in {j \in TopIfs(p) : j <= c}}

LEMMA WrittenNone ==
  ASSUME NEW p
  PROVE  Written(p, 0, {}, << >>)
<1> DEFINE s == [k \in 1..0 |-> 0]
<1>1. s \in [1..0 -> Nat] /\ << >> \in Seq(Lines) /\ Len(<< >>) = 0
  OBVIOUS
<1>2. \A k : k \notin 1..0
  OBVIOUS
<1> HIDE DEF s
<1>3. From(<< >>, p, s, 0)
  BY <1>1, <1>2 DEF From
<1>4. Within(p, s, 0) /\ Level(p, s, 0) /\ Grouped(p, s, 0) /\ Comes(p, 0, 0, {}, s, 0)
      /\ Ordered(p, s, 0) /\ Once(p, s, 0)
  BY <1>2 DEF Within, Level, Grouped, Comes, Ordered, Once
<1>5. Covers(p, 0, 0, {}, s, 0)
  BY DEF Covers
<1>6. Moves(p, 0, 0, {}, s, 0)
  BY <1>4, <1>5 DEF Moves
<1> QED
  BY <1>3, <1>6 DEF Written

\* A piece more.
LEMMA WrittenJoin ==
  ASSUME NEW p, Balanced(p), NEW c \in Nat, NEW e \in Nat, c <= e,
         NEW L, NEW N, L \cap N = {}, NEW g, NEW h, Written(p, c, L, g),
         NEW t, NEW w, From(h, p, t, w), Moves(p, c, e, N, t, w)
  PROVE  Written(p, e, L \cup N, g \o h)
<1>1. PICK s, m : From(g, p, s, m) /\ Moves(p, 0, c, L, s, m)
  BY DEF Written
<1>2. m \in Nat /\ w \in Nat /\ s \in [1..m -> Nat] /\ t \in [1..w -> Nat]
  BY <1>1 DEF From
<1>3. PICK r : Joins(r, s, m, t, w)
  BY <1>2, JoinExists
<1>4. From(g \o h, p, r, m + w)
  BY <1>1, <1>3, FromJoin
<1>5. 0 \in Nat /\ 0 <= c
  OBVIOUS
<1>6. Moves(p, 0, e, L \cup N, r, m + w)
  BY <1>1, <1>2, <1>3, <1>5, MovesJoin
<1> QED
  BY <1>4, <1>6 DEF Written

\* One line of a program as a piece.
LEMMA FromOne ==
  ASSUME NEW p, NEW h \in Nat, p[h] \in Lines
  PROVE  From(<<p[h]>>, p, [k \in 1..1 |-> h], 1)
<1>1. <<p[h]>> \in Seq(Lines) /\ Len(<<p[h]>>) = 1 /\ <<p[h]>>[1] = p[h]
  OBVIOUS
<1>2. [k \in 1..1 |-> h] \in [1..1 -> Nat] /\ \A k \in 1..1 : [x \in 1..1 |-> h][k] = h /\ k = 1
  OBVIOUS
<1> QED
  BY <1>1, <1>2 DEF From

LEMMA CopyWritten ==
  ASSUME NEW p, Balanced(p), NEW h \in 1..Len(p), Depth(p, h - 1) = 0, p[h].kind # "IF",
         NEW g, Written(p, h - 1, TopLines(p, h - 1), g)
  PROVE  /\ Depth(p, h) = 0
         /\ TopLines(p, h) = TopLines(p, h - 1)
         /\ Written(p, h, TopLines(p, h), g \o <<p[h]>>)
<1> DEFINE t == [k \in 1..1 |-> h]
<1>1. t[1] = h /\ h \in Nat /\ h - 1 \in Nat /\ h - 1 <= h /\ p[h] \in Lines /\ 1 \in Nat
  BY Steps
<1>2. From(<<p[h]>>, p, t, 1)
  BY <1>1, FromOne
<1> HIDE DEF t
<1>3. Depth(p, h) = 0 /\ Moves(p, h - 1, h, {}, t, 1)
  BY <1>1, CopyMoves
<1>4. TopLines(p, h) = TopLines(p, h - 1)
  <2>1. ASSUME NEW i \in TopIfs(p)
        PROVE  i <= h <=> i <= h - 1
    <3>1. i \in Int /\ i # h
      BY Steps DEF TopIfs
    <3> QED
      BY <3>1
  <2> QED
    BY <2>1 DEF TopLines
<1>5. Written(p, h, TopLines(p, h - 1) \cup {}, g \o <<p[h]>>)
  <2>1. TopLines(p, h - 1) \cap {} = {}
    OBVIOUS
  <2> QED
    BY <1>1, <1>2, <1>3, <2>1, WrittenJoin
<1>6. TopLines(p, h - 1) \cup {} = TopLines(p, h)
  BY <1>4
<1> QED
  BY <1>3, <1>4, <1>5, <1>6

\* Where the next IF ends, and which first-level IFs there are up to there.
LEMMA TopLinesNext ==
  ASSUME NEW p, Balanced(p), NEW h \in TopIfs(p), NEW e, Framed(p, h, e), e = EndOf(p, h)
  PROVE  TopLines(p, e) = TopLines(p, h - 1) \cup {p[h]}
<1>1. h \in 1..Len(p) /\ e \in (h + 1)..Len(p) /\ Len(p) \in Nat /\ e \notin TopIfs(p)
      /\ p[h].kind = "IF"
  BY Steps, TopIs DEF Framed
<1>2. ASSUME NEW i \in TopIfs(p)
      PROVE  i <= e <=> i <= h - 1 \/ i = h
  <2>1. i \in 1..Len(p) /\ i # e
    BY <1>1, Steps DEF TopIfs
  <2>2. ~(h < i /\ i < e)
    <3>1. ASSUME h < i, i < e
          PROVE  FALSE
      <4>1. Inside(p, h, i)
        BY <3>1, <2>1, <1>1, SurroundsIs
      <4>2. Around(p, i) = {p[h]}
        BY <4>1, <2>1, AroundIs
      <4> QED
        BY <4>2, <2>1, AroundNone
    <3> QED
      BY <3>1
  <2> QED
    BY <2>1, <2>2, <1>1
<1> QED
  BY <1>2 DEF TopLines

LEMMA SkipWritten ==
  ASSUME NEW p, Balanced(p), NEW h \in TopIfs(p), NEW e, e = EndOf(p, h),
         NEW g, Written(p, h - 1, TopLines(p, h - 1), g), p[h] \in TopLines(p, h - 1)
  PROVE  /\ Depth(p, e) = 0
         /\ TopLines(p, e) = TopLines(p, h - 1)
         /\ Written(p, e, TopLines(p, e), g)
<1>1. Framed(p, h, e)
  BY FramedIs
<1>2. TopLines(p, e) = TopLines(p, h - 1)
  BY <1>1, TopLinesNext
<1>3. PICK s, m : From(g, p, s, m) /\ Moves(p, 0, h - 1, TopLines(p, h - 1), s, m)
  BY DEF Written
<1>4. 0 \in Nat /\ 0 < h
  BY Steps, TopIs
<1>5. Moves(p, 0, e, TopLines(p, h - 1), s, m)
  BY <1>1, <1>3, <1>4, SkipMoves
<1> QED
  BY <1>1, <1>2, <1>3, <1>5 DEF Framed, Written

\* What the first of equal IFs takes over is what is under all of them.
LEMMA MovedAll ==
  ASSUME NEW p, Balanced(p), NEW h \in TopIfs(p), p[h] \notin TopLines(p, h - 1)
  PROVE  Moved(p, p[h], h) = Under(p, p[h])
<1>1. ASSUME NEW q \in Moved(p, p[h], h)
      PROVE  q \in Under(p, p[h])
  <2>1. PICK i \in TopIfs(p) : p[i] = p[h] /\ Inside(p, i, q)
    BY DEF Moved
  <2>2. q \in 1..Len(p)
    BY DEF Moved
  <2>3. Around(p, q) = {p[i]}
    BY <2>1, <2>2, AroundIs
  <2> QED
    BY <2>1, <2>2, <2>3 DEF Under
<1>2. ASSUME NEW q \in Under(p, p[h])
      PROVE  q \in Moved(p, p[h], h)
  <2>1. q \in 1..Len(p) /\ Around(p, q) = {p[h]}
    BY DEF Under
  <2>2. PICK i \in TopIfs(p) : Inside(p, i, q) /\ p[i] = p[h]
    BY <2>1, AroundIs
  <2>3. ~(i <= h - 1)
    BY <2>2 DEF TopLines
  <2>4. h <= i
    BY <2>3, Steps DEF TopIfs
  <2> QED
    BY <2>1, <2>2, <2>4 DEF Moved
<1> QED
  BY <1>1, <1>2

\* A list of lines with a line before and one after it.
LEMMA ListsWrap ==
  ASSUME NEW p, NEW g, NEW A, Lists(g, p, A),
         NEW h \in Nat, p[h] \in Lines, NEW e \in Nat, p[e] \in Lines
  PROVE  \E t, w : From(<<p[h]>> \o g \o <<p[e]>>, p, t, w) /\ Wraps(t, w, h, e, A)
<1>1. PICK u, v : From(g, p, u, v) /\ Enumerates(u, v, A)
  BY DEF Lists
<1> DEFINE a == [k \in 1..1 |-> h]
           b == [k \in 1..1 |-> e]
<1>2. From(<<p[h]>>, p, a, 1) /\ From(<<p[e]>>, p, b, 1)
  BY FromOne
<1>3. a \in [1..1 -> Nat] /\ b \in [1..1 -> Nat] /\ a[1] = h /\ b[1] = e /\ 1 \in Nat
  OBVIOUS
<1>4. v \in Nat /\ 1 + v \in Nat /\ u \in [1..v -> Nat]
  BY <1>1 DEF From
<1> HIDE DEF a, b
<1>5. PICK r : Joins(r, a, 1, u, v)
  BY <1>3, <1>4, JoinExists
<1>6. From(<<p[h]>> \o g, p, r, 1 + v)
  BY <1>1, <1>2, <1>5, FromJoin
<1>7. r \in [1..(1 + v) -> Nat]
  BY <1>6 DEF From
<1>8. PICK t : Joins(t, r, 1 + v, b, 1)
  BY <1>3, <1>4, <1>7, JoinExists
<1>9. From(<<p[h]>> \o g \o <<p[e]>>, p, t, 1 + v + 1)
  BY <1>2, <1>6, <1>8, FromJoin
<1>10. t[1] = h /\ t[1 + v + 1] = e
  BY <1>3, <1>4, <1>5, <1>8 DEF Joins
<1>11. ASSUME NEW k \in 1..v
       PROVE  t[1 + k] = u[k]
  <2>1. 1 + k \in 1..(1 + v)
    BY <1>4
  <2>2. t[1 + k] = r[1 + k]
    BY <2>1, <1>8 DEF Joins
  <2> QED
    BY <2>2, <1>5 DEF Joins
<1>12. ASSUME NEW k \in 2..(1 + v + 1 - 1)
       PROVE  \E l \in 1..v : k = 1 + l
  <2>1. k - 1 \in 1..v /\ k = 1 + (k - 1)
    BY <1>4
  <2> QED
    BY <2>1
<1>13. ASSUME NEW l \in 1..v
       PROVE  1 + l \in 2..(1 + v + 1 - 1)
  BY <1>4
<1>14. ASSUME NEW k \in 2..(1 + v + 1 - 1)
       PROVE  t[k] \in A
  BY <1>1, <1>11, <1>12 DEF Enumerates
<1>15. ASSUME NEW q \in A
       PROVE  \E k \in 2..(1 + v + 1 - 1) : t[k] = q
  BY <1>1, <1>11, <1>13 DEF Enumerates
<1>16. ASSUME NEW k \in 2..(1 + v + 1 - 1), NEW l \in 2..(1 + v + 1 - 1), k < l
       PROVE  t[k] < t[l]
  <2>1. PICK x \in 1..v : k = 1 + x
    BY <1>12
  <2>2. PICK y \in 1..v : l = 1 + y
    BY <1>12
  <2>3. x < y
    BY <2>1, <2>2, <1>16
  <2> QED
    BY <2>1, <2>2, <2>3, <1>1, <1>11 DEF Enumerates
<1>17. Wraps(t, 1 + v + 1, h, e, A)
  BY <1>4, <1>10, <1>14, <1>15, <1>16 DEF Wraps
<1> QED
  BY <1>9, <1>17

\* Pieces of output come to the same however they are put together.
Associates(a, b, c) == (a \o b) \o c = a \o (b \o c)
Flattens(g, x, b, l, y) == g \o (x \o (b \o l) \o y) = g \o x \o b \o l \o y

LEMMA ConcatThree ==
  ASSUME NEW a, NEW b, NEW c, a \in Seq(Lines), b \in Seq(Lines), c \in Seq(Lines)
  PROVE  Associates(a, b, c)
  BY ConcatAssociative, SMTT(30) DEF Associates

LEMMA ConcatFive ==
  ASSUME NEW g, NEW x, NEW b, NEW l, NEW y,
         g \in Seq(Lines), x \in Seq(Lines), b \in Seq(Lines), l \in Seq(Lines), y \in Seq(Lines)
  PROVE  Flattens(g, x, b, l, y)
<1>1. b \o l \in Seq(Lines) /\ g \o x \in Seq(Lines)
  BY ConcatProperties
<1>2. PICK c : c = b \o l
  OBVIOUS
<1>3. PICK d : d = x \o c
  OBVIOUS
<1>4. c \in Seq(Lines) /\ d \in Seq(Lines)
  BY <1>1, <1>2, <1>3, ConcatProperties
<1>5. Associates(g, d, y)
  BY <1>4, ConcatThree
<1>6. Associates(g, x, c)
  BY <1>4, ConcatThree
<1>7. Associates(g \o x, b, l)
  BY <1>1, ConcatThree
<1> QED
  BY <1>2, <1>3, <1>5, <1>6, <1>7 DEF Associates, Flattens

LEMMA FirstWritten ==
  ASSUME Balanced(file), NEW h \in TopIfs(file), NEW e, e = EndOf(file, h),
         Topmost(file, file[h]), file[h] \notin TopLines(file, h - 1),
         NEW g, Written(file, h - 1, TopLines(file, h - 1), g)
  PROVE  /\ Depth(file, e) = 0
         /\ TopLines(file, e) = TopLines(file, h - 1) \cup {file[h]}
         /\ Written(file, e, TopLines(file, e),
                    g \o <<file[h]>> \o BodyOf(file, h) \o Later(file[h], e + 1) \o <<EndIf>>)
<1> DEFINE b == BodyOf(file, h)
           l == Later(file[h], e + 1)
<1>1. Framed(file, h, e)
  BY FramedIs
<1>2. TopLines(file, e) = TopLines(file, h - 1) \cup {file[h]}
  BY <1>1, TopLinesNext
<1>3. /\ h \in 1..Len(file) /\ e \in (h + 1)..Len(file) /\ Len(file) \in Nat
      /\ e + 1 \in 1..(Len(file) + 1) /\ h \in Nat /\ e \in Nat /\ e \in 1..Len(file)
      /\ h - 1 \in Nat /\ h - 1 <= e
  BY <1>1, Steps DEF Framed
<1>4. file[h] \in Lines /\ file[e] = EndIf /\ file[e] \in Lines
  BY <1>3, Steps, EndIs, TopIs
<1>5. Lists(b, file, (h + 1)..(e - 1))
  BY BodyLists
<1>6. Lists(l, file, Moved(file, file[h], e + 1))
  BY <1>3, LaterLists
<1>7. /\ ((h + 1)..(e - 1)) \cup Moved(file, file[h], e + 1) = Under(file, file[h])
      /\ \A x \in (h + 1)..(e - 1), y \in Moved(file, file[h], e + 1) : x < y
  BY MovedHere, MovedAll
<1> HIDE DEF b, l
<1>8. Lists(b \o l, file, Under(file, file[h]))
  <2> DEFINE A == (h + 1)..(e - 1)
             B == Moved(file, file[h], e + 1)
  <2>1. Lists(b, file, A) /\ Lists(l, file, B)
    BY <1>5, <1>6
  <2>2. A \cup B = Under(file, file[h]) /\ \A x \in A, y \in B : x < y
    BY <1>7
  <2> HIDE DEF A, B
  <2>3. Lists(b \o l, file, A \cup B)
    BY <2>1, <2>2, ListsJoin
  <2> QED
    BY <2>2, <2>3
<1>9. PICK t, w : /\ From(<<file[h]>> \o (b \o l) \o <<file[e]>>, file, t, w)
                  /\ Wraps(t, w, h, e, Under(file, file[h]))
  BY <1>3, <1>4, <1>8, ListsWrap
<1>10. Moves(file, h - 1, e, {file[h]}, t, w)
  BY <1>1, <1>9, WrapsMoves
<1>11. Written(file, e, TopLines(file, h - 1) \cup {file[h]},
               g \o (<<file[h]>> \o (b \o l) \o <<file[e]>>))
  <2>1. TopLines(file, h - 1) \cap {file[h]} = {}
    OBVIOUS
  <2> QED
    BY <2>1, <1>3, <1>9, <1>10, WrittenJoin
<1>12. g \o (<<file[h]>> \o (b \o l) \o <<file[e]>>) = g \o <<file[h]>> \o b \o l \o <<EndIf>>
  <2>1. g \in Seq(Lines) /\ b \in Seq(Lines) /\ l \in Seq(Lines)
    BY <1>5, <1>6 DEF Lists, From, Written
  <2>2. <<file[h]>> \in Seq(Lines) /\ <<EndIf>> \in Seq(Lines)
    BY <1>4
  <2>3. Flattens(g, <<file[h]>>, b, l, <<EndIf>>)
    BY <2>1, <2>2, ConcatFive
  <2> QED
    BY <2>3, <1>4 DEF Flattens
<1>13. Depth(file, e) = 0
  BY <1>1 DEF Framed
<1> QED
  BY <1>2, <1>11, <1>12, <1>13 DEF b, l

-----------------------------------------------------------------------------
(* What the optimized program f is to the one it was made of. *)

LEMMA CopiedDepth ==
  ASSUME NEW p, Balanced(p), NEW f, NEW s, NEW m,
         From(f, p, s, m), Within(p, s, m), Level(p, s, m)
  PROVE  \A k \in 1..m : Depth(f, k) = Depth(p, s[k])
<1> DEFINE T == {k \in Nat : k \in 1..m => Depth(f, k) = Depth(p, s[k])}
<1>1. m \in Nat /\ \A k \in 1..m : f[k] = p[s[k]] /\ s[k] \in 1..Len(p)
  BY DEF From, Within
<1>2. 0 \in T
  OBVIOUS
<1>3. ASSUME NEW n \in Nat, n \in T
      PROVE  n + 1 \in T
  <2>1. ASSUME n + 1 \in 1..m
        PROVE  Depth(f, n + 1) = Depth(p, s[n + 1])
    <3>1. Depth(f, n + 1) = Depth(f, n) + Turn(f[n + 1])
      BY DepthNext
    <3>2. f[n + 1] = p[s[n + 1]] /\ s[n + 1] \in 1..Len(p)
      BY <1>1, <2>1
    <3>3. Depth(p, s[n + 1]) = Depth(p, s[n + 1] - 1) + Turn(p[s[n + 1]])
      BY <3>2, Steps
    <3>4. Depth(f, n) = Depth(p, s[n + 1] - 1)
      <4>1. CASE n = 0
        <5>1. Depth(f, n) = 0
          BY <4>1, DepthNext
        <5>2. Depth(p, s[n + 1] - 1) = 0
          BY <4>1, <1>1, <2>1 DEF Level
        <5> QED
          BY <5>1, <5>2
      <4>2. CASE n # 0
        <5>1. n \in 1..m /\ n # m
          BY <4>2, <1>1, <2>1
        <5>2. Depth(f, n) = Depth(p, s[n])
          BY <5>1, <1>3
        <5>3. Depth(p, s[n + 1] - 1) = Depth(p, s[n])
          BY <5>1 DEF Level
        <5> QED
          BY <5>2, <5>3
      <4> QED
        BY <4>1, <4>2
    <3> QED
      BY <3>1, <3>2, <3>3, <3>4
  <2>2. n + 1 \in Nat
    OBVIOUS
  <2> QED
    BY <2>1, <2>2
<1> HIDE DEF T
<1>4. \A k \in 1..m : k \in T
  <2>1. Nat \subseteq T
    BY <1>2, <1>3, SetInduction
  <2> QED
    BY <1>1, <2>1
<1> QED
  BY <1>4 DEF T

\* Line k of f is line s[k] of p, at the same depth, and below a first-level IF
\* the lines next to each other are so in both.
Copies(p, f, s, m) ==
  /\ Balanced(p) /\ Balanced(f) /\ m \in Nat /\ Len(f) = m
  /\ \A k \in 1..m : s[k] \in 1..Len(p) /\ f[k] = p[s[k]] /\ Depth(f, k) = Depth(p, s[k])
  /\ \A k \in 1..m : Depth(f, k) >= 2 => s[k + 1] = s[k] + 1
  /\ m # 0 => Depth(p, s[1] - 1) = 0
  /\ \A k \in 1..m : k # m => Depth(p, s[k + 1] - 1) = Depth(p, s[k])

\* The first-level IFs of f, what is under them, and that nothing is lost.
Gathers(p, f, s, m) ==
  /\ \A k \in 1..m : k \in TopIfs(f) <=> s[k] \in TopIfs(p)
  /\ \A i \in TopIfs(f), k \in 1..m : Inside(f, i, k) => Around(p, s[k]) = {f[i]}
  /\ \A i, j \in TopIfs(f) : f[i] = f[j] => i = j
  /\ \A q \in 1..Len(p) :
       Around(p, q) # {} \/ p[q].kind = "statement" => \E k \in 1..m : s[k] = q

LEMMA WrittenCopies ==
  ASSUME NEW p, Balanced(p), NEW f, NEW s, NEW m, NEW L,
         From(f, p, s, m), Moves(p, 0, Len(p), L, s, m)
  PROVE  Copies(p, f, s, m)
<1>1. Within(p, s, m) /\ Level(p, s, m)
  BY DEF Moves
<1>2. \A k \in 1..m : Depth(f, k) = Depth(p, s[k])
  BY <1>1, CopiedDepth
<1>3. /\ m \in Nat /\ Len(f) = m /\ f \in Seq(Lines)
      /\ \A k \in 1..m : s[k] \in 1..Len(p) /\ f[k] = p[s[k]]
  BY <1>1 DEF From, Within
<1>4. Depth(f, 0) = 0
  BY DepthNext
<1>5. ASSUME NEW k \in 1..m
      PROVE  Depth(f, k) \in Nat
  <2>1. s[k] \in 1..Len(p) /\ Depth(f, k) = Depth(p, s[k])
    BY <1>2, <1>3
  <2>2. Len(p) \in Nat /\ \A x \in 0..Len(p) : Depth(p, x) \in Nat
    BY Steps
  <2>3. s[k] \in 0..Len(p)
    BY <2>1, <2>2
  <2> QED
    BY <2>1, <2>2, <2>3
<1>6. Balanced(f)
  <2>1. \A k \in 0..Len(f) : k = 0 \/ k \in 1..m
    BY <1>3
  <2>2. \A k \in 0..Len(f) : Depth(f, k) >= 0
    BY <2>1, <1>4, <1>5
  <2>3. Depth(f, Len(f)) = 0
    <3>1. m # 0 => m \in 1..m /\ Depth(p, s[m]) = 0
      BY <1>1, <1>3 DEF Level
    <3> QED
      BY <3>1, <1>2, <1>3, <1>4
  <2> QED
    BY <2>2, <2>3, <1>3 DEF Balanced
<1>7. /\ m # 0 => Depth(p, s[1] - 1) = 0
      /\ \A k \in 1..m : k # m => Depth(p, s[k + 1] - 1) = Depth(p, s[k])
      /\ \A k \in 1..m : Depth(p, s[k]) >= 2 => s[k + 1] = s[k] + 1
  BY <1>1 DEF Level
<1> QED
  BY <1>2, <1>3, <1>6, <1>7 DEF Copies

LEMMA WrittenGathers ==
  ASSUME NEW p, NEW f, NEW s, NEW m, Copies(p, f, s, m),
         Moves(p, 0, Len(p), TopLines(p, Len(p)), s, m)
  PROVE  Gathers(p, f, s, m)
<1>1. /\ Balanced(p) /\ Balanced(f) /\ m \in Nat /\ Len(f) = m
      /\ \A k \in 1..m : s[k] \in 1..Len(p) /\ f[k] = p[s[k]] /\ Depth(f, k) = Depth(p, s[k])
  BY DEF Copies
<1>2. \A k \in 1..m : k \in TopIfs(f) <=> s[k] \in TopIfs(p)
  BY <1>1, Steps DEF TopIfs
<1>3. \A i \in TopIfs(f) : i \in 1..m /\ s[i] \in TopIfs(p) /\ f[i] = p[s[i]]
  BY <1>1, <1>2, Steps DEF TopIfs
<1>4. ASSUME NEW i \in TopIfs(f), NEW k \in 1..m, Inside(f, i, k)
      PROVE  Around(p, s[k]) = {f[i]}
  <2>1. i < k /\ Depth(f, i) = 1
    BY <1>1, <1>4, InsideDepth, TopIs
  <2>2. ASSUME NEW x \in i..k
        PROVE  Depth(p, s[x]) >= 1
    <3>1. x \in 1..m
      BY <1>1, <1>3
    <3>2. Depth(f, x) >= 1
      BY <2>1, <1>4 DEF Inside
    <3> QED
      BY <3>1, <3>2, <1>1
  <2>3. Grouped(p, s, m)
    BY DEF Moves
  <2> QED
    BY <2>1, <2>2, <2>3, <1>3 DEF Grouped
<1>5. \A i, j \in TopIfs(f) : f[i] = f[j] => i = j
  <2>1. Once(p, s, m)
    BY DEF Moves
  <2> QED
    BY <2>1, <1>3 DEF Once
<1>6. ASSUME NEW q \in 1..Len(p), Around(p, q) # {} \/ p[q].kind = "statement"
      PROVE  \E k \in 1..m : s[k] = q
  <2>1. Covers(p, 0, Len(p), TopLines(p, Len(p)), s, m)
    BY DEF Moves
  <2>2. CASE Around(p, q) = {}
    <3>1. 0 < q /\ q <= Len(p)
      BY <1>1, Steps
    <3> QED
      BY <2>1, <2>2, <3>1, <1>6 DEF Covers
  <2>3. CASE Around(p, q) # {}
    <3>1. PICK l : l \in Around(p, q)
      BY <2>3
    <3>2. Around(p, q) = {l} /\ \E i \in TopIfs(p) : Inside(p, i, q) /\ p[i] = l
      BY <1>1, <3>1, AroundIs
    <3>3. \A i \in TopIfs(p) : i <= Len(p)
      BY <1>1, Steps DEF TopIfs
    <3>4. l \in TopLines(p, Len(p))
      BY <3>2, <3>3 DEF TopLines
    <3> QED
      BY <2>1, <3>2, <3>4 DEF Covers
  <2> QED
    BY <2>2, <2>3
<1> QED
  BY <1>2, <1>4, <1>5, <1>6 DEF Gathers

\* Before two lines that correspond, as long as it is deep in f or in p.
LEMMA Backwards ==
  ASSUME NEW p, NEW f, NEW s, NEW m, Copies(p, f, s, m), NEW k \in 1..m, NEW d \in Nat,
         \A y \in 1..d : \/ k - y \in 1..m /\ Depth(f, k - y) >= 2
                         \/ Depth(p, s[k] - y) >= 2
  PROVE  \A y \in 0..d : k - y \in 1..m /\ s[k - y] = s[k] - y
<1> DEFINE T == {y \in Nat : y <= d => k - y \in 1..m /\ s[k - y] = s[k] - y}
<1>0. m \in Nat /\ s[k] \in Int /\ \A x \in 1..m : s[x] \in Int
  <2>1. Len(p) \in Nat
    BY Steps DEF Copies
  <2> QED
    BY <2>1 DEF Copies
<1>1. 0 \in T
  BY <1>0
<1>2. ASSUME NEW y \in Nat, y \in T
      PROVE  y + 1 \in T
  <2>1. ASSUME y + 1 <= d
        PROVE  k - (y + 1) \in 1..m /\ s[k - (y + 1)] = s[k] - (y + 1)
    <3>1. y <= d /\ y + 1 \in 1..d
      BY <2>1
    <3>2. k - y \in 1..m /\ s[k - y] = s[k] - y
      BY <3>1, <1>2
    <3>3. PICK x \in Int : x = k - (y + 1)
      BY <1>0
    <3>4. x + 1 = k - y /\ x + 1 \in 1..m
      BY <3>2, <3>3
    <3>5. ASSUME x \in 1..m, s[x + 1] = s[x] + 1
          PROVE  k - (y + 1) \in 1..m /\ s[k - (y + 1)] = s[k] - (y + 1)
      BY <3>2, <3>3, <3>4, <3>5, <1>0
    <3>6. CASE x \in 1..m /\ Depth(f, x) >= 2
      <4>1. s[x + 1] = s[x] + 1
        BY <3>6 DEF Copies
      <4> QED
        BY <4>1, <3>5, <3>6
    <3>7. CASE Depth(p, s[k] - (y + 1)) >= 2
      <4>1. s[k] - (y + 1) = s[x + 1] - 1
        BY <3>2, <3>4, <1>0
      <4>2. Depth(p, s[x + 1] - 1) >= 2
        BY <4>1, <3>7
      <4>3. x + 1 # 1
        BY <4>2, <1>0, <3>4 DEF Copies
      <4>4. x \in 1..m /\ x # m
        BY <4>3, <3>4, <1>0
      <4>5. Depth(p, s[x + 1] - 1) = Depth(p, s[x]) /\ Depth(p, s[x]) = Depth(f, x)
        BY <4>4 DEF Copies
      <4>6. s[x + 1] = s[x] + 1
        BY <4>2, <4>4, <4>5 DEF Copies
      <4> QED
        BY <4>4, <4>6, <3>5
    <3> QED
      BY <3>1, <3>3, <3>6, <3>7
  <2>2. y + 1 \in Nat
    OBVIOUS
  <2> QED
    BY <2>1, <2>2
<1> HIDE DEF T
<1>3. \A y \in 0..d : y \in T
  <2>1. Nat \subseteq T
    BY <1>1, <1>2, SetInduction
  <2> QED
    BY <2>1
<1> QED
  BY <1>3 DEF T

\* The lines i to k of f are the lines j to q of p.
Twins(p, f, i, k, j, q) ==
  /\ i \in 1..Len(f) /\ k \in 1..Len(f) /\ i < k
  /\ j \in 1..Len(p) /\ q \in 1..Len(p) /\ j < q
  /\ \A x \in i..k : \E y \in j..q : y - j = x - i /\ f[x] = p[y] /\ Depth(f, x) = Depth(p, y)
  /\ \A y \in j..q : \E x \in i..k : y - j = x - i /\ f[x] = p[y] /\ Depth(f, x) = Depth(p, y)

LEMMA TwinsAre ==
  ASSUME NEW p, NEW f, NEW s, NEW m, Copies(p, f, s, m), NEW k \in 1..m, NEW d \in Nat, d # 0,
         \A y \in 0..d : k - y \in 1..m /\ s[k - y] = s[k] - y
  PROVE  Twins(p, f, k - d, k, s[k] - d, s[k])
<1>1. Len(p) \in Nat /\ m \in Nat /\ Len(f) = m
  BY Steps DEF Copies
<1>2. \A x \in 1..m : s[x] \in 1..Len(p) /\ f[x] = p[s[x]] /\ Depth(f, x) = Depth(p, s[x])
  BY DEF Copies
<1>3. PICK q \in Int : q = s[k] /\ q \in 1..Len(p)
  BY <1>1, <1>2
<1>4. PICK i \in Int : i = k - d
  OBVIOUS
<1>5. PICK j \in Int : j = q - d
  OBVIOUS
<1>6. \A y \in 0..d : k - y \in 1..m /\ s[k - y] = q - y
  BY <1>3
<1>7. i \in 1..m /\ s[i] = j
  <2>1. d \in 0..d
    OBVIOUS
  <2> QED
    BY <2>1, <1>4, <1>5, <1>6
<1>8. j \in 1..Len(p) /\ i < k /\ j < q
  <2>1. j \in 1..Len(p)
    BY <1>2, <1>7
  <2> QED
    BY <2>1, <1>3, <1>4, <1>5
<1>9. ASSUME NEW z \in 0..d
      PROVE  f[k - z] = p[q - z] /\ Depth(f, k - z) = Depth(p, q - z)
  BY <1>2, <1>6
<1>10. ASSUME NEW z \in 0..d
       PROVE  k - z \in i..k /\ q - z \in j..q /\ (q - z) - j = (k - z) - i
  BY <1>4, <1>5
<1>11. ASSUME NEW x \in i..k
       PROVE  \E y \in j..q : y - j = x - i /\ f[x] = p[y] /\ Depth(f, x) = Depth(p, y)
  <2>1. PICK z \in 0..d : x = k - z
    <3>1. k - x \in 0..d /\ x = k - (k - x)
      BY <1>4
    <3> QED
      BY <3>1
  <2> QED
    BY <2>1, <1>9, <1>10
<1>12. ASSUME NEW y \in j..q
       PROVE  \E x \in i..k : y - j = x - i /\ f[x] = p[y] /\ Depth(f, x) = Depth(p, y)
  <2>1. PICK z \in 0..d : y = q - z
    <3>1. q - y \in 0..d /\ y = q - (q - y)
      BY <1>5
    <3> QED
      BY <3>1
  <2> QED
    BY <2>1, <1>9, <1>10
<1>13. Twins(p, f, i, k, j, q)
  BY <1>1, <1>3, <1>7, <1>8, <1>11, <1>12 DEF Twins
<1> QED
  BY <1>3, <1>4, <1>5, <1>13

LEMMA TwinsSame ==
  ASSUME NEW p, Balanced(p), NEW f, Balanced(f), NEW i, NEW k, NEW j, NEW q,
         Twins(p, f, i, k, j, q)
  PROVE  /\ f[i] = p[j] /\ Depth(f, i) = Depth(p, j)
         /\ Inside(f, i, k) <=> Inside(p, j, q)
         /\ InElse(f, i, k) <=> InElse(p, j, q)
<1>1. /\ i \in 1..Len(f) /\ k \in 1..Len(f) /\ i < k
      /\ j \in 1..Len(p) /\ q \in 1..Len(p) /\ j < q
      /\ Len(f) \in Nat /\ Len(p) \in Nat
  BY Steps DEF Twins
<1>2. ASSUME NEW x \in i..k
      PROVE  \E y \in j..q : y - j = x - i /\ f[x] = p[y] /\ Depth(f, x) = Depth(p, y)
  BY DEF Twins
<1>3. ASSUME NEW y \in j..q
      PROVE  \E x \in i..k : y - j = x - i /\ f[x] = p[y] /\ Depth(f, x) = Depth(p, y)
  BY DEF Twins
<1>4. f[i] = p[j] /\ Depth(f, i) = Depth(p, j)
  <2>1. i \in i..k
    BY <1>1
  <2>2. PICK y \in j..q : y - j = i - i /\ f[i] = p[y] /\ Depth(f, i) = Depth(p, y)
    BY <1>2, <2>1
  <2>3. y = j
    BY <2>2, <1>1
  <2> QED
    BY <2>2, <2>3
<1>5. k - i = q - j
  <2>1. PICK y \in j..q : y - j = k - i
    BY <1>1, <1>2
  <2>2. PICK x \in i..k : q - j = x - i
    BY <1>1, <1>3
  <2> QED
    BY <2>1, <2>2, <1>1
<1>6. Inside(f, i, k) <=> Inside(p, j, q)
  <2>1. k \in (i + 1)..Len(f) /\ q \in (j + 1)..Len(p)
    BY <1>1
  <2>2. (\A x \in i..k : Depth(f, x) >= Depth(f, i)) <=> (\A y \in j..q : Depth(p, y) >= Depth(p, j))
    BY <1>2, <1>3, <1>4
  <2> QED
    BY <2>1, <2>2 DEF Inside
<1>7. ASSUME NEW e \in (i + 1)..(k - 1), f[e].kind = "ELSE", Depth(f, e) = Depth(f, i)
      PROVE  InElse(p, j, q)
  <2>1. e \in i..k
    BY <1>1
  <2>2. PICK y \in j..q : y - j = e - i /\ f[e] = p[y] /\ Depth(f, e) = Depth(p, y)
    BY <1>2, <2>1
  <2>3. y \in (j + 1)..(q - 1)
    BY <2>2, <1>1, <1>5
  <2> QED
    BY <2>2, <2>3, <1>4, <1>7 DEF InElse
<1>8. ASSUME NEW e \in (j + 1)..(q - 1), p[e].kind = "ELSE", Depth(p, e) = Depth(p, j)
      PROVE  InElse(f, i, k)
  <2>1. e \in j..q
    BY <1>1
  <2>2. PICK x \in i..k : e - j = x - i /\ f[x] = p[e] /\ Depth(f, x) = Depth(p, e)
    BY <1>3, <2>1
  <2>3. x \in (i + 1)..(k - 1)
    BY <2>2, <1>1, <1>5
  <2> QED
    BY <2>2, <2>3, <1>4, <1>8 DEF InElse
<1>9. InElse(f, i, k) => InElse(p, j, q)
  BY <1>7 DEF InElse
<1>10. InElse(p, j, q) => InElse(f, i, k)
  BY <1>8 DEF InElse
<1> QED
  BY <1>4, <1>6, <1>9, <1>10

\* The ELSE of a first-level IF.
ElseAt(p, i, e) == Inside(p, i, e) /\ p[e].kind = "ELSE" /\ Depth(p, e) = 1

LEMMA ElseIs ==
  ASSUME NEW p, Balanced(p), NEW i \in TopIfs(p), NEW k, Inside(p, i, k)
  PROVE  /\ InElse(p, i, k) => \E e : ElseAt(p, i, e) /\ e < k
         /\ \A e : ElseAt(p, i, e) /\ e < k => InElse(p, i, k)
<1>1. i \in 1..Len(p) /\ Depth(p, i) = 1 /\ k \in 1..Len(p) /\ i < k /\ Len(p) \in Nat
  BY TopIs, InsideDepth, Steps
<1>2. ASSUME NEW e \in (i + 1)..(k - 1), p[e].kind = "ELSE", Depth(p, e) = Depth(p, i)
      PROVE  ElseAt(p, i, e) /\ e < k
  <2>1. e \in (i + 1)..Len(p) /\ e < k /\ \A x \in i..e : x \in i..k
    BY <1>1
  <2>2. Inside(p, i, e)
    BY <2>1 DEF Inside
  <2> QED
    BY <2>1, <2>2, <1>1, <1>2 DEF ElseAt
<1>3. InElse(p, i, k) => \E e : ElseAt(p, i, e) /\ e < k
  BY <1>2 DEF InElse
<1>4. ASSUME NEW e, ElseAt(p, i, e), e < k
      PROVE  InElse(p, i, k)
  <2>1. e \in 1..Len(p) /\ i < e
    BY <1>4, InsideDepth DEF ElseAt
  <2>2. e \in (i + 1)..(k - 1)
    BY <2>1, <1>1, <1>4
  <2> QED
    BY <2>2, <1>1, <1>4 DEF ElseAt, InElse
<1> QED
  BY <1>3, <1>4

\* An IF whose line comes twice has no ELSE.
LEMMA NoElse ==
  ASSUME NEW p, Balanced(p), Mergeable(p), NEW i \in TopIfs(p), NEW j \in TopIfs(p), i # j,
         p[i] = p[j], NEW e
  PROVE  ~ElseAt(p, i, e)
<1> SUFFICES ASSUME ElseAt(p, i, e)
             PROVE  FALSE
  OBVIOUS
<1>1. ~InElse(p, i, EndOf(p, i))
  BY DEF Mergeable
<1>2. e \in 1..Len(p) /\ i < e /\ i \in 1..Len(p) /\ p[i].kind = "IF" /\ Depth(p, i) = 1
  BY TopIs, InsideDepth DEF ElseAt
<1>3. e < EndOf(p, i)
  BY <1>2, SurroundsIs DEF ElseAt
<1>4. EndOf(p, i) \in (i + 1)..Len(p) /\ Len(p) \in Nat
  BY <1>2, EndIs, Steps DEF Ends
<1>5. e \in (i + 1)..(EndOf(p, i) - 1)
  BY <1>2, <1>3, <1>4
<1> QED
  BY <1>1, <1>2, <1>5 DEF ElseAt, InElse

\* The first-level IFs around two lines that correspond.
LEMMA TopSame ==
  ASSUME NEW p, NEW f, NEW s, NEW m, Copies(p, f, s, m), Gathers(p, f, s, m), Ordered(p, s, m),
         Mergeable(p), NEW k \in 1..m,
         NEW i \in TopIfs(f), Inside(f, i, k), NEW j \in TopIfs(p), Inside(p, j, s[k])
  PROVE  f[i] = p[j] /\ (InElse(f, i, k) <=> InElse(p, j, s[k]))
<1>1. /\ Balanced(p) /\ Balanced(f) /\ m \in Nat /\ Len(f) = m
      /\ \A x \in 1..m : s[x] \in 1..Len(p) /\ f[x] = p[s[x]] /\ Depth(f, x) = Depth(p, s[x])
  BY DEF Copies
<1>2. Around(p, s[k]) = {f[i]} /\ Around(p, s[k]) = {p[j]} /\ f[i] = p[j]
  <2>1. Around(p, s[k]) = {f[i]}
    BY DEF Gathers
  <2>2. Around(p, s[k]) = {p[j]}
    BY <1>1, AroundIs
  <2> QED
    BY <2>1, <2>2
<1>3. ASSUME NEW e, ElseAt(f, i, e), e < k
      PROVE  ElseAt(p, j, s[e]) /\ s[e] < s[k]
  <2>1. e \in 1..m /\ Inside(f, i, e)
    BY <1>1, <1>3, InsideDepth DEF ElseAt
  <2>2. Around(p, s[e]) = {f[i]}
    BY <2>1 DEF Gathers
  <2>3. s[e] < s[k]
    BY <1>2, <1>3, <2>1, <2>2 DEF Ordered
  <2>4. PICK x \in TopIfs(p) : Inside(p, x, s[e]) /\ p[x] = f[i]
    <3>1. s[e] \in 1..Len(p) /\ f[i] \in Around(p, s[e])
      BY <1>1, <2>1, <2>2
    <3>2. \E x \in TopIfs(p) : Inside(p, x, s[e]) /\ p[x] = f[i]
      BY <1>1, <3>1, AroundIs
    <3> QED
      BY <3>2
  <2>5. ElseAt(p, x, s[e])
    BY <1>1, <1>3, <2>1, <2>4 DEF ElseAt
  <2>6. x = j
    BY <1>1, <1>2, <2>4, <2>5, NoElse
  <2> QED
    BY <2>3, <2>5, <2>6
<1>4. ASSUME NEW y, ElseAt(p, j, y), y < s[k]
      PROVE  \E e : ElseAt(f, i, e) /\ e < k
  <2>1. y \in 1..Len(p) /\ Inside(p, j, y) /\ Around(p, y) = {p[j]}
    BY <1>1, <1>4, InsideDepth, AroundIs DEF ElseAt
  <2>2. PICK e \in 1..m : s[e] = y
    BY <2>1 DEF Gathers
  <2>3. f[e].kind = "ELSE" /\ Depth(f, e) = 1
    BY <1>1, <1>4, <2>2 DEF ElseAt
  <2>4. PICK x \in TopIfs(f) : Inside(f, x, e)
    <3>1. e \in 1..Len(f) /\ Depth(f, e) # 0
      BY <1>1, <2>3
    <3>2. e \notin TopIfs(f)
      BY <2>3 DEF TopIfs
    <3> QED
      BY <1>1, <3>1, <3>2, AroundSome
  <2>5. Around(p, s[e]) = {f[x]}
    BY <2>4 DEF Gathers
  <2>6. x = i
    BY <1>2, <2>1, <2>2, <2>5 DEF Gathers
  <2>7. s[e] \in Int /\ s[k] \in Int
    BY <1>1, Steps
  <2>8. e # k /\ ~(s[k] < s[e])
    BY <1>4, <2>2, <2>7
  <2>9. ~(k < e)
    BY <1>2, <2>1, <2>2, <2>8 DEF Ordered
  <2>10. e < k
    BY <1>1, <2>8, <2>9
  <2> QED
    BY <2>3, <2>4, <2>6, <2>10 DEF ElseAt
<1>5. InElse(f, i, k) => InElse(p, j, s[k])
  <2>1. ASSUME InElse(f, i, k)
        PROVE  InElse(p, j, s[k])
    <3>1. PICK e : ElseAt(f, i, e) /\ e < k
      BY <1>1, <2>1, ElseIs
    <3>2. ElseAt(p, j, s[e]) /\ s[e] < s[k]
      BY <1>3, <3>1
    <3> QED
      BY <1>1, <3>2, ElseIs
  <2> QED
    BY <2>1
<1>6. InElse(p, j, s[k]) => InElse(f, i, k)
  <2>1. ASSUME InElse(p, j, s[k])
        PROVE  InElse(f, i, k)
    <3>1. PICK y : ElseAt(p, j, y) /\ y < s[k]
      BY <1>1, <2>1, ElseIs
    <3>2. PICK e : ElseAt(f, i, e) /\ e < k
      BY <1>4, <3>1
    <3> QED
      BY <1>1, <3>2, ElseIs
  <2> QED
    BY <2>1
<1> QED
  BY <1>2, <1>5, <1>6

\* The IF of line i around line k, and the one of line j around line q, decide
\* the same.
Alike(f, i, k, p, j, q) ==
  /\ Surrounds(f, i, k) /\ Surrounds(p, j, q)
  /\ f[i] = p[j] /\ (InElse(f, i, k) <=> InElse(p, j, q))

LEMMA DeepAlike ==
  ASSUME NEW p, NEW f, NEW s, NEW m, Copies(p, f, s, m), NEW k \in 1..m, NEW d \in Nat, d # 0,
         \A y \in 1..d : \/ k - y \in 1..m /\ Depth(f, k - y) >= 2
                         \/ Depth(p, s[k] - y) >= 2,
         \/ Inside(f, k - d, k) /\ f[k - d].kind = "IF"
         \/ Inside(p, s[k] - d, s[k]) /\ p[s[k] - d].kind = "IF"
  PROVE  /\ k - d \in 1..Len(f) /\ s[k] - d \in 1..Len(p)
         /\ Alike(f, k - d, k, p, s[k] - d, s[k])
<1>1. Balanced(p) /\ Balanced(f)
  BY DEF Copies
<1>2. \A y \in 0..d : k - y \in 1..m /\ s[k - y] = s[k] - y
  BY Backwards
<1>3. Twins(p, f, k - d, k, s[k] - d, s[k])
  BY <1>2, TwinsAre
<1>4. PICK i, j, q : i = k - d /\ j = s[k] - d /\ q = s[k]
  OBVIOUS
<1>5. Twins(p, f, i, k, j, q)
  BY <1>3, <1>4
<1>6. /\ i \in 1..Len(f) /\ k \in 1..Len(f) /\ j \in 1..Len(p) /\ q \in 1..Len(p)
  BY <1>5 DEF Twins
<1>7. /\ f[i] = p[j] /\ (Inside(f, i, k) <=> Inside(p, j, q))
      /\ InElse(f, i, k) <=> InElse(p, j, q)
  BY <1>1, <1>5, TwinsSame
<1>8. Inside(f, i, k) /\ f[i].kind = "IF" /\ Inside(p, j, q) /\ p[j].kind = "IF"
  BY <1>4, <1>7
<1>9. Surrounds(f, i, k) /\ Surrounds(p, j, q)
  BY <1>1, <1>6, <1>8, SurroundsIs
<1>10. Alike(f, i, k, p, j, q)
  BY <1>7, <1>9 DEF Alike
<1> QED
  BY <1>4, <1>6, <1>10

\* An IF is at a depth of 1 or more, and a deeper one is not of the first level.
LEMMA IfDeep ==
  ASSUME NEW p, Balanced(p), NEW i \in 1..Len(p), p[i].kind = "IF", i \notin TopIfs(p)
  PROVE  Depth(p, i) >= 2
<1>1. /\ Depth(p, i) \in Nat /\ Depth(p, i - 1) \in Nat /\ Len(p) \in Nat /\ DOMAIN p = 1..Len(p)
      /\ Depth(p, i) = Depth(p, i - 1) + Turn(p[i])
  BY Steps
<1>2. Turn(p[i]) = 1
  BY DEF Turn
<1>3. Depth(p, i) # 1
  BY <1>1 DEF TopIfs
<1> QED
  BY <1>1, <1>2, <1>3

\* Every IF around a line of the one program has its like in the other.
LEMMA AllAlike ==
  ASSUME NEW p, NEW f, NEW s, NEW m, Copies(p, f, s, m), Gathers(p, f, s, m), Ordered(p, s, m),
         Mergeable(p), NEW k \in 1..m, f[k].kind = "statement"
  PROVE  /\ \A i \in 1..Len(f) : Surrounds(f, i, k)
              => \E j \in 1..Len(p) : Alike(f, i, k, p, j, s[k])
         /\ \A j \in 1..Len(p) : Surrounds(p, j, s[k])
              => \E i \in 1..Len(f) : Alike(f, i, k, p, j, s[k])
<1>1. /\ Balanced(p) /\ Balanced(f) /\ m \in Nat /\ Len(f) = m /\ Len(p) \in Nat
      /\ \A x \in 1..m : s[x] \in 1..Len(p) /\ f[x] = p[s[x]] /\ Depth(f, x) = Depth(p, s[x])
  BY Steps DEF Copies
<1>2. PICK q \in Int : q = s[k] /\ q \in 1..Len(p)
  BY <1>1
<1>3. k \notin TopIfs(f) /\ q \notin TopIfs(p) /\ k \in 1..Len(f) /\ Depth(f, k) = Depth(p, q)
  BY <1>1, <1>2 DEF TopIfs
<1>4. ASSUME NEW i \in TopIfs(f), Inside(f, i, k), NEW j \in TopIfs(p), Inside(p, j, q)
      PROVE  Alike(f, i, k, p, j, q)
  <2>1. f[i] = p[j] /\ (InElse(f, i, k) <=> InElse(p, j, q))
    BY <1>2, <1>4, TopSame
  <2>2. Surrounds(f, i, k) /\ Surrounds(p, j, q)
    BY <1>1, <1>2, <1>3, <1>4, TopIs
  <2> QED
    BY <2>1, <2>2 DEF Alike
<1>5. ASSUME NEW i \in 1..Len(f), Surrounds(f, i, k)
      PROVE  \E j \in 1..Len(p) : Alike(f, i, k, p, j, q)
  <2>1. f[i].kind = "IF" /\ Inside(f, i, k)
    BY <1>1, <1>3, <1>5, SurroundsIs DEF Surrounds
  <2>2. CASE i \in TopIfs(f)
    <3>1. Depth(p, q) # 0
      BY <1>1, <1>3, <2>1, <2>2, InsideDepth
    <3>2. PICK j \in TopIfs(p) : Inside(p, j, q)
      BY <1>1, <1>2, <1>3, <3>1, AroundSome
    <3>3. j \in 1..Len(p)
      BY <1>1, TopIs
    <3> QED
      BY <1>4, <2>1, <2>2, <3>2, <3>3
  <2>3. CASE i \notin TopIfs(f)
    <3>1. Depth(f, i) >= 2
      BY <1>1, <1>5, <2>1, <2>3, IfDeep
    <3>2. i < k /\ \A x \in i..k : Depth(f, x) >= Depth(f, i)
      BY <1>1, <2>1 DEF Inside
    <3>3. PICK d \in Nat : d = k - i /\ d # 0
      BY <1>1, <3>2
    <3>4. k - d = i
      BY <1>1, <3>3
    <3>5. ASSUME NEW y \in 1..d
          PROVE  k - y \in 1..m /\ Depth(f, k - y) >= 2
      <4>1. k - y \in i..k /\ k - y \in 1..m
        BY <1>1, <3>3
      <4>2. Depth(f, k - y) >= Depth(f, i) /\ Depth(f, k - y) \in Nat /\ Depth(f, i) \in Nat
        BY <1>1, <3>2, <4>1, Steps
      <4> QED
        BY <3>1, <4>1, <4>2
    <3>6. s[k] - d \in 1..Len(p) /\ Alike(f, k - d, k, p, s[k] - d, s[k])
      BY <2>1, <3>3, <3>4, <3>5, DeepAlike
    <3> QED
      BY <1>2, <3>4, <3>6
  <2> QED
    BY <2>2, <2>3
<1>6. ASSUME NEW j \in 1..Len(p), Surrounds(p, j, q)
      PROVE  \E i \in 1..Len(f) : Alike(f, i, k, p, j, q)
  <2>1. p[j].kind = "IF" /\ Inside(p, j, q)
    BY <1>1, <1>2, <1>6, SurroundsIs DEF Surrounds
  <2>2. CASE j \in TopIfs(p)
    <3>1. Depth(f, k) # 0
      BY <1>1, <1>3, <2>1, <2>2, InsideDepth
    <3>2. PICK i \in TopIfs(f) : Inside(f, i, k)
      BY <1>1, <1>3, <3>1, AroundSome
    <3>3. i \in 1..Len(f)
      BY <1>1, TopIs
    <3> QED
      BY <1>4, <2>1, <2>2, <3>2, <3>3
  <2>3. CASE j \notin TopIfs(p)
    <3>1. Depth(p, j) >= 2
      BY <1>1, <1>6, <2>1, <2>3, IfDeep
    <3>2. j < q /\ \A x \in j..q : Depth(p, x) >= Depth(p, j)
      BY <1>1, <1>2, <2>1 DEF Inside
    <3>3. PICK d \in Nat : d = q - j /\ d # 0
      BY <1>1, <1>2, <3>2
    <3>4. q - d = j
      BY <1>1, <3>3
    <3>5. ASSUME NEW y \in 1..d
          PROVE  Depth(p, q - y) >= 2
      <4>1. q - y \in j..q /\ q - y \in 0..Len(p)
        BY <1>1, <1>2, <3>3
      <4>2. Depth(p, q - y) >= Depth(p, j) /\ Depth(p, q - y) \in Nat /\ Depth(p, j) \in Nat
        BY <1>1, <3>2, <4>1, Steps
      <4> QED
        BY <3>1, <4>1, <4>2
    <3>6. k - d \in 1..Len(f) /\ Alike(f, k - d, k, p, s[k] - d, s[k])
      BY <1>2, <2>1, <3>3, <3>4, <3>5, DeepAlike
    <3> QED
      BY <1>2, <3>4, <3>6
  <2> QED
    BY <2>2, <2>3
<1> QED
  BY <1>2, <1>5, <1>6

-----------------------------------------------------------------------------
(* The effect of the optimized program. *)

\* Statements are numbered by their lines.
Numbered(p) == \A k \in 1..Len(p) : p[k].kind = "statement" => p[k] = Statement(k)

\* No line of a first-level IF comes again.
Distinct(f) == \A i \in TopIfs(f), j \in 1..Len(f) : f[j] = f[i] => j = i

InOrder(p, f) ==
  \A k, l \in Statements(f) :
    k < l /\ Together(p, f[k].number, f[l].number) => f[k].number < f[l].number

\* What EffectKept says of a program and its optimized form, and that nothing is
\* left to concatenate.
Optimized(p, f) ==
  /\ Balanced(f)
  /\ Cardinality(Statements(f)) = Cardinality(Statements(p))
  /\ \A holds : Executed(f, holds) = Executed(p, holds)
  /\ InOrder(p, f)
  /\ Distinct(f)

LEMMA StatementsMoved ==
  ASSUME NEW p, NEW f, NEW s, NEW m, Copies(p, f, s, m), Gathers(p, f, s, m), Ordered(p, s, m)
  PROVE  /\ \A k \in Statements(f) : k \in 1..m /\ s[k] \in Statements(p)
         /\ \A q \in Statements(p) : \E k \in Statements(f) : s[k] = q
         /\ \A k, l \in Statements(f) : s[k] = s[l] => k = l
<1>1. /\ Balanced(p) /\ Balanced(f) /\ m \in Nat /\ Len(f) = m /\ Len(p) \in Nat
      /\ DOMAIN f = 1..m /\ DOMAIN p = 1..Len(p)
      /\ \A x \in 1..m : s[x] \in 1..Len(p) /\ f[x] = p[s[x]]
  BY Steps DEF Copies
<1>2. \A k \in Statements(f) : k \in 1..m /\ s[k] \in Statements(p)
  BY <1>1 DEF Statements
<1>3. ASSUME NEW q \in Statements(p)
      PROVE  \E k \in Statements(f) : s[k] = q
  <2>1. q \in 1..Len(p) /\ p[q].kind = "statement"
    BY <1>1 DEF Statements
  <2>2. PICK k \in 1..m : s[k] = q
    BY <2>1 DEF Gathers
  <2>3. k \in Statements(f)
    BY <1>1, <2>1, <2>2 DEF Statements
  <2> QED
    BY <2>2, <2>3
<1>4. ASSUME NEW k \in 1..m, NEW l \in 1..m, s[k] = s[l]
      PROVE  k = l
  <2>1. s[k] \in Int /\ ~(s[k] < s[l]) /\ ~(s[l] < s[k])
    BY <1>1, <1>4
  <2>2. ~(k < l) /\ ~(l < k)
    BY <1>4, <2>1 DEF Ordered
  <2> QED
    BY <2>2
<1> QED
  BY <1>2, <1>3, <1>4

LEMMA SameStatements ==
  ASSUME NEW p, NEW f, NEW s, NEW m, Copies(p, f, s, m), Gathers(p, f, s, m), Ordered(p, s, m)
  PROVE  Cardinality(Statements(f)) = Cardinality(Statements(p))
<1> DEFINE b == [k \in Statements(f) |-> s[k]]
<1>1. /\ \A k \in Statements(f) : k \in 1..m /\ s[k] \in Statements(p)
      /\ \A q \in Statements(p) : \E k \in Statements(f) : s[k] = q
      /\ \A k, l \in Statements(f) : s[k] = s[l] => k = l
  BY StatementsMoved
<1>2. b \in Bijection(Statements(f), Statements(p))
  <2>1. b \in [Statements(f) -> Statements(p)] /\ \A k \in Statements(f) : b[k] = s[k]
    BY <1>1
  <2> HIDE DEF b
  <2>2. b \in Injection(Statements(f), Statements(p))
    BY <1>1, <2>1 DEF Injection, IsInjective
  <2>3. b \in Surjection(Statements(f), Statements(p))
    BY <1>1, <2>1 DEF Surjection
  <2> QED
    BY <2>2, <2>3 DEF Bijection
<1>3. IsFiniteSet(Statements(f))
  <2>1. m \in Nat
    BY DEF Copies
  <2>2. IsFiniteSet(1..m)
    BY <2>1, FS_Interval
  <2>3. Statements(f) \in SUBSET (1..m)
    BY <1>1
  <2> QED
    BY <2>2, <2>3, FS_Subset
<1>4. ExistsBijection(Statements(f), Statements(p))
  BY <1>2 DEF ExistsBijection
<1> QED
  BY <1>3, <1>4, FS_Bijection

LEMMA SameExecuted ==
  ASSUME NEW p, NEW f, NEW s, NEW m, Copies(p, f, s, m), Gathers(p, f, s, m), Ordered(p, s, m),
         Mergeable(p), NEW holds
  PROVE  Executed(f, holds) = Executed(p, holds)
<1> DEFINE Runs(g, l) == \A i \in DOMAIN g :
             Surrounds(g, i, l) => (g[i].cond \in holds <=> ~InElse(g, i, l))
<1>1. /\ \A k \in Statements(f) : k \in 1..m /\ s[k] \in Statements(p)
      /\ \A q \in Statements(p) : \E k \in Statements(f) : s[k] = q
  BY StatementsMoved
<1>2. \A k \in 1..m : f[k] = p[s[k]]
  BY DEF Copies
<1>3. DOMAIN f = 1..Len(f) /\ DOMAIN p = 1..Len(p)
  BY Steps DEF Copies
<1>4. ASSUME NEW k \in Statements(f)
      PROVE  Runs(f, k) <=> Runs(p, s[k])
  <2>1. k \in 1..m /\ f[k].kind = "statement"
    BY <1>1 DEF Statements
  <2>2. /\ \A i \in 1..Len(f) : Surrounds(f, i, k)
             => \E j \in 1..Len(p) : Alike(f, i, k, p, j, s[k])
        /\ \A j \in 1..Len(p) : Surrounds(p, j, s[k])
             => \E i \in 1..Len(f) : Alike(f, i, k, p, j, s[k])
    BY <2>1, AllAlike
  <2> QED
    BY <1>3, <2>2 DEF Alike
<1>5. Executed(f, holds) = {f[k].number : k \in {l \in Statements(f) : Runs(f, l)}}
  BY DEF Executed
<1>6. Executed(p, holds) = {p[k].number : k \in {l \in Statements(p) : Runs(p, l)}}
  BY DEF Executed
<1> HIDE DEF Runs
<1> QED
  BY <1>1, <1>2, <1>4, <1>5, <1>6

LEMMA SameOrder ==
  ASSUME NEW p, NEW f, NEW s, NEW m, Copies(p, f, s, m), Gathers(p, f, s, m), Ordered(p, s, m),
         Numbered(p)
  PROVE  InOrder(p, f)
<1>1. ASSUME NEW k \in Statements(f)
      PROVE  k \in 1..m /\ f[k].number = s[k]
  <2>1. k \in 1..m /\ s[k] \in Statements(p)
    BY StatementsMoved
  <2>2. s[k] \in 1..Len(p) /\ p[s[k]].kind = "statement" /\ f[k] = p[s[k]]
    BY <2>1 DEF Statements, Copies
  <2>3. p[s[k]] = Statement(s[k])
    BY <2>2 DEF Numbered
  <2> QED
    BY <2>1, <2>2, <2>3 DEF Statement
<1>2. ASSUME NEW k \in Statements(f), NEW l \in Statements(f), k < l,
             Together(p, f[k].number, f[l].number)
      PROVE  f[k].number < f[l].number
  <2>1. Around(p, s[k]) = Around(p, s[l])
    BY <1>1, <1>2 DEF Together, Around
  <2> QED
    BY <1>1, <1>2, <2>1 DEF Ordered
<1> QED
  BY <1>2 DEF InOrder

LEMMA OnceOnly ==
  ASSUME NEW p, NEW f, NEW s, NEW m, Copies(p, f, s, m), Gathers(p, f, s, m), Mergeable(p)
  PROVE  Distinct(f)
<1>1. /\ Balanced(p) /\ Balanced(f) /\ m \in Nat /\ Len(f) = m
      /\ \A x \in 1..m : s[x] \in 1..Len(p) /\ f[x] = p[s[x]] /\ Depth(f, x) = Depth(p, s[x])
  BY DEF Copies
<1>2. ASSUME NEW i \in TopIfs(f), NEW j \in 1..Len(f), f[j] = f[i]
      PROVE  j = i
  <2>1. i \in 1..m /\ f[i].kind = "IF"
    BY <1>1, TopIs
  <2>2. s[i] \in TopIfs(p) /\ s[j] \in DOMAIN p /\ p[s[j]] = p[s[i]]
    BY <1>1, <1>2, <2>1, Steps DEF Gathers
  <2>3. Depth(f, j) = 1
    BY <1>1, <1>2, <2>2 DEF Mergeable
  <2>4. j \in TopIfs(f)
    BY <1>1, <1>2, <2>1, <2>3, Steps DEF TopIfs
  <2> QED
    BY <1>2, <2>4 DEF Gathers
<1> QED
  BY <1>2 DEF Distinct

\* The program of the first run.
LEMMA WrittenOptimized ==
  ASSUME NEW p, Balanced(p), Numbered(p), Mergeable(p), NEW f,
         Written(p, Len(p), TopLines(p, Len(p)), f)
  PROVE  Optimized(p, f)
<1>1. PICK s, m : From(f, p, s, m) /\ Moves(p, 0, Len(p), TopLines(p, Len(p)), s, m)
  BY DEF Written
<1>2. Copies(p, f, s, m)
  BY <1>1, WrittenCopies
<1>3. Gathers(p, f, s, m) /\ Ordered(p, s, m)
  BY <1>1, <1>2, WrittenGathers DEF Moves
<1>4. Balanced(f)
  BY <1>2 DEF Copies
<1>5. Cardinality(Statements(f)) = Cardinality(Statements(p))
  BY <1>2, <1>3, SameStatements
<1>6. \A holds : Executed(f, holds) = Executed(p, holds)
  BY <1>2, <1>3, SameExecuted
<1>7. InOrder(p, f) /\ Distinct(f)
  BY <1>2, <1>3, SameOrder, OnceOnly
<1> QED
  BY <1>4, <1>5, <1>6, <1>7 DEF Optimized

-----------------------------------------------------------------------------
(* The second run. *)

\* After the first run no IF takes anything over.
LEMMA NothingLater ==
  ASSUME Balanced(file), Distinct(file), NEW h \in TopIfs(file),
         NEW from \in 1..(Len(file) + 1), h < from
  PROVE  Later(file[h], from) = << >>
<1>1. h \in 1..Len(file) /\ Len(file) \in Nat
  BY Steps, TopIs
<1>2. Topmost(file, file[h])
  BY <1>1 DEF Topmost, Distinct
<1>3. Lists(Later(file[h], from), file, Moved(file, file[h], from))
  BY <1>2, LaterLists
<1>4. Moved(file, file[h], from) = {}
  <2>1. ASSUME NEW i \in TopIfs(file), from <= i, file[i] = file[h]
        PROVE  FALSE
    <3>1. i \in 1..Len(file)
      BY TopIs
    <3>2. i = h
      BY <2>1, <3>1 DEF Distinct
    <3> QED
      BY <2>1, <3>2, <1>1
  <2> QED
    BY <2>1 DEF Moved
<1>5. PICK w, t : From(Later(file[h], from), file, t, w) /\ Enumerates(t, w, {})
  BY <1>3, <1>4 DEF Lists
<1>6. PICK g : g = Later(file[h], from)
  OBVIOUS
<1>7. w \in Nat /\ g \in Seq(Lines) /\ Len(g) = w
  BY <1>5, <1>6 DEF From
<1>8. \A k : k \notin 1..w
  BY <1>5 DEF Enumerates
<1>9. w = 0
  BY <1>7, <1>8
<1>10. g = << >>
  BY <1>7, <1>9, EmptySeq
<1> QED
  BY <1>6, <1>10

LEMMA CopyAgain ==
  ASSUME NEW f, Balanced(f), NEW h \in 1..Len(f), Depth(f, h - 1) = 0, f[h].kind # "IF"
  PROVE  /\ Depth(f, h) = 0
         /\ TopLines(f, h) = TopLines(f, h - 1)
         /\ SubSeq(f, 1, h - 1) \o <<f[h]>> = SubSeq(f, 1, h)
<1>1. /\ Depth(f, h) \in Nat /\ Depth(f, h) = Depth(f, h - 1) + Turn(f[h])
      /\ Len(f) \in Nat /\ DOMAIN f = 1..Len(f) /\ f \in Seq(Lines)
  BY Steps DEF Balanced
<1>2. Turn(f[h]) \in {0, -1}
  BY DEF Turn
<1>3. Depth(f, h) = 0
  BY <1>1, <1>2
<1>4. TopLines(f, h) = TopLines(f, h - 1)
  <2>1. ASSUME NEW i \in TopIfs(f)
        PROVE  i <= h <=> i <= h - 1
    <3>1. i \in Int /\ i # h
      BY <1>1 DEF TopIfs
    <3> QED
      BY <3>1
  <2> QED
    BY <2>1 DEF TopLines
<1>5. SubSeq(f, 1, h) = SubSeq(f, 1, h - 1) \o <<f[h]>>
  <2>1. 1 \in 1..Len(f) /\ h \in 1..Len(f)
    BY <1>1
  <2> QED
    BY <1>1, <2>1, SubSeqRecursiveSecond
<1> QED
  BY <1>3, <1>4, <1>5

LEMMA FirstAgain ==
  ASSUME NEW f, Balanced(f), NEW h \in TopIfs(f), NEW e, e = EndOf(f, h)
  PROVE  /\ e \in (h + 1)..Len(f) /\ Depth(f, e) = 0
         /\ TopLines(f, e) = TopLines(f, h - 1) \cup {f[h]}
         /\ SubSeq(f, 1, h - 1) \o <<f[h]>> \o BodyOf(f, h) \o << >> \o <<EndIf>> = SubSeq(f, 1, e)
<1>1. Framed(f, h, e)
  BY FramedIs
<1>2. TopLines(f, e) = TopLines(f, h - 1) \cup {f[h]}
  BY <1>1, TopLinesNext
<1>3. h \in 1..Len(f) /\ e \in (h + 1)..Len(f) /\ Depth(f, e) = 0 /\ Len(f) \in Nat
  BY <1>1, Steps DEF Framed
<1>4. f \in Seq(Lines) /\ f[e] = EndIf /\ e \in 1..Len(f) /\ 1 \in 1..Len(f)
  BY <1>3, EndIs, TopIs DEF Balanced
<1>5. SubSeq(f, 1, h - 1) \o <<f[h]>> = SubSeq(f, 1, h)
  BY <1>3, <1>4, SubSeqRecursiveSecond
<1>6. SubSeq(f, 1, h) \o BodyOf(f, h) = SubSeq(f, 1, e - 1)
  <2>1. 1 \in 1..(Len(f) + 1) /\ h \in (1 - 1)..Len(f) /\ e - 1 \in h..Len(f)
    BY <1>3
  <2>2. SubSeq(f, 1, h) \o SubSeq(f, h + 1, e - 1) = SubSeq(f, 1, e - 1)
    BY <1>4, <2>1, ConcatAdjacentSubSeq
  <2> QED
    BY <2>2 DEF BodyOf
<1>7. SubSeq(f, 1, e - 1) \o << >> = SubSeq(f, 1, e - 1)
  <2>1. \A i \in 1..(e - 1) : f[i] \in Lines
    BY <1>3, Steps
  <2>2. SubSeq(f, 1, e - 1) \in Seq(Lines)
    BY <1>3, <2>1, SubSeqProperties
  <2> QED
    BY <2>2, ConcatEmptySeq
<1>8. SubSeq(f, 1, e - 1) \o <<f[e]>> = SubSeq(f, 1, e)
  BY <1>4, SubSeqRecursiveSecond
<1> QED
  BY <1>2, <1>3, <1>4, <1>5, <1>6, <1>7, <1>8

-----------------------------------------------------------------------------
(* The program is written. *)

Sound(p) ==
  /\ p \in Seq(Lines) /\ Numbered(p)
  /\ \A k \in 0..Len(p) : Depth(p, k) >= 0

\* A line more leaves the depths of the others.
LEMMA DepthAppend ==
  ASSUME NEW p \in Seq(Lines), NEW line \in Lines
  PROVE  /\ \A k \in 0..Len(p) : Depth(Append(p, line), k) = Depth(p, k)
         /\ Depth(Append(p, line), Len(p) + 1) = Depth(p, Len(p)) + Turn(line)
<1>1. PICK g : g = Append(p, line)
  OBVIOUS
<1>2. Len(p) \in Nat /\ g[Len(p) + 1] = line /\ \A x \in 1..Len(p) : g[x] = p[x]
  BY <1>1, AppendProperties, LenProperties
<1>3. ASSUME NEW k \in 0..Len(p)
      PROVE  Depth(g, k) = Depth(p, k)
  <2>1. \A x \in 1..k : g[x] = p[x]
    BY <1>2
  <2>2. \A kind : {x \in 1..k : g[x].kind = kind} = {x \in 1..k : p[x].kind = kind}
    BY <2>1
  <2>3. \A kind : Count(g, 1, k, kind) = Count(p, 1, k, kind)
    BY <2>2 DEF Count
  <2> QED
    BY <2>3 DEF Depth
<1>4. Depth(g, Len(p) + 1) = Depth(g, Len(p)) + Turn(g[Len(p) + 1])
  BY <1>2, DepthNext
<1>5. Depth(g, Len(p)) = Depth(p, Len(p))
  BY <1>2, <1>3
<1> QED
  BY <1>1, <1>2, <1>3, <1>4, <1>5

LEMMA WriteSound ==
  ASSUME NEW p, Sound(p), NEW line \in IfLines \cup {EndIf, Else, Statement(Len(p) + 1)},
         line = EndIf => Depth(p, Len(p)) > 0
  PROVE  Sound(Append(p, line))
<1>1. p \in Seq(Lines) /\ Len(p) \in Nat
  BY LenProperties DEF Sound
<1>2. line \in Lines
  BY <1>1 DEF Lines
<1>3. PICK g : g = Append(p, line)
  OBVIOUS
<1>4. /\ g \in Seq(Lines) /\ Len(g) = Len(p) + 1
      /\ g[Len(p) + 1] = line /\ \A x \in 1..Len(p) : g[x] = p[x]
  BY <1>1, <1>2, <1>3, AppendProperties
<1>5. /\ \A k \in 0..Len(p) : Depth(g, k) = Depth(p, k)
      /\ Depth(g, Len(p) + 1) = Depth(p, Len(p)) + Turn(line)
  BY <1>1, <1>2, <1>3, DepthAppend
<1>6. Depth(g, Len(p) + 1) >= 0
  <2>1. Depth(p, Len(p)) >= 0 /\ Depth(p, Len(p)) \in Int
    BY <1>1, DepthNext DEF Sound
  <2>2. \/ Turn(line) \in {0, 1}
        \/ Turn(line) = -1 /\ line.kind = "END_IF"
    BY DEF Turn
  <2>3. line.kind = "END_IF" => line = EndIf
    BY <1>2, LineKinds
  <2> QED
    BY <1>5, <2>1, <2>2, <2>3
<1>7. \A k \in 0..Len(g) : Depth(g, k) >= 0
  <2>1. \A k \in 0..Len(g) : k \in 0..Len(p) \/ k = Len(p) + 1
    BY <1>1, <1>4
  <2> QED
    BY <2>1, <1>5, <1>6 DEF Sound
<1>8. Numbered(g)
  <2>1. line.kind = "statement" => line = Statement(Len(p) + 1)
    BY OptimizerAssumption DEF EndIf, Else
  <2>2. \A k \in 1..Len(g) : k \in 1..Len(p) \/ k = Len(p) + 1
    BY <1>1, <1>4
  <2> QED
    BY <1>4, <2>1, <2>2 DEF Sound, Numbered
<1> QED
  BY <1>3, <1>4, <1>7, <1>8 DEF Sound

-----------------------------------------------------------------------------
(* The runs: what is known when the program is written, read, and written    *)
(* back, the first time and the second.                                      *)

AtStart == current_line = 0 /\ list_of_IFs = {} /\ final_program = << >>

Writing == phase = "writing" /\ passes = 0 /\ AtStart /\ Sound(program)

\* How far a run has come.
Reached ==
  /\ Balanced(file) /\ current_line \in 0..Len(file) /\ Depth(file, current_line) = 0
  /\ list_of_IFs = TopLines(file, current_line)

FirstRun ==
  /\ phase = "run" /\ passes = 0
  /\ Mergeable(program) =>
       /\ file = program /\ Numbered(program) /\ Reached
       /\ Written(file, current_line, list_of_IFs, final_program)

FirstOver == phase = "over" /\ passes = 1 /\ AtStart /\ (Mergeable(program) => Optimized(program, file))

SecondRun ==
  /\ phase = "run" /\ passes = 1
  /\ Mergeable(program) =>
       Optimized(program, file) /\ Reached /\ final_program = SubSeq(file, 1, current_line)

SecondOver == phase = "over" /\ passes = 2 /\ (Mergeable(program) => Optimized(program, file))

OptimizerIInv == Writing \/ FirstRun \/ FirstOver \/ SecondRun \/ SecondOver

LEMMA ReachedNone ==
  ASSUME NEW p, Balanced(p)
  PROVE  0 \in 0..Len(p) /\ Depth(p, 0) = 0 /\ TopLines(p, 0) = {}
<1>1. Len(p) \in Nat /\ Depth(p, 0) = 0
  BY Steps
<1>2. \A i \in TopIfs(p) : ~(i <= 0)
  BY <1>1, Steps DEF TopIfs
<1> QED
  BY <1>1, <1>2 DEF TopLines

\* The next line to read.
LEMMA NextRead ==
  ASSUME Reached, Reading
  PROVE  /\ Next1 \in 1..Len(file) /\ Next1 - 1 = current_line /\ Depth(file, Next1 - 1) = 0
         /\ Line.kind = "IF" => Next1 \in TopIfs(file)
<1>1. Len(file) \in Nat /\ DOMAIN file = 1..Len(file)
  BY Steps DEF Reached
<1>2. Next1 \in 1..Len(file) /\ Next1 - 1 = current_line /\ Depth(file, Next1 - 1) = 0
  <2>1. Next1 \in 1..Len(file) /\ Next1 - 1 = current_line
    BY <1>1 DEF Reached, Reading, Next1
  <2> QED
    BY <2>1 DEF Reached
<1>3. ASSUME Line.kind = "IF"
      PROVE  Next1 \in TopIfs(file)
  <2>1. Depth(file, Next1) = Depth(file, Next1 - 1) + Turn(file[Next1])
    BY <1>2, Steps DEF Reached
  <2>2. Turn(file[Next1]) = 1
    BY <1>3 DEF Turn, Line
  <2>3. Depth(file, Next1) = 1
    BY <2>1, <2>2, <1>2
  <2> QED
    BY <1>1, <1>2, <1>3, <2>3 DEF TopIfs, Line
<1> QED
  BY <1>2, <1>3

\* A line that is in the list is an IF.
LEMMA ListedIf ==
  ASSUME Reached, Line \in list_of_IFs
  PROVE  Line.kind = "IF" /\ \E i \in TopIfs(file) : i <= current_line /\ file[i] = Line
<1>1. PICK i \in TopIfs(file) : i <= current_line /\ file[i] = Line
  BY DEF Reached, TopLines
<1>2. file[i].kind = "IF"
  BY DEF TopIfs
<1> QED
  BY <1>1, <1>2

\* Where the end of an IF is.
LEMMA EndWithin ==
  ASSUME NEW p, Balanced(p), NEW h \in TopIfs(p)
  PROVE  /\ EndOf(p, h) \in 0..Len(p) /\ EndOf(p, h) + 1 \in 1..(Len(p) + 1)
         /\ h < EndOf(p, h) + 1
<1>1. Framed(p, h, EndOf(p, h)) /\ Len(p) \in Nat
  BY FramedIs, Steps
<1> QED
  BY <1>1 DEF Framed

LEMMA FirstTopmost ==
  ASSUME Balanced(file), Mergeable(file), NEW h \in TopIfs(file)
  PROVE  Topmost(file, file[h])
<1>1. DOMAIN file = 1..Len(file) /\ file[h].kind = "IF"
  BY Steps, TopIs
<1> QED
  BY <1>1 DEF Topmost, Mergeable, TopIfs

\* One turn of the loop of the first run.
LEMMA FirstRunTurn ==
  ASSUME FirstRun, CopyLine \/ FirstIf \/ SkipDuplicate
  PROVE  FirstRun'
<1>1. program' = program /\ file' = file /\ phase' = phase /\ passes' = passes
  BY DEF CopyLine, FirstIf, SkipDuplicate
<1> SUFFICES ASSUME Mergeable(program)
             PROVE  (Reached /\ Written(file, current_line, list_of_IFs, final_program))'
  <2>1. Mergeable(program)' <=> Mergeable(program)
    BY <1>1
  <2>2. Mergeable(program) => file' = program' /\ Numbered(program)'
    BY <1>1 DEF FirstRun
  <2> QED
    BY <1>1, <2>1, <2>2 DEF FirstRun
<1>2. /\ Reached /\ Balanced(file) /\ Mergeable(file)
      /\ Written(file, current_line, list_of_IFs, final_program)
      /\ list_of_IFs = TopLines(file, current_line)
  BY DEF FirstRun, Reached
<1> DEFINE h == Next1
           e == EndOf(file, Next1)
<1>3. Reading
  BY DEF CopyLine, FirstIf, SkipDuplicate
<1>4. /\ h \in 1..Len(file) /\ h - 1 = current_line /\ Depth(file, h - 1) = 0
      /\ Line.kind = "IF" => h \in TopIfs(file)
  BY <1>2, <1>3, NextRead
<1>5. Written(file, h - 1, TopLines(file, h - 1), final_program)
  BY <1>2, <1>4
<1>6. Line = file[h]
  BY DEF Line
<1>7. ASSUME NEW c \in 0..Len(file), current_line' = c, Depth(file, c) = 0,
             list_of_IFs' = TopLines(file, c), Written(file, c, TopLines(file, c), final_program')
      PROVE  (Reached /\ Written(file, current_line, list_of_IFs, final_program))'
  BY <1>1, <1>2, <1>7 DEF Reached
<1>8. CASE CopyLine
  <2>1. /\ Line.kind # "IF" /\ final_program' = Append(final_program, Line)
        /\ current_line' = h /\ list_of_IFs' = list_of_IFs
    BY <1>8 DEF CopyLine
  <2> HIDE DEF h, e
  <2>2. /\ Depth(file, h) = 0 /\ TopLines(file, h) = TopLines(file, h - 1)
        /\ Written(file, h, TopLines(file, h), final_program \o <<file[h]>>)
    BY <1>2, <1>4, <1>5, <1>6, <2>1, CopyWritten
  <2>3. final_program' = final_program \o <<file[h]>>
    <3>1. final_program \in Seq(Lines) /\ file[h] \in Lines
      BY <1>2, <1>4, Steps DEF Written, From
    <3> QED
      BY <3>1, <2>1, <1>6, AppendIsConcat
  <2>4. h \in 0..Len(file)
    BY <1>4
  <2> QED
    BY <1>2, <1>4, <1>7, <2>1, <2>2, <2>3, <2>4
<1>9. CASE FirstIf
  <2>1. /\ Line.kind = "IF" /\ Line \notin list_of_IFs
        /\ list_of_IFs' = list_of_IFs \cup {Line} /\ current_line' = e
        /\ final_program' = final_program \o <<Line>> \o BodyOf(file, h)
                              \o Later(Line, e + 1) \o <<EndIf>>
    BY <1>9 DEF FirstIf
  <2>2. h \in TopIfs(file) /\ e = EndOf(file, h)
    BY <1>4, <2>1
  <2> HIDE DEF h, e
  <2>3. Topmost(file, file[h]) /\ file[h] \notin TopLines(file, h - 1)
    BY <1>2, <1>4, <1>6, <2>1, <2>2, FirstTopmost
  <2>4. /\ Depth(file, e) = 0
        /\ TopLines(file, e) = TopLines(file, h - 1) \cup {file[h]}
        /\ Written(file, e, TopLines(file, e),
                   final_program \o <<file[h]>> \o BodyOf(file, h) \o Later(file[h], e + 1)
                     \o <<EndIf>>)
    BY <1>2, <1>5, <2>2, <2>3, FirstWritten
  <2>5. e \in 0..Len(file)
    BY <1>2, <2>2, EndWithin
  <2> QED
    BY <1>2, <1>4, <1>6, <1>7, <2>1, <2>4, <2>5
<1>10. CASE SkipDuplicate
  <2>1. /\ Line \in list_of_IFs /\ current_line' = e
        /\ list_of_IFs' = list_of_IFs /\ final_program' = final_program
    BY <1>10 DEF SkipDuplicate
  <2>2. h \in TopIfs(file) /\ e = EndOf(file, h)
    BY <1>2, <1>4, <2>1, ListedIf
  <2> HIDE DEF h, e
  <2>3. file[h] \in TopLines(file, h - 1)
    BY <1>2, <1>4, <1>6, <2>1
  <2>4. /\ Depth(file, e) = 0 /\ TopLines(file, e) = TopLines(file, h - 1)
        /\ Written(file, e, TopLines(file, e), final_program)
    BY <1>2, <1>5, <2>2, <2>3, SkipWritten
  <2>5. e \in 0..Len(file)
    BY <1>2, <2>2, EndWithin
  <2> QED
    BY <1>2, <1>4, <1>7, <2>1, <2>4, <2>5
<1> QED
  BY <1>8, <1>9, <1>10

\* One turn of the loop of the second run: it copies all lines.
LEMMA SecondRunTurn ==
  ASSUME SecondRun, CopyLine \/ FirstIf \/ SkipDuplicate
  PROVE  SecondRun'
<1>1. program' = program /\ file' = file /\ phase' = phase /\ passes' = passes
  BY DEF CopyLine, FirstIf, SkipDuplicate
<1> SUFFICES ASSUME Mergeable(program)
             PROVE  (Reached /\ final_program = SubSeq(file, 1, current_line))'
  <2>1. Mergeable(program)' <=> Mergeable(program)
    BY <1>1
  <2>2. Mergeable(program) => Optimized(program, file)'
    BY <1>1 DEF SecondRun
  <2> QED
    BY <1>1, <2>1, <2>2 DEF SecondRun
<1>2. /\ Reached /\ Balanced(file) /\ Distinct(file)
      /\ list_of_IFs = TopLines(file, current_line)
      /\ final_program = SubSeq(file, 1, current_line)
  BY DEF SecondRun, Reached, Optimized
<1> DEFINE h == Next1
           e == EndOf(file, Next1)
<1>3. Reading
  BY DEF CopyLine, FirstIf, SkipDuplicate
<1>4. /\ h \in 1..Len(file) /\ h - 1 = current_line /\ Depth(file, h - 1) = 0
      /\ Line.kind = "IF" => h \in TopIfs(file)
  BY <1>2, <1>3, NextRead
<1>5. final_program = SubSeq(file, 1, h - 1)
  BY <1>2, <1>4
<1>6. Line = file[h]
  BY DEF Line
<1>7. ASSUME NEW c \in 0..Len(file), current_line' = c, Depth(file, c) = 0,
             list_of_IFs' = TopLines(file, c), final_program' = SubSeq(file, 1, c)
      PROVE  (Reached /\ final_program = SubSeq(file, 1, current_line))'
  BY <1>1, <1>2, <1>7 DEF Reached
<1>8. CASE CopyLine
  <2>1. /\ Line.kind # "IF" /\ final_program' = Append(final_program, Line)
        /\ current_line' = h /\ list_of_IFs' = list_of_IFs
    BY <1>8 DEF CopyLine
  <2> HIDE DEF h, e
  <2>2. /\ Depth(file, h) = 0 /\ TopLines(file, h) = TopLines(file, h - 1)
        /\ SubSeq(file, 1, h - 1) \o <<file[h]>> = SubSeq(file, 1, h)
    BY <1>2, <1>4, <1>6, <2>1, CopyAgain
  <2>3. final_program' = final_program \o <<file[h]>>
    <3>1. final_program \in Seq(Lines) /\ file[h] \in Lines
      <4>1. Len(file) \in Nat /\ \A i \in 1..Len(file) : file[i] \in Lines
        BY <1>2, Steps
      <4>2. \A i \in 1..(h - 1) : file[i] \in Lines
        BY <1>4, <4>1
      <4> QED
        BY <1>4, <1>5, <4>1, <4>2, SubSeqProperties
    <3> QED
      BY <3>1, <2>1, <1>6, AppendIsConcat
  <2>4. h \in 0..Len(file)
    BY <1>4
  <2> QED
    BY <1>2, <1>4, <1>5, <1>7, <2>1, <2>2, <2>3, <2>4
<1>9. CASE FirstIf
  <2>1. /\ Line.kind = "IF" /\ list_of_IFs' = list_of_IFs \cup {Line} /\ current_line' = e
        /\ final_program' = final_program \o <<Line>> \o BodyOf(file, h)
                              \o Later(Line, e + 1) \o <<EndIf>>
    BY <1>9 DEF FirstIf
  <2>2. h \in TopIfs(file) /\ e = EndOf(file, h)
    BY <1>4, <2>1
  <2> HIDE DEF h, e
  <2>3. e \in 0..Len(file) /\ e + 1 \in 1..(Len(file) + 1) /\ h < e + 1
    BY <1>2, <2>2, EndWithin
  <2>4. Later(file[h], e + 1) = << >>
    BY <1>2, <2>2, <2>3, NothingLater
  <2>5. /\ Depth(file, e) = 0
        /\ TopLines(file, e) = TopLines(file, h - 1) \cup {file[h]}
        /\ SubSeq(file, 1, h - 1) \o <<file[h]>> \o BodyOf(file, h) \o << >> \o <<EndIf>>
             = SubSeq(file, 1, e)
    BY <1>2, <2>2, FirstAgain
  <2> QED
    BY <1>2, <1>4, <1>5, <1>6, <1>7, <2>1, <2>3, <2>4, <2>5
<1>10. ASSUME SkipDuplicate
       PROVE  FALSE
  <2>1. Line \in list_of_IFs
    BY <1>10 DEF SkipDuplicate
  <2>2. PICK i \in TopIfs(file) : i <= current_line /\ file[i] = Line
    BY <1>2, <2>1, ListedIf
  <2>3. i = h
    BY <1>4, <1>6, <2>2 DEF Distinct, SecondRun, Optimized
  <2> QED
    BY <1>4, <2>2, <2>3
<1> QED
  BY <1>8, <1>9, <1>10

LEMMA FirstRunEnd ==
  ASSUME FirstRun, WriteFile
  PROVE  FirstOver'
<1>1. /\ program' = program /\ file' = final_program /\ phase' = "over" /\ passes' = 1
      /\ AtStart' /\ current_line = Len(file)
  BY DEF WriteFile, FirstRun, AtStart
<1>2. ASSUME Mergeable(program)
      PROVE  Optimized(program, final_program)
  <2>1. /\ Balanced(program) /\ Numbered(program) /\ file = program
        /\ list_of_IFs = TopLines(program, Len(program))
        /\ Written(program, Len(program), list_of_IFs, final_program)
    BY <1>1, <1>2 DEF FirstRun, Reached
  <2> QED
    BY <1>2, <2>1, WrittenOptimized
<1> QED
  BY <1>1, <1>2 DEF FirstOver

LEMMA SecondRunEnd ==
  ASSUME SecondRun, WriteFile
  PROVE  SecondOver' /\ (Mergeable(program) => file' = file)
<1>1. /\ program' = program /\ file' = final_program /\ phase' = "over" /\ passes' = 2
      /\ current_line = Len(file)
  BY DEF WriteFile, SecondRun
<1>2. ASSUME Mergeable(program)
      PROVE  file' = file /\ Optimized(program, file)
  <2>1. /\ Optimized(program, file) /\ final_program = SubSeq(file, 1, Len(file))
        /\ file \in Seq(Lines)
    BY <1>1, <1>2 DEF SecondRun, Reached, Balanced
  <2>2. SubSeq(file, 1, Len(file)) = file
    BY <2>1, SubSeqFull
  <2> QED
    BY <1>1, <2>1, <2>2
<1> QED
  BY <1>1, <1>2 DEF SecondOver

LEMMA WriteStep ==
  ASSUME Writing, NEW line \in IfLines \cup {EndIf, Else, Statement(Len(program) + 1)}, Write(line)
  PROVE  Writing'
<1>1. /\ program' = Append(program, line)
      /\ line = EndIf => Depth(program, Len(program)) > 0
      /\ phase' = phase /\ passes' = passes /\ current_line' = current_line
      /\ list_of_IFs' = list_of_IFs /\ final_program' = final_program
  BY DEF Write
<1>2. Sound(Append(program, line))
  BY <1>1, WriteSound DEF Writing
<1> QED
  BY <1>1, <1>2 DEF Writing, AtStart

LEMMA BuildFirstStep ==
  ASSUME Writing, BuildFirst
  PROVE  FirstRun'
<1>1. /\ program' = program /\ file' = program /\ phase' = "run" /\ passes' = 0
      /\ current_line' = 0 /\ list_of_IFs' = {} /\ final_program' = << >>
      /\ Balanced(program) /\ Numbered(program)
  BY DEF Writing, AtStart, BuildFirst, Sound, Balanced
<1>2. 0 \in 0..Len(program) /\ Depth(program, 0) = 0 /\ TopLines(program, 0) = {}
  BY <1>1, ReachedNone
<1>3. Written(program, 0, {}, << >>)
  BY WrittenNone
<1>4. Reached'
  BY <1>1, <1>2 DEF Reached
<1> QED
  BY <1>1, <1>3, <1>4 DEF FirstRun

LEMMA BuildAgainStep ==
  ASSUME FirstOver, BuildAgain
  PROVE  SecondRun'
<1>1. /\ program' = program /\ file' = file /\ phase' = "run" /\ passes' = 1
      /\ current_line' = 0 /\ list_of_IFs' = {} /\ final_program' = << >>
  BY DEF FirstOver, AtStart, BuildAgain
<1>2. ASSUME Mergeable(program)
      PROVE  Optimized(program, file)' /\ Reached' /\ final_program' = SubSeq(file, 1, 0)
  <2>1. Optimized(program, file) /\ Balanced(file)
    BY <1>2 DEF FirstOver, Optimized
  <2>2. 0 \in 0..Len(file) /\ Depth(file, 0) = 0 /\ TopLines(file, 0) = {}
    BY <2>1, ReachedNone
  <2>3. SubSeq(file, 1, 0) = << >>
    BY SubSeqEmpty
  <2> QED
    BY <1>1, <2>1, <2>2, <2>3 DEF Reached
<1>3. Mergeable(program)' => (final_program = SubSeq(file, 1, current_line))'
  BY <1>1, <1>2
<1> QED
  BY <1>1, <1>2, <1>3 DEF SecondRun

\* Each step of the optimizer, the editor and the builds keeps the invariant.
LEMMA OptimizerStep ==
  ASSUME OptimizerIInv, [OptimizerNext]_optimizerVars
  PROVE  OptimizerIInv' /\ (passes = 1 /\ passes' = 2 /\ Mergeable(program) => file' = file)
<1>1. CASE UNCHANGED optimizerVars
  <2>1. passes' = passes
    BY <1>1 DEF optimizerVars
  <2>2. OptimizerIInv'
    BY <1>1 DEF optimizerVars, OptimizerIInv, Writing, AtStart, FirstRun, Reached, FirstOver,
                SecondRun, SecondOver
  <2>3. passes = 1 => passes' # 2
    BY <2>1
  <2> QED
    BY <2>2, <2>3
<1>2. ASSUME NEW line \in IfLines \cup {EndIf, Else, Statement(Len(program) + 1)}, Write(line)
      PROVE  OptimizerIInv' /\ passes' = passes
  <2>1. Writing
    BY <1>2 DEF Write, OptimizerIInv, FirstRun, FirstOver, SecondRun, SecondOver
  <2> QED
    BY <1>2, <2>1, WriteStep DEF OptimizerIInv, Write
<1>3. CASE BuildFirst
  <2>1. Writing
    BY <1>3 DEF BuildFirst, OptimizerIInv, FirstRun, FirstOver, SecondRun, SecondOver
  <2> QED
    BY <1>3, <2>1, BuildFirstStep DEF OptimizerIInv, BuildFirst, Writing
<1>4. CASE BuildAgain
  <2>1. FirstOver
    BY <1>4 DEF BuildAgain, OptimizerIInv, Writing, FirstRun, SecondRun, SecondOver
  <2>2. passes' # 2
    BY <1>4 DEF BuildAgain
  <2> QED
    BY <1>4, <2>1, <2>2, BuildAgainStep DEF OptimizerIInv
<1>5. CASE CopyLine \/ FirstIf \/ SkipDuplicate
  <2>1. FirstRun \/ SecondRun
    BY <1>5 DEF CopyLine, FirstIf, SkipDuplicate, Reading, OptimizerIInv, Writing, FirstOver, SecondOver
  <2>2. passes' = passes
    BY <1>5 DEF CopyLine, FirstIf, SkipDuplicate
  <2> QED
    BY <1>5, <2>1, <2>2, FirstRunTurn, SecondRunTurn DEF OptimizerIInv
<1>6. CASE WriteFile
  <2>1. FirstRun \/ SecondRun
    BY <1>6 DEF WriteFile, OptimizerIInv, Writing, FirstOver, SecondOver
  <2>2. CASE FirstRun
    <3>1. passes # 1
      BY <2>2 DEF FirstRun
    <3> QED
      BY <1>6, <2>2, <3>1, FirstRunEnd DEF OptimizerIInv
  <2>3. CASE SecondRun
    BY <1>6, <2>3, SecondRunEnd DEF OptimizerIInv
  <2> QED
    BY <2>1, <2>2, <2>3
<1> QED
  BY <1>1, <1>2, <1>3, <1>4, <1>5, <1>6 DEF OptimizerNext, main

LEMMA OptimizerStart ==
  ASSUME OptimizerInit
  PROVE  OptimizerIInv
<1>1. << >> \in Seq(Lines) /\ Len(<< >>) = 0
  OBVIOUS
<1>2. Sound(<< >>)
  <2>1. \A k \in 0..0 : Depth(<< >>, k) >= 0
    BY DepthNext
  <2>2. Numbered(<< >>)
    BY <1>1 DEF Numbered
  <2> QED
    BY <1>1, <2>1, <2>2 DEF Sound
<1> QED
  BY <1>2 DEF OptimizerInit, OptimizerIInv, Writing, AtStart

LEMMA OptimizerInvariant == OptimizerSpec => []OptimizerIInv
<1>1. OptimizerInit => OptimizerIInv
  BY OptimizerStart
<1>2. OptimizerIInv /\ [OptimizerNext]_optimizerVars => OptimizerIInv'
  BY OptimizerStep
<1> QED
  BY <1>1, <1>2, PTL DEF OptimizerSpec

\* EffectKept: for programs of any length, with any conditions and any nesting.
\* What the loop of main() writes executes the same statements under the same
\* conditions, each once, and those under equal IFs in the same order.
THEOREM OptimizerEffectKept == OptimizerSpec => []EffectKept
<1>1. OptimizerIInv => EffectKept
  <2>1. ASSUME OptimizerIInv, phase = "over", Mergeable(program)
        PROVE  /\ Cardinality(Statements(file)) = Cardinality(Statements(program))
               /\ \A holds \in SUBSET Conditions : Executed(file, holds) = Executed(program, holds)
               /\ InOrder(program, file)
    <3>1. Optimized(program, file)
      BY <2>1 DEF OptimizerIInv, Writing, FirstRun, FirstOver, SecondRun, SecondOver
    <3> QED
      BY <3>1 DEF Optimized
  <2> QED
    BY <2>1 DEF EffectKept, InOrder
<1> QED
  BY <1>1, OptimizerInvariant, PTL

\* SecondRunChangesNothing: the file a first run wrote comes out of a second run
\* of main() as it went in.
THEOREM OptimizerSecondRunChangesNothing == OptimizerSpec => SecondRunChangesNothing
<1>1. OptimizerIInv /\ [OptimizerNext]_optimizerVars
        => [passes = 1 /\ passes' = 2 /\ Mergeable(program) => file' = file]_optimizerVars
  BY OptimizerStep
<1> QED
  BY <1>1, OptimizerInvariant, PTL DEF OptimizerSpec, SecondRunChangesNothing
=============================================================================
