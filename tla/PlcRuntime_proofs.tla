------------------------- MODULE PlcRuntime_proofs -------------------------
(***************************************************************************)
(* Proofs about PlcRuntime, for any cells, connections, requests, commands *)
(* and program: its type invariant, mutual exclusion on the process image, *)
(* that nothing writes the image outside a critical section, and, step by  *)
(* step, that it implements ProcessImage.                                  *)
(***************************************************************************)
EXTENDS PlcRuntime, TLAPS

\* The parts of TypeOK, by the threads that change them.
SharedOK ==
  /\ lock \in Threads \cup {Free}
  /\ image \in Images /\ pins \in [Outputs -> Val]
  /\ committed \in [image : Images, pins : [Outputs -> Val]]

ThreadsOK ==
  /\ pc \in [Threads -> Places]
  /\ left \in [Threads -> SUBSET Cells]
  /\ buf \in [Threads -> Images]

ModbusOK == request \in [Conns -> Requests] /\ answer \in [Conns -> Answers]

Dnp3OK ==
  /\ command \in SUBSET Commands
  /\ posted \in Seq([Published -> Val]) /\ database \in [Published -> Val]

CoreOK == SharedOK /\ ThreadsOK

-----------------------------------------------------------------------------
LEMMA TypeParts == TypeOK <=> CoreOK /\ ModbusOK /\ Dnp3OK
  BY DEF TypeOK, CoreOK, SharedOK, ThreadsOK, ModbusOK, Dnp3OK

LEMMA InitialTyped == Initial \in Images
  BY RuntimeAssumption

LEMMA ThreadNames ==
  /\ "main" \in Threads /\ "poll" \in Threads /\ "pool" \in Threads
  /\ Conns \subseteq Threads /\ Free \notin Threads
  BY RuntimeAssumption DEF Threads, Free

\* Reading cells off an image.
LEMMA RestrictedTyped ==
  ASSUME NEW img \in Images, NEW S \in SUBSET Cells
  PROVE  Restricted(img, S) \in [S -> Val]
  BY DEF Restricted, Images

LEMMA AnswerTyped ==
  ASSUME NEW img \in Images, NEW S \in SUBSET Cells, NEW k \in {"none", "ok", "exception"}
  PROVE  Answer(k, img, S) \in Answers
  BY RestrictedTyped DEF Answer, Answers

\* A step of one thread on the lock and the image keeps their types.
LEMMA AcquireTyped ==
  ASSUME CoreOK, NEW t \in Threads, NEW from, NEW to \in Places, NEW S \in SUBSET Cells,
         Acquire(t, from, to, S)
  PROVE  CoreOK'
  BY InitialTyped DEF CoreOK, SharedOK, ThreadsOK, Acquire

LEMMA ReleaseTyped ==
  ASSUME CoreOK, NEW t \in Threads, NEW from, NEW to \in Places, Release(t, from, to)
  PROVE  CoreOK'
  BY InitialTyped DEF CoreOK, SharedOK, ThreadsOK, Release

LEMMA LoadTyped ==
  ASSUME CoreOK, NEW t \in Threads, NEW at, NEW c \in Cells, Load(t, at, c)
  PROVE  CoreOK'
  <1>1. image[c] \in Val  BY DEF CoreOK, SharedOK, Images
  <1>2. buf' \in [Threads -> Images]
    BY <1>1 DEF CoreOK, ThreadsOK, Load, Images
  <1>3. left' \in [Threads -> SUBSET Cells]
    BY DEF CoreOK, ThreadsOK, Load, Visit
  <1> QED BY <1>2, <1>3 DEF CoreOK, SharedOK, ThreadsOK, Load, Visit

LEMMA StoreTyped ==
  ASSUME CoreOK, NEW t \in Threads, NEW at, NEW c \in Cells, NEW v \in Val, Store(t, at, c, v)
  PROVE  CoreOK'
  <1>1. image' \in Images  BY DEF CoreOK, SharedOK, Store, Images
  <1>2. left' \in [Threads -> SUBSET Cells]
    BY DEF CoreOK, ThreadsOK, Store, Visit
  <1> QED BY <1>1, <1>2 DEF CoreOK, SharedOK, ThreadsOK, Store, Visit

\* A step that only moves a thread to another place.
LEMMA MoveTyped ==
  ASSUME CoreOK, NEW t \in Threads, NEW to \in Places,
         pc' = [pc EXCEPT ![t] = to], UNCHANGED <<shared, left, buf>>
  PROVE  CoreOK'
  BY DEF CoreOK, SharedOK, ThreadsOK, shared

-----------------------------------------------------------------------------
(* Type correctness, one lemma per group of threads. *)

LEMMA InitTyped == Init => TypeOK
  <1> SUFFICES ASSUME Init PROVE TypeOK
    OBVIOUS
  <1>1. SharedOK
    BY InitialTyped, RestrictedTyped DEF Init, SharedOK, Cells
  <1>2. ThreadsOK
    <2>1. pc \in [Threads -> Places]  BY DEF Init, Places
    <2> QED BY <2>1, InitialTyped DEF Init, ThreadsOK
  <1>3. ModbusOK
    <2>1. Nothing \in Answers  BY AnswerTyped, InitialTyped DEF Nothing
    <2>2. (CHOOSE r \in Requests : TRUE) \in Requests  BY RuntimeAssumption
    <2> QED BY <2>1, <2>2 DEF Init, ModbusOK
  <1>4. Dnp3OK
    BY InitialTyped, RestrictedTyped, RuntimeAssumption DEF Init, Dnp3OK
  <1> QED BY <1>1, <1>2, <1>3, <1>4, TypeParts DEF CoreOK

LEMMA MainTyped ==
  ASSUME CoreOK, Main
  PROVE  CoreOK'
  <1> USE ThreadNames
  <1>1. CASE LockInputs
    BY <1>1, AcquireTyped DEF LockInputs, Cells, Places
  <1>2. CASE ReadSensor
    BY <1>2, StoreTyped DEF ReadSensor, Cells
  <1>3. CASE UnlockInputs
    BY <1>3, ReleaseTyped DEF UnlockInputs, Places
  <1>4. CASE LockProgram
    BY <1>4, AcquireTyped DEF LockProgram, Places
  <1>5. CASE FetchOperand
    BY <1>5, LoadTyped DEF FetchOperand
  <1>6. CASE Evaluate
    <2>1. Driven \subseteq Cells  BY RuntimeAssumption DEF Cells
    <2> QED BY <1>6, <2>1 DEF Evaluate, CoreOK, SharedOK, ThreadsOK, shared, Places
  <1>7. CASE AssignResult
    <2>1. PICK c \in Driven : Store("main", "assign", c, Logic(buf["main"])[c])
      BY <1>7 DEF AssignResult
    <2>2. c \in Cells  BY RuntimeAssumption DEF Cells
    <2>3. Logic(buf["main"]) \in [Driven -> Val]
      BY RuntimeAssumption DEF CoreOK, ThreadsOK
    <2>4. Logic(buf["main"])[c] \in Val  BY <2>3
    <2> QED BY <2>1, <2>2, <2>4, StoreTyped
  <1>8. CASE UnlockProgram
    BY <1>8, ReleaseTyped DEF UnlockProgram, Places
  <1>9. CASE LockOutputs
    BY <1>9, AcquireTyped DEF LockOutputs, Cells, Places
  <1>10. CASE DriveActuator
    <2>1. PICK c \in Outputs : /\ Visit("main", "out", c)
                               /\ pins' = [pins EXCEPT ![c] = image[c]]
      BY <1>10 DEF DriveActuator
    <2>2. image[c] \in Val  BY DEF CoreOK, SharedOK, Images, Cells
    <2> QED BY <1>10, <2>1, <2>2 DEF DriveActuator, Visit, CoreOK, SharedOK, ThreadsOK
  <1>11. CASE UnlockOutputs
    BY <1>11, ReleaseTyped DEF UnlockOutputs, Places
  <1>12. CASE NextScan
    BY <1>12, MoveTyped DEF NextScan, Places
  <1> QED
    BY <1>1, <1>2, <1>3, <1>4, <1>5, <1>6, <1>7, <1>8, <1>9, <1>10, <1>11, <1>12 DEF Main

LEMMA ConnectionTyped ==
  ASSUME CoreOK, ModbusOK, NEW c \in Conns, Connection(c)
  PROVE  CoreOK' /\ ModbusOK'
  <1> USE ThreadNames
  <1> c \in Threads  OBVIOUS
  <1>r. /\ request[c] \in Requests /\ request[c].cells \in SUBSET Cells
        /\ request[c].val \in Val
    BY RuntimeAssumption DEF ModbusOK
  <1>1. CASE Receive(c)
    <2>1. PICK r \in Requests :
            /\ request' = [request EXCEPT ![c] = r]
            /\ pc' = [pc EXCEPT ![c] = IF r.op = "reject" THEN "reject" ELSE "lock"]
      BY <1>1 DEF Receive
    <2>2. CoreOK'
      BY <1>1, <2>1, MoveTyped DEF Receive, Places
    <2> QED BY <1>1, <2>1, <2>2 DEF Receive, ModbusOK
  <1>2. CASE Reject(c)
    <2>1. CoreOK'  BY <1>2, MoveTyped DEF Reject, Places
    <2>2. Answer("exception", Initial, {}) \in Answers  BY AnswerTyped, InitialTyped
    <2> QED BY <1>2, <2>1, <2>2 DEF Reject, ModbusOK
  <1>3. CASE LockRequest(c)
    BY <1>3, <1>r, AcquireTyped DEF LockRequest, modbus, ModbusOK, Places
  <1>4. CASE ReadCell(c)
    BY <1>4, LoadTyped DEF ReadCell, modbus, ModbusOK
  <1>5. CASE WriteCell(c)
    BY <1>5, <1>r, StoreTyped DEF WriteCell, modbus, ModbusOK
  <1>6. CASE UnlockRequest(c)
    <2>1. CoreOK'  BY <1>6, ReleaseTyped DEF UnlockRequest, Places
    <2>2. Answer("exception", Initial, {}) \in Answers  BY AnswerTyped, InitialTyped
    <2>3. buf[c] \in Images  BY DEF CoreOK, ThreadsOK
    <2>4. \A S \in SUBSET Cells : Answer("ok", buf[c], S) \in Answers  BY <2>3, AnswerTyped
    <2>5. (IF request[c].op = "read" THEN request[c].cells ELSE {}) \in SUBSET Cells  BY <1>r
    <2> QED BY <1>6, <2>1, <2>2, <2>4, <2>5 DEF UnlockRequest, ModbusOK
  <1>7. CASE Reply(c)
    <2>1. CoreOK'  BY <1>7, MoveTyped DEF Reply, Places
    <2>2. Nothing \in Answers  BY AnswerTyped, InitialTyped DEF Nothing
    <2> QED BY <1>7, <2>1, <2>2 DEF Reply, ModbusOK
  <1> QED BY <1>1, <1>2, <1>3, <1>4, <1>5, <1>6, <1>7 DEF Connection

LEMMA PollTyped ==
  ASSUME CoreOK, Dnp3OK, Poll
  PROVE  CoreOK' /\ Dnp3OK'
  <1> USE ThreadNames
  <1>p. Published \in SUBSET Cells  BY RuntimeAssumption
  <1>1. CASE LockPoll
    BY <1>1, <1>p, AcquireTyped DEF LockPoll, dnp3, Dnp3OK, Places
  <1>2. CASE CopyPoint
    BY <1>2, <1>p, LoadTyped DEF CopyPoint, dnp3, Dnp3OK
  <1>3. CASE Apply
    <2>1. CoreOK'  BY <1>3, MoveTyped DEF Apply, Places
    <2>2. Restricted(buf["poll"], Published) \in [Published -> Val]
      BY <1>p, RestrictedTyped DEF CoreOK, ThreadsOK
    <2>3. posted' \in Seq([Published -> Val])
      BY <1>3, <2>2 DEF Apply, Dnp3OK
    <2> QED BY <1>3, <2>1, <2>3 DEF Apply, Dnp3OK
  <1>4. CASE UnlockPoll
    BY <1>4, ReleaseTyped DEF UnlockPoll, dnp3, Dnp3OK, Places
  <1>5. CASE NextPoll
    BY <1>5, MoveTyped DEF NextPoll, dnp3, Dnp3OK, Places
  <1> QED BY <1>1, <1>2, <1>3, <1>4, <1>5 DEF Poll

LEMMA PoolTyped ==
  ASSUME CoreOK, Dnp3OK, Pool
  PROVE  CoreOK' /\ Dnp3OK'
  <1> USE ThreadNames
  <1>k. \A k \in command : k.cells \in SUBSET Cells /\ k.val \in Val
    BY RuntimeAssumption DEF Dnp3OK, Cells
  <1>1. CASE ApplyPosted
    <2>1. Head(posted) \in [Published -> Val] /\ Tail(posted) \in Seq([Published -> Val])
      BY <1>1 DEF ApplyPosted, Dnp3OK
    <2> QED BY <1>1, <2>1 DEF ApplyPosted, Dnp3OK, CoreOK, SharedOK, ThreadsOK, shared
  <1>2. CASE ReceiveCommand
    <2>1. CoreOK'  BY <1>2, MoveTyped DEF ReceiveCommand, Places
    <2> QED BY <1>2, <2>1 DEF ReceiveCommand, Dnp3OK
  <1>3. CASE LockOperate
    BY <1>3, <1>k, AcquireTyped DEF LockOperate, dnp3, Dnp3OK, Places
  <1>4. CASE WritePoint
    BY <1>4, <1>k, StoreTyped DEF WritePoint, dnp3, Dnp3OK
  <1>5. CASE UnlockOperate
    <2>1. CoreOK'  BY <1>5, ReleaseTyped DEF UnlockOperate, Places
    <2> QED BY <1>5, <2>1 DEF UnlockOperate, Dnp3OK
  <1>6. CASE ReturnLocked
    <2>1. CoreOK'  BY <1>6, MoveTyped DEF ReturnLocked, Places
    <2> QED BY <1>6, <2>1 DEF ReturnLocked, Dnp3OK
  <1> QED BY <1>1, <1>2, <1>3, <1>4, <1>5, <1>6 DEF Pool

\* The threads leave each other's variables alone.
LEMMA MainFrame == Main => UNCHANGED <<modbus, dnp3>>
  BY DEF Main, LockInputs, ReadSensor, UnlockInputs, LockProgram, FetchOperand, Evaluate,
         AssignResult, UnlockProgram, LockOutputs, DriveActuator, UnlockOutputs, NextScan,
         modbus, dnp3

LEMMA ConnectionFrame == \A c \in Conns : Connection(c) => UNCHANGED dnp3
  BY DEF Connection, Receive, Reject, LockRequest, ReadCell, WriteCell, UnlockRequest, Reply, dnp3

LEMMA PollFrame == Poll => UNCHANGED modbus
  BY DEF Poll, LockPoll, CopyPoint, Apply, UnlockPoll, NextPoll, modbus

LEMMA PoolFrame == Pool => UNCHANGED modbus
  BY DEF Pool, ApplyPosted, ReceiveCommand, LockOperate, WritePoint, UnlockOperate, ReturnLocked,
         modbus

\* Every variable keeps its type: in particular the local copies are whole
\* images, and only answers that the code can build are sent.
THEOREM RuntimeTypeOK == Spec => []TypeOK
  <1>1. Init => TypeOK  BY InitTyped
  <1>2. TypeOK /\ [Next]_vars => TypeOK'
    <2> SUFFICES ASSUME TypeOK, [Next]_vars PROVE TypeOK'
      OBVIOUS
    <2>0. CoreOK /\ ModbusOK /\ Dnp3OK  BY TypeParts
    <2>t. (CoreOK /\ ModbusOK /\ Dnp3OK)' => TypeOK'
      BY DEF TypeOK, CoreOK, SharedOK, ThreadsOK, ModbusOK, Dnp3OK
    <2>1. CASE Main
      BY <2>0, <2>1, <2>t, MainTyped, MainFrame DEF ModbusOK, Dnp3OK, modbus, dnp3
    <2>2. CASE \E c \in Conns : Connection(c)
      BY <2>0, <2>2, <2>t, ConnectionTyped, ConnectionFrame DEF Dnp3OK, dnp3
    <2>3. CASE Poll
      BY <2>0, <2>3, <2>t, PollTyped, PollFrame DEF ModbusOK, modbus
    <2>4. CASE Pool
      BY <2>0, <2>4, <2>t, PoolTyped, PoolFrame DEF ModbusOK, modbus
    <2>5. CASE UNCHANGED vars
      BY <2>5 DEF TypeOK, vars, shared, modbus, dnp3
    <2> QED BY <2>1, <2>2, <2>3, <2>4, <2>5 DEF Next
  <1> QED BY <1>1, <1>2, PTL DEF Spec

-----------------------------------------------------------------------------
(* Mutual exclusion and no stray write: inductive together with the types. *)

Within == {"in", "run", "assign", "out", "serve", "read", "unlock", "operate"}

SafeImage == CoreOK /\ MutualExclusion /\ NoStrayWrite

\* Taking the mutex: it was free, so nobody else is inside.
LEMMA AcquireSafe ==
  ASSUME SafeImage, NEW t \in Threads, NEW from, NEW to, NEW S, Acquire(t, from, to, S)
  PROVE  MutualExclusion' /\ NoStrayWrite'
  <1>1. \A u \in Threads : ~Inside(u)
    BY ThreadNames DEF SafeImage, MutualExclusion, Acquire
  <1>2. \A u \in Threads : Inside(u)' => u = t
    BY <1>1 DEF SafeImage, CoreOK, ThreadsOK, Acquire, Inside
  <1> QED BY <1>2, ThreadNames DEF Acquire, MutualExclusion, NoStrayWrite

\* Giving it back: its owner leaves, and everybody else was outside.
LEMMA ReleaseSafe ==
  ASSUME SafeImage, NEW t \in Threads, NEW from \in Within, NEW to, to \notin Within,
         Release(t, from, to)
  PROVE  MutualExclusion' /\ NoStrayWrite'
  <1>1. lock = t  BY DEF SafeImage, MutualExclusion, Release, Inside, Within
  <1>2. \A u \in Threads : ~Inside(u)'
    BY <1>1 DEF SafeImage, CoreOK, ThreadsOK, MutualExclusion, Release, Inside, Within
  <1> QED BY <1>2 DEF Release, MutualExclusion, NoStrayWrite

\* Accessing a cell inside: the mutex is not free.
LEMMA VisitSafe ==
  ASSUME SafeImage, NEW t \in Threads, NEW at \in Within, NEW c, Visit(t, at, c)
  PROVE  MutualExclusion' /\ NoStrayWrite'
  <1>1. lock = t /\ lock' = t
    BY DEF SafeImage, MutualExclusion, Visit, Inside, Within
  <1> QED BY <1>1, ThreadNames DEF SafeImage, MutualExclusion, NoStrayWrite, Visit, Inside

\* Moving on without touching the mutex, never from outside to inside.
LEMMA MoveSafe ==
  ASSUME SafeImage, NEW t \in Threads, NEW to, to \in Within => pc[t] \in Within,
         pc' = [pc EXCEPT ![t] = to], UNCHANGED shared
  PROVE  MutualExclusion' /\ NoStrayWrite'
  <1>1. \A u \in Threads : Inside(u)' => Inside(u)
    BY DEF SafeImage, CoreOK, ThreadsOK, Inside, Within
  <1> QED BY <1>1 DEF SafeImage, MutualExclusion, NoStrayWrite, shared

LEMMA MainSafe ==
  ASSUME SafeImage, Main
  PROVE  MutualExclusion' /\ NoStrayWrite'
  <1> USE ThreadNames
  <1>1. CASE LockInputs \/ LockProgram \/ LockOutputs
    BY <1>1, AcquireSafe DEF LockInputs, LockProgram, LockOutputs
  <1>2. CASE UnlockInputs \/ UnlockProgram \/ UnlockOutputs
    BY <1>2, ReleaseSafe DEF UnlockInputs, UnlockProgram, UnlockOutputs, Within
  <1>3. CASE ReadSensor \/ FetchOperand \/ AssignResult \/ DriveActuator
    BY <1>3, VisitSafe DEF ReadSensor, FetchOperand, AssignResult, DriveActuator, Load, Store, Within
  <1>4. CASE Evaluate
    BY <1>4, MoveSafe DEF Evaluate, Within
  <1>5. CASE NextScan
    BY <1>5, MoveSafe DEF NextScan, Within
  <1> QED BY <1>1, <1>2, <1>3, <1>4, <1>5 DEF Main

LEMMA ConnectionSafe ==
  ASSUME SafeImage, NEW c \in Conns, Connection(c)
  PROVE  MutualExclusion' /\ NoStrayWrite'
  <1> USE ThreadNames
  <1>1. CASE LockRequest(c)
    BY <1>1, AcquireSafe DEF LockRequest
  <1>2. CASE UnlockRequest(c)
    BY <1>2, ReleaseSafe DEF UnlockRequest, Within
  <1>3. CASE ReadCell(c) \/ WriteCell(c)
    BY <1>3, VisitSafe DEF ReadCell, WriteCell, Load, Store, Within
  <1>4. CASE Receive(c)
    <2>1. PICK r \in Requests :
            pc' = [pc EXCEPT ![c] = IF r.op = "reject" THEN "reject" ELSE "lock"]
      BY <1>4 DEF Receive
    <2> QED BY <1>4, <2>1, MoveSafe DEF Receive, Within
  <1>5. CASE Reject(c)
    BY <1>5, MoveSafe DEF Reject, Within
  <1>6. CASE Reply(c)
    BY <1>6, MoveSafe DEF Reply, Within
  <1> QED BY <1>1, <1>2, <1>3, <1>4, <1>5, <1>6 DEF Connection

LEMMA PollSafe ==
  ASSUME SafeImage, Poll
  PROVE  MutualExclusion' /\ NoStrayWrite'
  <1> USE ThreadNames
  <1>1. CASE LockPoll
    BY <1>1, AcquireSafe DEF LockPoll
  <1>2. CASE UnlockPoll
    BY <1>2, ReleaseSafe DEF UnlockPoll, Within
  <1>3. CASE CopyPoint
    BY <1>3, VisitSafe DEF CopyPoint, Load, Within
  <1>4. CASE Apply
    BY <1>4, MoveSafe DEF Apply, Within
  <1>5. CASE NextPoll
    BY <1>5, MoveSafe DEF NextPoll, Within
  <1> QED BY <1>1, <1>2, <1>3, <1>4, <1>5 DEF Poll

\* The command that returns with the mutex keeps everybody else outside.
LEMMA PoolSafe ==
  ASSUME SafeImage, Pool
  PROVE  MutualExclusion' /\ NoStrayWrite'
  <1> USE ThreadNames
  <1>1. CASE LockOperate
    BY <1>1, AcquireSafe DEF LockOperate
  <1>2. CASE UnlockOperate
    BY <1>2, ReleaseSafe DEF UnlockOperate, Within
  <1>3. CASE WritePoint
    BY <1>3, VisitSafe DEF WritePoint, Store, Within
  <1>4. CASE ReceiveCommand
    BY <1>4, MoveSafe DEF ReceiveCommand, Within
  <1>5. CASE ReturnLocked
    BY <1>5, MoveSafe DEF ReturnLocked, Within
  <1>6. CASE ApplyPosted
    BY <1>6 DEF ApplyPosted, SafeImage, MutualExclusion, NoStrayWrite, Inside, shared
  <1> QED BY <1>1, <1>2, <1>3, <1>4, <1>5, <1>6 DEF Pool

LEMMA SafeInductive == TypeOK /\ MutualExclusion /\ NoStrayWrite /\ [Next]_vars
                         => (MutualExclusion /\ NoStrayWrite)'
  <1> SUFFICES ASSUME TypeOK, MutualExclusion, NoStrayWrite, [Next]_vars
               PROVE  (MutualExclusion /\ NoStrayWrite)'
    OBVIOUS
  <1>0. SafeImage  BY TypeParts DEF SafeImage
  <1>1. CASE Main  BY <1>0, <1>1, MainSafe
  <1>2. CASE \E c \in Conns : Connection(c)  BY <1>0, <1>2, ConnectionSafe
  <1>3. CASE Poll  BY <1>0, <1>3, PollSafe
  <1>4. CASE Pool  BY <1>0, <1>4, PoolSafe
  <1>5. CASE UNCHANGED vars
    BY <1>5 DEF MutualExclusion, NoStrayWrite, Inside, vars, shared
  <1> QED BY <1>1, <1>2, <1>3, <1>4, <1>5 DEF Next

LEMMA InitSafe == Init => MutualExclusion /\ NoStrayWrite
  BY DEF Init, MutualExclusion, NoStrayWrite, Inside

\* bufferLock (main.cpp:52) keeps the scan, the Modbus connections, the poll and
\* the DNP3 commands apart, however many connections there are and whatever
\* they ask, the early return of the commands included.
THEOREM RuntimeMutualExclusion == Spec => []MutualExclusion
  <1>1. TypeOK /\ MutualExclusion /\ NoStrayWrite /\ [Next]_vars
          => (MutualExclusion /\ NoStrayWrite)'
    BY SafeInductive
  <1> QED BY <1>1, InitSafe, RuntimeTypeOK, PTL DEF Spec

\* Nothing writes the process image or drives an output outside a critical
\* section: a free mutex leaves them as the last unlock did.
THEOREM RuntimeNoStrayWrite == Spec => []NoStrayWrite
  <1>1. TypeOK /\ MutualExclusion /\ NoStrayWrite /\ [Next]_vars
          => (MutualExclusion /\ NoStrayWrite)'
    BY SafeInductive
  <1> QED BY <1>1, InitSafe, RuntimeTypeOK, PTL DEF Spec

-----------------------------------------------------------------------------
(* The threads implement ProcessImage: every critical section takes effect *)
(* in the one step that leaves it.  The inductive invariant says, for each *)
(* section, how far the image, the pins and the thread's local copy have   *)
(* come from the last committed ones.                                      *)

\* The image is the committed one with the cells of S set by f.
ImageIs(S, f) == \A a \in Cells : image[a] = IF a \in S THEN f[a] ELSE committed.image[a]

ImageClean == image = committed.image
PinsClean == pins = committed.pins

\* The local copy of thread t is the image, but for the cells still to read.
CopiedBut(t, S) == \A a \in S \ left[t] : buf[t][a] = image[a]

MainWork ==
  /\ pc["main"] = "in" => PinsClean /\ ImageIs(Inputs, image)
  /\ pc["main"] = "run" => PinsClean /\ ImageClean /\ CopiedBut("main", Cells)
  /\ pc["main"] = "assign" =>
       /\ PinsClean /\ buf["main"] = committed.image
       /\ ImageIs(Driven \ left["main"], Logic(committed.image))
  /\ pc["main"] = "out" =>
       /\ ImageClean
       /\ \A a \in Outputs : pins[a] = IF a \in left["main"] THEN committed.pins[a] ELSE image[a]

ConnWork(c) ==
  /\ pc[c] = "reject" => request[c].op = "reject"
  /\ pc[c] \in {"lock", "serve"} => request[c].op \in {"read", "write"}
  /\ pc[c] = "serve" =>
       /\ PinsClean /\ left[c] \subseteq request[c].cells
       /\ request[c].op = "read" => ImageClean /\ CopiedBut(c, request[c].cells)
       /\ request[c].op = "write" =>
            ImageIs(request[c].cells \ left[c], [a \in Cells |-> request[c].val])

PollWork ==
  /\ pc["poll"] = "read" => PinsClean /\ ImageClean /\ CopiedBut("poll", Published)
  /\ pc["poll"] = "unlock" => PinsClean /\ ImageClean

PoolWork ==
  /\ pc["pool"] = "idle" => command = {}
  /\ pc["pool"] \in {"lock", "operate"} => \E k \in Commands : command = {k}
  /\ pc["pool"] = "operate" =>
       /\ PinsClean
       /\ \A k \in command :
            left["pool"] \subseteq k.cells /\ ImageIs(k.cells \ left["pool"], [a \in Cells |-> k.val])

Quiet == (\A t \in Threads : ~Inside(t)) => ImageClean /\ PinsClean

Work == MainWork /\ (\A c \in Conns : ConnWork(c)) /\ PollWork /\ PoolWork /\ Quiet
-----------------------------------------------------------------------------
(* What a step of one thread does to the others. *)

Others(u) ==
  /\ \A t \in Threads \ {u} : pc'[t] = pc[t] /\ left'[t] = left[t] /\ buf'[t] = buf[t]
  /\ ~Inside(u) => UNCHANGED <<image, pins, committed>>

LEMMA LockOthers ==
  ASSUME CoreOK, NEW u \in Threads, NEW from, NEW to, NEW S,
         \/ Acquire(u, from, to, S)
         \/ from \in Within /\ Release(u, from, to)
  PROVE  Others(u)
  BY DEF CoreOK, SharedOK, ThreadsOK, Acquire, Release, Others, Inside, Within

LEMMA VisitOthers ==
  ASSUME CoreOK, NEW u \in Threads, NEW at \in Within, NEW c, NEW v,
         Load(u, at, c) \/ Store(u, at, c, v)
  PROVE  Others(u)
  BY DEF CoreOK, SharedOK, ThreadsOK, Load, Store, Visit, Others, Inside, Within

LEMMA MoveOthers ==
  ASSUME CoreOK, NEW u \in Threads, NEW to,
         pc' = [pc EXCEPT ![u] = to], left' = left, UNCHANGED <<shared, buf>>
  PROVE  Others(u)
  BY DEF CoreOK, ThreadsOK, shared, Others

LEMMA MainOthers ==
  ASSUME CoreOK, Main
  PROVE  Others("main")
  <1> USE ThreadNames
  <1>1. CASE LockInputs \/ LockProgram \/ LockOutputs
    BY <1>1, LockOthers DEF LockInputs, LockProgram, LockOutputs
  <1>2. CASE UnlockInputs \/ UnlockProgram \/ UnlockOutputs
    BY <1>2, LockOthers DEF UnlockInputs, UnlockProgram, UnlockOutputs, Within
  <1>3. CASE ReadSensor \/ FetchOperand \/ AssignResult
    BY <1>3, VisitOthers DEF ReadSensor, FetchOperand, AssignResult, Within
  <1>4. CASE DriveActuator
    BY <1>4 DEF DriveActuator, CoreOK, SharedOK, ThreadsOK, Visit, Others, Inside
  <1>5. CASE Evaluate
    BY <1>5 DEF Evaluate, CoreOK, SharedOK, ThreadsOK, shared, Others
  <1>6. CASE NextScan
    BY <1>6, MoveOthers DEF NextScan
  <1> QED BY <1>1, <1>2, <1>3, <1>4, <1>5, <1>6 DEF Main

LEMMA ConnectionOthers ==
  ASSUME CoreOK, NEW c \in Conns, Connection(c)
  PROVE  Others(c)
  <1> USE ThreadNames
  <1>1. CASE LockRequest(c)
    BY <1>1, LockOthers DEF LockRequest
  <1>2. CASE UnlockRequest(c)
    BY <1>2, LockOthers DEF UnlockRequest, Within
  <1>3. CASE ReadCell(c) \/ WriteCell(c)
    BY <1>3, VisitOthers DEF ReadCell, WriteCell, Within
  <1>4. CASE Receive(c)
    BY <1>4, MoveOthers DEF Receive
  <1>5. CASE Reject(c) \/ Reply(c)
    BY <1>5, MoveOthers DEF Reject, Reply
  <1> QED BY <1>1, <1>2, <1>3, <1>4, <1>5 DEF Connection

LEMMA PollOthers ==
  ASSUME CoreOK, Poll
  PROVE  Others("poll")
  <1> USE ThreadNames
  <1>1. CASE LockPoll
    BY <1>1, LockOthers DEF LockPoll
  <1>2. CASE UnlockPoll
    BY <1>2, LockOthers DEF UnlockPoll, Within
  <1>3. CASE CopyPoint
    BY <1>3, VisitOthers DEF CopyPoint, Within
  <1>4. CASE Apply \/ NextPoll
    BY <1>4, MoveOthers DEF Apply, NextPoll
  <1> QED BY <1>1, <1>2, <1>3, <1>4 DEF Poll

LEMMA PoolOthers ==
  ASSUME CoreOK, Pool
  PROVE  Others("pool")
  <1> USE ThreadNames
  <1>1. CASE LockOperate
    BY <1>1, LockOthers DEF LockOperate
  <1>2. CASE UnlockOperate
    BY <1>2, LockOthers DEF UnlockOperate, Within
  <1>3. CASE WritePoint
    BY <1>3, VisitOthers DEF WritePoint, Within
  <1>4. CASE ReceiveCommand \/ ReturnLocked
    BY <1>4, MoveOthers DEF ReceiveCommand, ReturnLocked
  <1>5. CASE ApplyPosted
    BY <1>5 DEF ApplyPosted, CoreOK, SharedOK, ThreadsOK, shared, Others
  <1> QED BY <1>1, <1>2, <1>3, <1>4, <1>5 DEF Pool

\* While t is inside, a step of another thread leaves the image alone, so
\* what t has done so far still stands.
LEMMA Undisturbed ==
  ASSUME MutualExclusion, NEW u \in Threads, NEW t \in Threads, t # u, Others(u)
  PROVE  /\ pc'[t] = pc[t] /\ left'[t] = left[t] /\ buf'[t] = buf[t]
         /\ Inside(t) => UNCHANGED <<image, pins, committed>>
  BY DEF MutualExclusion, Others

LEMMA KeepMain ==
  ASSUME MutualExclusion, MainWork, NEW u \in Threads, u # "main", Others(u)
  PROVE  MainWork'
  BY Undisturbed, ThreadNames
  DEF MainWork, PinsClean, ImageClean, ImageIs, CopiedBut, Inside

LEMMA KeepConn ==
  ASSUME MutualExclusion, NEW c \in Conns, ConnWork(c), NEW u \in Threads, u # c, Others(u),
         request'[c] = request[c]
  PROVE  ConnWork(c)'
  BY Undisturbed, ThreadNames
  DEF ConnWork, PinsClean, ImageClean, ImageIs, CopiedBut, Inside

LEMMA KeepPoll ==
  ASSUME MutualExclusion, PollWork, NEW u \in Threads, u # "poll", Others(u)
  PROVE  PollWork'
  BY Undisturbed, ThreadNames DEF PollWork, PinsClean, ImageClean, CopiedBut, Inside

LEMMA KeepPool ==
  ASSUME MutualExclusion, PoolWork, NEW u \in Threads, u # "pool", Others(u), command' = command
  PROVE  PoolWork'
  BY Undisturbed, ThreadNames DEF PoolWork, PinsClean, ImageIs, Inside

\* The image is the committed one whenever a thread that was outside stays so.
LEMMA KeepQuiet ==
  ASSUME Quiet, NEW u \in Threads, Others(u), Inside(u) => Inside(u)'
  PROVE  Quiet'
  BY DEF Quiet, Others, Inside, ImageClean, PinsClean
-----------------------------------------------------------------------------
(* The abstract step of each concrete one.  Each thread has one lemma that  *)
(* its own work invariant is kept and one that its step is an abstract one. *)

Refines == [Abstract!Next]_(Abstract!absVars)

LEMMA OverlayIs ==
  ASSUME CoreOK, NEW S, NEW f, ImageIs(S, f)
  PROVE  image = Abstract!Overlay(committed.image, S, f)
  BY DEF CoreOK, SharedOK, Images, Cells, ImageIs, Abstract!Overlay, Abstract!Cells

LEMMA CleanIs ==
  ASSUME CoreOK, ImageClean, PinsClean
  PROVE  [image |-> image, pins |-> pins] = committed
  BY DEF CoreOK, SharedOK, ImageClean, PinsClean

\* Steps that change none of the abstract state, and its parts that few change.
LEMMA Stutters ==
  ASSUME committed' = committed, Phase' = Phase, Status' = Status, UNCHANGED <<modbus, dnp3>>
  PROVE  Refines
  BY DEF Refines, Abstract!absVars, modbus, dnp3

LEMMA StatusKept ==
  ASSUME \A c \in Conns : pc'[c] = pc[c]
  PROVE  Status' = Status
  BY DEF Status

LEMMA PhaseKept ==
  ASSUME pc'["main"] = pc["main"]
  PROVE  Phase' = Phase
  BY DEF Phase

LEMMA MainWorkKept ==
  ASSUME CoreOK, MutualExclusion, Work, Main
  PROVE  MainWork' /\ Quiet'
  <1> USE ThreadNames
  <1>o. Others("main")  BY MainOthers
  <1>t. /\ pc["main"] \in Places /\ left["main"] \in SUBSET Cells /\ buf["main"] \in Images
        /\ image \in Images /\ pins \in [Outputs -> Val]
        /\ committed.image \in Images /\ committed.pins \in [Outputs -> Val]
    BY DEF CoreOK, SharedOK, ThreadsOK
  <1>w. MainWork /\ Quiet  BY DEF Work
  <1>q. lock = Free => ImageClean /\ PinsClean
    BY <1>w DEF MutualExclusion, Quiet
  <1>1. CASE LockInputs
    <2>1. Quiet'  BY <1>1, <1>o, <1>w, KeepQuiet DEF LockInputs, Acquire, Inside
    <2> QED BY <1>1, <2>1, <1>q, <1>t
        DEF LockInputs, Acquire, MainWork, ImageClean, PinsClean, ImageIs, CoreOK, ThreadsOK
  <1>2. CASE ReadSensor
    <2>1. PICK c \in Inputs, v \in Val : Store("main", "in", c, v)  BY <1>2 DEF ReadSensor
    <2>2. Quiet'  BY <2>1, <1>o, <1>w, KeepQuiet DEF Store, Visit, Inside
    <2> QED BY <2>1, <2>2, <1>w, <1>t
        DEF Store, Visit, MainWork, PinsClean, ImageIs, Images
  <1>3. CASE UnlockInputs
    BY <1>3, <1>t
    DEF UnlockInputs, Release, MainWork, Quiet, ImageClean, PinsClean, CoreOK, ThreadsOK
  <1>4. CASE LockProgram
    <2>1. Quiet'  BY <1>4, <1>o, <1>w, KeepQuiet DEF LockProgram, Acquire, Inside
    <2> QED BY <1>4, <2>1, <1>q, <1>t
        DEF LockProgram, Acquire, MainWork, ImageClean, PinsClean, CopiedBut, CoreOK, ThreadsOK
  <1>5. CASE FetchOperand
    <2>1. PICK c \in Cells : Load("main", "run", c)  BY <1>5 DEF FetchOperand
    <2>2. Quiet'  BY <2>1, <1>o, <1>w, KeepQuiet DEF Load, Visit, Inside
    <2>3. \A a \in Cells \ left'["main"] : buf'["main"][a] = image[a]
      BY <2>1, <1>w, <1>t DEF Load, Visit, MainWork, CopiedBut, CoreOK, ThreadsOK, Images
    <2> QED BY <2>1, <2>2, <2>3, <1>w
        DEF Load, Visit, MainWork, ImageClean, PinsClean, CopiedBut
  <1>6. CASE Evaluate
    <2>1. Quiet'  BY <1>6, <1>o, <1>w, <1>t, KeepQuiet DEF Evaluate, Inside, CoreOK, ThreadsOK
    <2>2. buf["main"] = committed.image
      BY <1>6, <1>w, <1>t DEF Evaluate, MainWork, ImageClean, CopiedBut, Images
    <2>3. pc'["main"] = "assign" /\ left'["main"] = Driven
      BY <1>6 DEF Evaluate, CoreOK, ThreadsOK
    <2>4. PinsClean /\ ImageClean  BY <1>6, <1>w DEF Evaluate, MainWork
    <2> QED BY <1>6, <2>1, <2>2, <2>3, <2>4
        DEF Evaluate, MainWork, shared, ImageClean, PinsClean, ImageIs
  <1>7. CASE AssignResult
    <2>1. PICK c \in Driven : Store("main", "assign", c, Logic(buf["main"])[c])
      BY <1>7 DEF AssignResult
    <2>2. Quiet'  BY <2>1, <1>o, <1>w, KeepQuiet DEF Store, Visit, Inside
    <2>3. /\ pc["main"] = "assign" /\ pc' = pc /\ left'["main"] = left["main"] \ {c}
          /\ image' = [image EXCEPT ![c] = Logic(committed.image)[c]]
          /\ UNCHANGED <<buf, pins, committed>> /\ c \in left["main"] /\ c \in Cells
      BY <2>1, <1>w, RuntimeAssumption DEF Store, Visit, MainWork, CoreOK, ThreadsOK, Cells
    <2>4. \A a \in Cells : image'[a] = IF a \in Driven \ left'["main"]
                                        THEN Logic(committed.image)[a] ELSE committed.image[a]
      BY <2>3, <1>w, <1>t DEF MainWork, ImageIs, Images
    <2> QED BY <2>2, <2>3, <2>4, <1>w DEF MainWork, PinsClean, ImageIs
  <1>8. CASE UnlockProgram
    BY <1>8, <1>t
    DEF UnlockProgram, Release, MainWork, Quiet, ImageClean, PinsClean, CoreOK, ThreadsOK
  <1>9. CASE LockOutputs
    <2>1. Quiet'  BY <1>9, <1>o, <1>w, KeepQuiet DEF LockOutputs, Acquire, Inside
    <2> QED BY <1>9, <2>1, <1>q, <1>t
        DEF LockOutputs, Acquire, MainWork, ImageClean, PinsClean, CoreOK, ThreadsOK
  <1>10. CASE DriveActuator
    <2>1. PICK c \in Outputs : Visit("main", "out", c) /\ pins' = [pins EXCEPT ![c] = image[c]]
      BY <1>10 DEF DriveActuator
    <2>2. Quiet'
      BY <1>10, <2>1, <1>o, <1>w, KeepQuiet DEF DriveActuator, Visit, Inside
    <2> QED BY <1>10, <2>1, <2>2, <1>w, <1>t
        DEF DriveActuator, Visit, MainWork, ImageClean, CoreOK, ThreadsOK
  <1>11. CASE UnlockOutputs
    BY <1>11, <1>t
    DEF UnlockOutputs, Release, MainWork, Quiet, ImageClean, PinsClean, CoreOK, ThreadsOK
  <1>12. CASE NextScan
    <2>1. Quiet'  BY <1>12, <1>o, <1>w, KeepQuiet DEF NextScan, Inside
    <2> QED BY <1>12, <2>1 DEF NextScan, MainWork, CoreOK, ThreadsOK
  <1> QED
    BY <1>1, <1>2, <1>3, <1>4, <1>5, <1>6, <1>7, <1>8, <1>9, <1>10, <1>11, <1>12 DEF Main

LEMMA MainRefines ==
  ASSUME CoreOK, MutualExclusion, Work, Main
  PROVE  Refines
  <1> USE ThreadNames
  <1>t. /\ image \in Images /\ pins \in [Outputs -> Val] /\ pc["main"] \in Places
        /\ committed.image \in Images /\ committed.pins \in [Outputs -> Val]
        /\ DOMAIN pc = Threads
    BY DEF CoreOK, SharedOK, ThreadsOK
  <1>w. MainWork  BY DEF Work
  <1>f. UNCHANGED <<modbus, dnp3>>  BY MainFrame
  <1>s. Status' = Status
    <2>1. "main" \notin Conns  BY RuntimeAssumption
    <2>2. \A c \in Conns : pc'[c] = pc[c]  BY <2>1, MainOthers DEF Others
    <2> QED BY <2>2, StatusKept
  <1>1. CASE LockInputs \/ LockProgram \/ LockOutputs
    <2>1. committed' = committed /\ Phase' = Phase
      BY <1>1, <1>t DEF LockInputs, LockProgram, LockOutputs, Acquire, Phase
    <2> QED BY <2>1, <1>s, <1>f, Stutters
  <1>2. CASE ReadSensor \/ FetchOperand \/ AssignResult \/ DriveActuator
    <2>1. committed' = committed /\ pc' = pc
      BY <1>2 DEF ReadSensor, FetchOperand, AssignResult, DriveActuator, Load, Store, Visit
    <2>2. Phase' = Phase  BY <2>1, PhaseKept
    <2> QED BY <2>1, <2>2, <1>s, <1>f, Stutters
  <1>3. CASE Evaluate \/ NextScan
    <2>1. committed' = committed /\ Phase' = Phase
      BY <1>3, <1>t DEF Evaluate, NextScan, shared, Phase
    <2> QED BY <2>1, <1>s, <1>f, Stutters
  <1>4. CASE UnlockInputs
    <2>1. Phase = "sample" /\ Phase' = "run" /\ Status' = Status
      BY <1>4, <1>s, <1>t DEF UnlockInputs, Release, Phase
    <2>2. committed'.image = image /\ committed'.pins = pins /\ pc["main"] = "in"
      BY <1>4 DEF UnlockInputs, Release
    <2>3. PinsClean /\ ImageIs(Inputs, image)  BY <2>2, <1>w DEF MainWork
    <2> DEFINE f == [a \in Inputs |-> image[a]]
    <2>4. f \in [Inputs -> Val]  BY <1>t DEF Images, Cells
    <2>5. ImageIs(Inputs, f)  BY <2>3 DEF ImageIs
    <2>6. committed'.image = Abstract!Overlay(committed.image, Inputs, f)
      BY <2>2, <2>5, OverlayIs
    <2>7. Abstract!Sample
      BY <2>1, <2>2, <2>3, <2>4, <2>6, <1>f DEF Abstract!Sample, PinsClean, modbus, dnp3
    <2> QED BY <2>7 DEF Refines, Abstract!Next
  <1>5. CASE UnlockProgram
    <2>1. Phase = "run" /\ Phase' = "drive" /\ Status' = Status
      BY <1>5, <1>s, <1>t DEF UnlockProgram, Release, Phase
    <2>2. /\ committed'.image = image /\ committed'.pins = pins
          /\ pc["main"] = "assign" /\ left["main"] = {}
      BY <1>5 DEF UnlockProgram, Release
    <2>3. PinsClean /\ ImageIs(Driven, Logic(committed.image))
      BY <2>2, <1>w DEF MainWork, ImageIs
    <2>4. DOMAIN Logic(committed.image) = Driven
      <3>1. Logic(committed.image) \in [Driven -> Val]  BY <1>t, RuntimeAssumption
      <3> QED BY <3>1
    <2>5. committed'.image = Abstract!Overlay(committed.image, DOMAIN Logic(committed.image),
                                              Logic(committed.image))
      BY <2>2, <2>3, <2>4, OverlayIs
    <2>6. Abstract!Run
      BY <2>1, <2>2, <2>3, <2>5, <1>f DEF Abstract!Run, PinsClean, modbus, dnp3
    <2> QED BY <2>6 DEF Refines, Abstract!Next
  <1>6. CASE UnlockOutputs
    <2>1. Phase = "drive" /\ Phase' = "sample" /\ Status' = Status
      BY <1>6, <1>s, <1>t DEF UnlockOutputs, Release, Phase
    <2>2. /\ committed'.image = image /\ committed'.pins = pins
          /\ pc["main"] = "out" /\ left["main"] = {}
      BY <1>6 DEF UnlockOutputs, Release
    <2>3. ImageClean /\ \A a \in Outputs : pins[a] = image[a]
      BY <2>2, <1>w DEF MainWork
    <2>4. pins = Abstract!Restricted(committed.image, Outputs)
      BY <2>3, <1>t DEF Abstract!Restricted, ImageClean
    <2>5. Abstract!Drive
      BY <2>1, <2>2, <2>3, <2>4, <1>f DEF Abstract!Drive, ImageClean, modbus, dnp3
    <2> QED BY <2>5 DEF Refines, Abstract!Next
  <1> QED BY <1>1, <1>2, <1>3, <1>4, <1>5, <1>6 DEF Main

-----------------------------------------------------------------------------
(* The Modbus connections. *)

LEMMA EmptyData ==
  ASSUME NEW k, NEW f, NEW g
  PROVE  Answer(k, f, {}) = Abstract!Answer(k, g, {})
  <1>1. Restricted(f, {}) = Abstract!Restricted(g, {})
    BY DEF Restricted, Abstract!Restricted
  <1> QED BY <1>1 DEF Answer, Abstract!Answer

LEMMA StatusMoves ==
  ASSUME CoreOK, NEW c \in Conns, NEW to, pc' = [pc EXCEPT ![c] = to]
  PROVE  Status' = [Status EXCEPT ![c] = CASE to = "listen" -> "idle" [] to = "reply" -> "done"
                                           [] OTHER -> "pending"]
  BY ThreadNames DEF Status, CoreOK, ThreadsOK

LEMMA StatusPends ==
  ASSUME CoreOK, NEW c \in Conns, NEW to \in {"reject", "lock"}, pc' = [pc EXCEPT ![c] = to]
  PROVE  Status' = [Status EXCEPT ![c] = "pending"]
  BY ThreadNames DEF Status, CoreOK, ThreadsOK

LEMMA ConnWorkKept ==
  ASSUME CoreOK, ModbusOK, MutualExclusion, Work, NEW c \in Conns, Connection(c)
  PROVE  ConnWork(c)' /\ Quiet'
  <1> USE ThreadNames
  <1> c \in Threads  OBVIOUS
  <1>o. Others(c)  BY ConnectionOthers
  <1>t. /\ pc[c] \in Places /\ left[c] \in SUBSET Cells /\ buf[c] \in Images
        /\ image \in Images /\ request[c] \in Requests
        /\ pc \in [Threads -> Places] /\ left \in [Threads -> SUBSET Cells]
        /\ buf \in [Threads -> Images] /\ request \in [Conns -> Requests]
    BY DEF CoreOK, SharedOK, ThreadsOK, ModbusOK
  <1>r. request[c].op \in {"read", "write", "reject"} /\ request[c].cells \in SUBSET Cells
    BY <1>t, RuntimeAssumption
  <1>w. ConnWork(c) /\ Quiet  BY DEF Work
  <1>q. lock = Free => ImageClean /\ PinsClean
    BY <1>w DEF MutualExclusion, Quiet
  <1>1. CASE Receive(c)
    <2>1. PICK r \in Requests :
            /\ request' = [request EXCEPT ![c] = r]
            /\ pc' = [pc EXCEPT ![c] = IF r.op = "reject" THEN "reject" ELSE "lock"]
      BY <1>1 DEF Receive
    <2>2. r.op \in {"read", "write", "reject"}  BY RuntimeAssumption
    <2>3. Quiet'  BY <1>1, <1>o, <1>w, KeepQuiet DEF Receive, Inside
    <2> QED BY <2>1, <2>2, <2>3, <1>t DEF ConnWork
  <1>2. CASE Reject(c) \/ Reply(c)
    <2>1. Quiet'  BY <1>2, <1>o, <1>w, KeepQuiet DEF Reject, Reply, Inside
    <2> QED BY <1>2, <2>1, <1>t DEF Reject, Reply, ConnWork
  <1>3. CASE LockRequest(c)
    <2>1. Quiet'  BY <1>3, <1>o, <1>w, KeepQuiet DEF LockRequest, Acquire, Inside
    <2>2. /\ pc[c] = "lock" /\ pc'[c] = "serve" /\ left'[c] = request[c].cells
          /\ lock = Free /\ UNCHANGED <<image, pins, committed, request>>
      BY <1>3, <1>t DEF LockRequest, Acquire, modbus
    <2> QED BY <2>1, <2>2, <1>q, <1>w
        DEF ConnWork, ImageClean, PinsClean, ImageIs, CopiedBut
  <1>4. CASE ReadCell(c)
    <2>1. PICK a \in Cells : Load(c, "serve", a)  BY <1>4 DEF ReadCell
    <2>2. Quiet'  BY <2>1, <1>o, <1>w, KeepQuiet DEF Load, Visit, Inside
    <2>3. /\ pc[c] = "serve" /\ pc' = pc /\ left'[c] = left[c] \ {a} /\ request[c].op = "read"
          /\ buf'[c] = [buf[c] EXCEPT ![a] = image[a]]
          /\ UNCHANGED <<image, pins, committed, request>>
      BY <1>4, <2>1, <1>t DEF ReadCell, Load, Visit, modbus
    <2>4. \A b \in request[c].cells \ left'[c] : buf'[c][b] = image[b]
      BY <2>3, <1>w, <1>t, <1>r DEF ConnWork, CopiedBut, Images
    <2> QED BY <2>2, <2>3, <2>4, <1>w DEF ConnWork, ImageClean, PinsClean, CopiedBut
  <1>5. CASE WriteCell(c)
    <2>1. PICK a \in Cells : Store(c, "serve", a, request[c].val)  BY <1>5 DEF WriteCell
    <2>2. Quiet'  BY <2>1, <1>o, <1>w, KeepQuiet DEF Store, Visit, Inside
    <2>3. /\ pc[c] = "serve" /\ pc' = pc /\ left'[c] = left[c] \ {a} /\ request[c].op = "write"
          /\ image' = [image EXCEPT ![a] = request[c].val] /\ a \in left[c]
          /\ UNCHANGED <<pins, committed, request>>
      BY <1>5, <2>1, <1>t DEF WriteCell, Store, Visit, modbus
    <2>4. \A b \in Cells : image'[b] = IF b \in request[c].cells \ left'[c]
                                        THEN request[c].val ELSE committed.image[b]
      BY <2>3, <1>w, <1>t, <1>r DEF ConnWork, ImageIs, Images
    <2> QED BY <2>2, <2>3, <2>4, <1>w DEF ConnWork, PinsClean, ImageIs
  <1>6. CASE UnlockRequest(c)
    BY <1>6, <1>t DEF UnlockRequest, Release, ConnWork, Quiet, ImageClean, PinsClean
  <1> QED BY <1>1, <1>2, <1>3, <1>4, <1>5, <1>6 DEF Connection

LEMMA ConnRefines ==
  ASSUME CoreOK, ModbusOK, MutualExclusion, Work, NEW c \in Conns, Connection(c)
  PROVE  Refines
  <1> USE ThreadNames
  <1> c \in Threads  OBVIOUS
  <1>t. /\ pc \in [Threads -> Places] /\ image \in Images /\ buf[c] \in Images
        /\ committed.image \in Images
        /\ request \in [Conns -> Requests] /\ answer \in [Conns -> Answers]
    BY DEF CoreOK, SharedOK, ThreadsOK, ModbusOK
  <1>r. /\ request[c].op \in {"read", "write", "reject"} /\ request[c].cells \in SUBSET Cells
        /\ request[c].val \in Val /\ request[c].bad \in BOOLEAN
    BY <1>t, RuntimeAssumption
  <1>w. ConnWork(c)  BY DEF Work
  <1>f. UNCHANGED dnp3  BY ConnectionFrame
  <1>p. Phase' = Phase
    <2>1. "main" # c  BY RuntimeAssumption
    <2>2. pc'["main"] = pc["main"]  BY <2>1, ConnectionOthers DEF Others
    <2> QED BY <2>2, PhaseKept
  <1>1. CASE Receive(c)
    <2>1. PICK r \in Requests :
            /\ request' = [request EXCEPT ![c] = r]
            /\ pc' = [pc EXCEPT ![c] = IF r.op = "reject" THEN "reject" ELSE "lock"]
      BY <1>1 DEF Receive
    <2>2. Status[c] = "idle"  BY <1>1 DEF Receive, Status
    <2>3. Status' = [Status EXCEPT ![c] = "pending"]
      <3>1. CASE pc' = [pc EXCEPT ![c] = "reject"]  BY <3>1, StatusPends
      <3>2. CASE pc' = [pc EXCEPT ![c] = "lock"]  BY <3>2, StatusPends
      <3> QED BY <2>1, <3>1, <3>2
    <2>4. committed' = committed /\ answer' = answer  BY <1>1 DEF Receive, shared
    <2>5. Abstract!Issue(c)
      BY <2>1, <2>2, <2>3, <2>4, <1>f, <1>p DEF Abstract!Issue, dnp3
    <2> QED BY <2>5 DEF Refines, Abstract!Next
  <1>2. CASE Reject(c)
    <2>1. Status[c] = "pending"  BY <1>2 DEF Reject, Status
    <2>2. Status' = [Status EXCEPT ![c] = "done"]  BY <1>2, StatusMoves DEF Reject
    <2>3. committed' = committed /\ request' = request  BY <1>2 DEF Reject, shared
    <2>4. request[c].op = "reject"  BY <1>2, <1>w DEF Reject, ConnWork
    <2>5. committed.image = Abstract!EffectOf(request[c], committed.image)
      BY <2>4 DEF Abstract!EffectOf
    <2>6. answer' = [answer EXCEPT ![c] = Abstract!AnswerTo(request[c], committed.image)]
      BY <1>2, <2>4, EmptyData DEF Reject, Abstract!AnswerTo
    <2>7. Abstract!Serve(c)
      BY <2>1, <2>2, <2>3, <2>5, <2>6, <1>f, <1>p DEF Abstract!Serve, dnp3
    <2> QED BY <2>7 DEF Refines, Abstract!Next
  <1>3. CASE LockRequest(c) \/ ReadCell(c) \/ WriteCell(c)
    <2>1. committed' = committed /\ UNCHANGED <<modbus, dnp3>>
      BY <1>3 DEF LockRequest, Acquire, ReadCell, WriteCell, Load, Store, Visit
    <2>2. CASE LockRequest(c)
      <3>1. Status' = [Status EXCEPT ![c] = "pending"] /\ Status[c] = "pending"
        BY <2>2, StatusMoves DEF LockRequest, Acquire, Status
      <3>2. Status' = Status  BY <3>1 DEF Status
      <3> QED BY <2>1, <3>2, <1>p, Stutters
    <2>3. CASE ReadCell(c) \/ WriteCell(c)
      <3>1. Status' = Status
        BY <2>3, StatusKept DEF ReadCell, WriteCell, Load, Store, Visit
      <3> QED BY <2>1, <3>1, <1>p, Stutters
    <2> QED BY <1>3, <2>2, <2>3
  <1>4. CASE UnlockRequest(c)
    <2>1. /\ pc[c] = "serve" /\ left[c] = {} /\ pc' = [pc EXCEPT ![c] = "reply"]
          /\ committed'.image = image /\ committed'.pins = pins /\ request' = request
      BY <1>4 DEF UnlockRequest, Release
    <2>2. Status[c] = "pending" /\ Status' = [Status EXCEPT ![c] = "done"]
      BY <2>1, StatusMoves DEF Status
    <2>3. PinsClean /\ request[c].op \in {"read", "write"}  BY <2>1, <1>w DEF ConnWork
    <2>4. committed'.image = Abstract!EffectOf(request[c], committed.image)
      <3>1. CASE request[c].op = "read"
        BY <3>1, <2>1, <1>w DEF ConnWork, ImageClean, Abstract!EffectOf
      <3>2. CASE request[c].op = "write"
        <4>1. ImageIs(request[c].cells, [a \in Cells |-> request[c].val])
          BY <3>2, <2>1, <1>w DEF ConnWork, ImageIs
        <4>2. image = Abstract!Overlay(committed.image, request[c].cells,
                                       [a \in Cells |-> request[c].val])
          BY <4>1, OverlayIs
        <4> QED BY <3>2, <2>1, <4>2 DEF Abstract!EffectOf, Abstract!Cells, Cells
      <3> QED BY <2>3, <3>1, <3>2
    <2>5. answer' = [answer EXCEPT ![c] = Abstract!AnswerTo(request[c], committed.image)]
      <3>1. CASE request[c].bad
        BY <1>4, <3>1, EmptyData DEF UnlockRequest, Abstract!AnswerTo
      <3>2. CASE ~request[c].bad /\ request[c].op = "write"
        BY <1>4, <3>2, EmptyData DEF UnlockRequest, Abstract!AnswerTo
      <3>3. CASE ~request[c].bad /\ request[c].op = "read"
        <4>1. \A a \in request[c].cells : buf[c][a] = committed.image[a]
          BY <3>3, <2>1, <1>w DEF ConnWork, CopiedBut, ImageClean
        <4>2. Restricted(buf[c], request[c].cells)
                = Abstract!Restricted(committed.image, request[c].cells)
          BY <4>1 DEF Restricted, Abstract!Restricted
        <4> QED BY <1>4, <3>3, <4>2
            DEF UnlockRequest, Abstract!AnswerTo, Answer, Abstract!Answer
      <3> QED BY <2>3, <3>1, <3>2, <3>3, <1>r
    <2>6. Abstract!Serve(c)
      BY <2>1, <2>2, <2>3, <2>4, <2>5, <1>f, <1>p DEF Abstract!Serve, PinsClean, dnp3
    <2> QED BY <2>6 DEF Refines, Abstract!Next
  <1>5. CASE Reply(c)
    <2>1. Status[c] = "done"  BY <1>5 DEF Reply, Status
    <2>2. Status' = [Status EXCEPT ![c] = "idle"]  BY <1>5, StatusMoves DEF Reply
    <2>3. committed' = committed /\ request' = request  BY <1>5 DEF Reply, shared
    <2>4. answer' = [answer EXCEPT ![c] = Abstract!Nothing]
      BY <1>5, EmptyData DEF Reply, Nothing, Abstract!Nothing
    <2>5. Abstract!Reply(c)
      BY <2>1, <2>2, <2>3, <2>4, <1>f, <1>p DEF Abstract!Reply, dnp3
    <2> QED BY <2>5 DEF Refines, Abstract!Next
  <1> QED BY <1>1, <1>2, <1>3, <1>4, <1>5 DEF Connection

-----------------------------------------------------------------------------
(* The two DNP3 threads. *)

LEMMA PollWorkKept ==
  ASSUME CoreOK, MutualExclusion, Work, Poll
  PROVE  PollWork' /\ Quiet'
  <1> USE ThreadNames
  <1>o. Others("poll")  BY PollOthers
  <1>t. /\ left["poll"] \in SUBSET Cells /\ buf["poll"] \in Images
        /\ pc \in [Threads -> Places] /\ left \in [Threads -> SUBSET Cells]
        /\ buf \in [Threads -> Images]
    BY DEF CoreOK, ThreadsOK
  <1>w. PollWork /\ Quiet  BY DEF Work
  <1>q. lock = Free => ImageClean /\ PinsClean
    BY <1>w DEF MutualExclusion, Quiet
  <1>1. CASE LockPoll
    <2>1. Quiet'  BY <1>1, <1>o, <1>w, KeepQuiet DEF LockPoll, Acquire, Inside
    <2> QED BY <1>1, <2>1, <1>q, <1>t
        DEF LockPoll, Acquire, PollWork, ImageClean, PinsClean, CopiedBut
  <1>2. CASE CopyPoint
    <2>1. PICK a \in Published : Load("poll", "read", a)  BY <1>2 DEF CopyPoint
    <2>2. Quiet'  BY <2>1, <1>o, <1>w, KeepQuiet DEF Load, Visit, Inside
    <2>3. \A b \in Published \ left'["poll"] : buf'["poll"][b] = image[b]
      BY <2>1, <1>w, <1>t, RuntimeAssumption DEF Load, Visit, PollWork, CopiedBut, Images
    <2> QED BY <2>1, <2>2, <2>3, <1>w
        DEF Load, Visit, PollWork, ImageClean, PinsClean, CopiedBut
  <1>3. CASE Apply
    <2>1. Quiet'  BY <1>3, <1>o, <1>w, <1>t, KeepQuiet DEF Apply, Inside
    <2> QED BY <1>3, <2>1, <1>w, <1>t DEF Apply, PollWork, ImageClean, PinsClean, shared
  <1>4. CASE UnlockPoll
    BY <1>4, <1>t DEF UnlockPoll, Release, PollWork, Quiet, ImageClean, PinsClean
  <1>5. CASE NextPoll
    <2>1. Quiet'  BY <1>5, <1>o, <1>w, KeepQuiet DEF NextPoll, Inside
    <2> QED BY <1>5, <2>1, <1>t DEF NextPoll, PollWork
  <1> QED BY <1>1, <1>2, <1>3, <1>4, <1>5 DEF Poll

LEMMA PollRefines ==
  ASSUME CoreOK, MutualExclusion, Work, Poll
  PROVE  Refines
  <1> USE ThreadNames
  <1>f. UNCHANGED modbus  BY PollFrame
  <1>s. Phase' = Phase /\ Status' = Status
    <2>1. "poll" # "main" /\ "poll" \notin Conns  BY RuntimeAssumption
    <2>2. pc'["main"] = pc["main"] /\ \A c \in Conns : pc'[c] = pc[c]
      BY <2>1, PollOthers DEF Others
    <2> QED BY <2>2, PhaseKept, StatusKept
  <1>w. PollWork  BY DEF Work
  <1>1. CASE LockPoll \/ CopyPoint \/ NextPoll
    <2>1. committed' = committed /\ UNCHANGED dnp3
      BY <1>1 DEF LockPoll, CopyPoint, NextPoll, Acquire, Load, Visit, shared
    <2> QED BY <2>1, <1>f, <1>s, Stutters
  <1>2. CASE Apply
    <2>1. /\ pc["poll"] = "read" /\ left["poll"] = {} /\ committed' = committed
          /\ posted' = Append(posted, Restricted(buf["poll"], Published))
          /\ UNCHANGED <<command, database>>
      BY <1>2 DEF Apply, shared
    <2>2. Restricted(buf["poll"], Published) = Abstract!Restricted(committed.image, Published)
      BY <2>1, <1>w DEF PollWork, ImageClean, CopiedBut, Restricted, Abstract!Restricted
    <2>3. Abstract!Poll
      BY <2>1, <2>2, <1>f, <1>s DEF Abstract!Poll, modbus
    <2> QED BY <2>3 DEF Refines, Abstract!Next
  <1>3. CASE UnlockPoll
    <2>1. PinsClean /\ ImageClean  BY <1>3, <1>w DEF UnlockPoll, Release, PollWork
    <2>2. committed' = committed  BY <1>3, <2>1, CleanIs DEF UnlockPoll, Release
    <2>3. UNCHANGED dnp3  BY <1>3 DEF UnlockPoll
    <2> QED BY <2>2, <2>3, <1>f, <1>s, Stutters
  <1> QED BY <1>1, <1>2, <1>3 DEF Poll

LEMMA PoolWorkKept ==
  ASSUME CoreOK, Dnp3OK, MutualExclusion, Work, Pool
  PROVE  PoolWork' /\ Quiet'
  <1> USE ThreadNames
  <1>o. Others("pool")  BY PoolOthers
  <1>t. /\ left["pool"] \in SUBSET Cells /\ image \in Images
        /\ committed.image \in Images
        /\ pc \in [Threads -> Places] /\ left \in [Threads -> SUBSET Cells]
    BY DEF CoreOK, SharedOK, ThreadsOK
  <1>w. PoolWork /\ Quiet  BY DEF Work
  <1>q. lock = Free => ImageClean /\ PinsClean
    BY <1>w DEF MutualExclusion, Quiet
  <1>1. CASE ApplyPosted
    <2>1. Quiet'  BY <1>1, <1>o, <1>w, KeepQuiet DEF ApplyPosted, Inside
    <2> QED BY <1>1, <2>1, <1>w DEF ApplyPosted, PoolWork
  <1>2. CASE ReceiveCommand
    <2>1. Quiet'  BY <1>2, <1>o, <1>w, KeepQuiet DEF ReceiveCommand, Inside
    <2>2. (\E k \in Commands : command' = {k}) /\ pc'["pool"] = "lock"
      BY <1>2, <1>t DEF ReceiveCommand
    <2> QED BY <2>1, <2>2 DEF PoolWork
  <1>3. CASE LockOperate
    <2>1. Quiet'  BY <1>3, <1>o, <1>w, KeepQuiet DEF LockOperate, Acquire, Inside
    <2>2. PICK k \in Commands : command = {k}
      BY <1>3, <1>w DEF LockOperate, Acquire, PoolWork
    <2>3. /\ pc'["pool"] = "operate" /\ left'["pool"] = k.cells /\ lock = Free
          /\ UNCHANGED <<image, pins, committed, command>>
      BY <1>3, <2>2, <1>t DEF LockOperate, Acquire, dnp3
    <2> QED BY <2>1, <2>2, <2>3, <1>q DEF PoolWork, ImageClean, PinsClean, ImageIs
  <1>4. CASE WritePoint
    <2>1. PICK k \in command, a \in Cells : Store("pool", "operate", a, k.val)
      BY <1>4 DEF WritePoint
    <2>2. Quiet'  BY <2>1, <1>o, <1>w, KeepQuiet DEF Store, Visit, Inside
    <2>3. /\ pc["pool"] = "operate" /\ pc' = pc /\ left'["pool"] = left["pool"] \ {a}
          /\ image' = [image EXCEPT ![a] = k.val] /\ a \in left["pool"]
          /\ UNCHANGED <<pins, committed, command>>
      BY <1>4, <2>1, <1>t DEF WritePoint, Store, Visit, dnp3
    <2>4. PICK m \in Commands : command = {m}  BY <2>3, <1>w DEF PoolWork
    <2>5. command = {k}  BY <2>1, <2>4
    <2>6. \A b \in Cells : image'[b] = IF b \in k.cells \ left'["pool"]
                                        THEN k.val ELSE committed.image[b]
      BY <2>3, <2>5, <1>w, <1>t DEF PoolWork, ImageIs, Images
    <2> QED BY <2>2, <2>3, <2>4, <2>5, <2>6, <1>w DEF PoolWork, PinsClean, ImageIs
  <1>5. CASE UnlockOperate
    BY <1>5, <1>t DEF UnlockOperate, Release, PoolWork, Quiet, ImageClean, PinsClean
  <1>6. CASE ReturnLocked
    <2>1. PICK k \in command : k.op = "leak"  BY <1>6 DEF ReturnLocked
    <2>2. k.cells = {}  BY <2>1, RuntimeAssumption DEF Dnp3OK
    <2>3. PinsClean /\ ImageIs({}, [a \in Cells |-> k.val])
      BY <1>6, <2>1, <2>2, <1>w DEF ReturnLocked, PoolWork, ImageIs
    <2>4. ImageClean  BY <2>3, <1>t DEF ImageIs, ImageClean, Images
    <2> QED BY <1>6, <2>3, <2>4, <1>t
        DEF ReturnLocked, PoolWork, Quiet, ImageClean, PinsClean, shared
  <1> QED BY <1>1, <1>2, <1>3, <1>4, <1>5, <1>6 DEF Pool

LEMMA PoolRefines ==
  ASSUME CoreOK, Dnp3OK, MutualExclusion, Work, Pool
  PROVE  Refines
  <1> USE ThreadNames
  <1>t. /\ image \in Images /\ committed.image \in Images /\ pc \in [Threads -> Places]
    BY DEF CoreOK, SharedOK, ThreadsOK
  <1>f. UNCHANGED modbus  BY PoolFrame
  <1>s. Phase' = Phase /\ Status' = Status
    <2>1. "pool" # "main" /\ "pool" \notin Conns  BY RuntimeAssumption
    <2>2. pc'["main"] = pc["main"] /\ \A c \in Conns : pc'[c] = pc[c]
      BY <2>1, PoolOthers DEF Others
    <2> QED BY <2>2, PhaseKept, StatusKept
  <1>w. PoolWork  BY DEF Work
  <1>k. \A k \in command : k.op \in {"operate", "leak"} /\ (k.op = "leak" => k.cells = {})
    BY RuntimeAssumption DEF Dnp3OK
  <1>1. CASE ApplyPosted
    <2>1. Abstract!Publish
      BY <1>1, <1>f, <1>s DEF ApplyPosted, Abstract!Publish, shared, modbus
    <2> QED BY <2>1 DEF Refines, Abstract!Next
  <1>2. CASE ReceiveCommand
    <2>1. command = {} /\ committed' = committed
      BY <1>2, <1>w DEF ReceiveCommand, PoolWork, shared
    <2>2. Abstract!Command
      BY <1>2, <2>1, <1>f, <1>s DEF ReceiveCommand, Abstract!Command, modbus
    <2> QED BY <2>2 DEF Refines, Abstract!Next
  <1>3. CASE LockOperate \/ WritePoint
    <2>1. committed' = committed /\ UNCHANGED dnp3
      BY <1>3 DEF LockOperate, WritePoint, Acquire, Store, Visit
    <2> QED BY <2>1, <1>f, <1>s, Stutters
  <1>4. CASE UnlockOperate
    <2>1. /\ pc["pool"] = "operate" /\ left["pool"] = {} /\ command' = {}
          /\ committed'.image = image /\ committed'.pins = pins /\ UNCHANGED <<posted, database>>
      BY <1>4 DEF UnlockOperate, Release
    <2>2. PICK k \in command : k.op = "operate"
      BY <1>4, <2>1, <1>w DEF UnlockOperate, PoolWork
    <2>3. PinsClean /\ ImageIs(k.cells, [a \in Cells |-> k.val])
      BY <2>1, <1>w DEF PoolWork, ImageIs
    <2>4. image = Abstract!Overlay(committed.image, k.cells, [a \in Cells |-> k.val])
      BY <2>3, OverlayIs
    <2>5. committed'.image = Abstract!EffectOf(k, committed.image)
      BY <2>1, <2>2, <2>4 DEF Abstract!EffectOf, Abstract!Cells, Cells
    <2>6. Abstract!Operate
      BY <2>1, <2>3, <2>5, <1>f, <1>s DEF Abstract!Operate, PinsClean, modbus
    <2> QED BY <2>6 DEF Refines, Abstract!Next
  <1>5. CASE ReturnLocked
    <2>1. committed' = committed /\ command' = {} /\ UNCHANGED <<posted, database>>
      BY <1>5 DEF ReturnLocked, shared
    <2>2. PICK k \in command : k.op = "leak"  BY <1>5 DEF ReturnLocked
    <2>3. committed.image = Abstract!EffectOf(k, committed.image)
      BY <2>2 DEF Abstract!EffectOf
    <2>4. Abstract!Operate
      BY <2>1, <2>3, <1>f, <1>s DEF Abstract!Operate, modbus
    <2> QED BY <2>4 DEF Refines, Abstract!Next
  <1> QED BY <1>1, <1>2, <1>3, <1>4, <1>5 DEF Pool

-----------------------------------------------------------------------------
(* All threads together. *)

Frame == TypeOK /\ MutualExclusion

LEMMA InitWork == Init => Work
  <1> SUFFICES ASSUME Init PROVE Work
    OBVIOUS
  <1>1. /\ pc["main"] = "in_lock" /\ pc["poll"] = "lock" /\ pc["pool"] = "idle"
        /\ \A c \in Conns : pc[c] = "listen"
    BY ThreadNames, RuntimeAssumption DEF Init
  <1>2. ImageClean /\ PinsClean /\ command = {}  BY DEF Init, ImageClean, PinsClean
  <1> QED BY <1>1, <1>2 DEF Work, MainWork, ConnWork, PollWork, PoolWork, Quiet

LEMMA WorkKept == Frame /\ Work /\ [Next]_vars => Work'
  <1> SUFFICES ASSUME TypeOK, MutualExclusion, Work, [Next]_vars PROVE Work'
    BY DEF Frame
  <1> USE ThreadNames
  <1>0. CoreOK /\ ModbusOK /\ Dnp3OK  BY TypeParts
  <1>w. MainWork /\ (\A c \in Conns : ConnWork(c)) /\ PollWork /\ PoolWork  BY DEF Work
  <1>n. "main" \notin Conns /\ "poll" \notin Conns /\ "pool" \notin Conns  BY RuntimeAssumption
  <1>1. CASE Main
    <2>1. MainWork' /\ Quiet'  BY <1>0, <1>1, MainWorkKept
    <2>2. Others("main") /\ UNCHANGED <<modbus, dnp3>>  BY <1>0, <1>1, MainOthers, MainFrame
    <2>3. \A c \in Conns : ConnWork(c)'
      BY <2>2, <1>w, <1>n, KeepConn DEF modbus
    <2>4. PollWork'  BY <2>2, <1>w, KeepPoll
    <2>5. PoolWork'  BY <2>2, <1>w, KeepPool DEF dnp3
    <2> QED BY <2>1, <2>3, <2>4, <2>5 DEF Work
  <1>2. CASE \E c \in Conns : Connection(c)
    <2>1. PICK d \in Conns : Connection(d)  BY <1>2
    <2>2. ConnWork(d)' /\ Quiet'  BY <1>0, <2>1, ConnWorkKept
    <2>3. Others(d) /\ UNCHANGED dnp3  BY <1>0, <2>1, ConnectionOthers, ConnectionFrame
    <2>4. \A c \in Conns \ {d} : request'[c] = request[c]
      BY <1>0, <2>1
      DEF Connection, Receive, Reject, LockRequest, ReadCell, WriteCell, UnlockRequest, Reply,
          modbus, ModbusOK
    <2>5. \A c \in Conns : ConnWork(c)'
      <3>1. \A c \in Conns \ {d} : ConnWork(c)'
        BY <2>3, <2>4, <1>w, KeepConn
      <3> QED BY <2>2, <3>1
    <2>6. MainWork'  BY <2>3, <1>w, <1>n, KeepMain
    <2>7. PollWork'  BY <2>3, <1>w, <1>n, KeepPoll
    <2>8. PoolWork'  BY <2>3, <1>w, <1>n, KeepPool DEF dnp3
    <2> QED BY <2>2, <2>5, <2>6, <2>7, <2>8 DEF Work
  <1>3. CASE Poll
    <2>1. PollWork' /\ Quiet'  BY <1>0, <1>3, PollWorkKept
    <2>2. Others("poll") /\ UNCHANGED modbus  BY <1>0, <1>3, PollOthers, PollFrame
    <2>3. command' = command
      BY <1>3 DEF Poll, LockPoll, CopyPoint, Apply, UnlockPoll, NextPoll, dnp3
    <2>4. \A c \in Conns : ConnWork(c)'
      BY <2>2, <1>w, <1>n, KeepConn DEF modbus
    <2>5. MainWork'  BY <2>2, <1>w, KeepMain
    <2>6. PoolWork'  BY <2>2, <2>3, <1>w, KeepPool
    <2> QED BY <2>1, <2>4, <2>5, <2>6 DEF Work
  <1>4. CASE Pool
    <2>1. PoolWork' /\ Quiet'  BY <1>0, <1>4, PoolWorkKept
    <2>2. Others("pool") /\ UNCHANGED modbus  BY <1>0, <1>4, PoolOthers, PoolFrame
    <2>3. \A c \in Conns : ConnWork(c)'
      BY <2>2, <1>w, <1>n, KeepConn DEF modbus
    <2>4. MainWork'  BY <2>2, <1>w, KeepMain
    <2>5. PollWork'  BY <2>2, <1>w, KeepPoll
    <2> QED BY <2>1, <2>3, <2>4, <2>5 DEF Work
  <1>5. CASE UNCHANGED vars
    BY <1>5
    DEF Work, MainWork, ConnWork, PollWork, PoolWork, Quiet, ImageClean, PinsClean, ImageIs,
        CopiedBut, Inside, vars, shared, modbus, dnp3
  <1> QED BY <1>1, <1>2, <1>3, <1>4, <1>5 DEF Next

LEMMA InitRefines == Init => Abstract!Init
  <1> SUFFICES ASSUME Init PROVE Abstract!Init
    OBVIOUS
  <1>1. committed.image = Initial /\ committed.pins = Restricted(Initial, Outputs)
    BY DEF Init
  <1>2. Initial \in [Abstract!Cells -> Val]
    BY InitialTyped DEF Images, Cells, Abstract!Cells
  <1>3. Restricted(Initial, Outputs) = Abstract!Restricted(Initial, Outputs)
    BY DEF Restricted, Abstract!Restricted
  <1>4. Phase = "sample"  BY ThreadNames DEF Init, Phase
  <1>5. Status = [c \in Conns |-> "idle"]
    <2>1. \A c \in Conns : pc[c] = "listen"
      BY ThreadNames, RuntimeAssumption DEF Init
    <2> QED BY <2>1 DEF Status
  <1>6. request \in [Conns -> Requests]  BY InitTyped DEF TypeOK
  <1>7. answer = [c \in Conns |-> Abstract!Nothing]
    BY EmptyData DEF Init, Nothing, Abstract!Nothing
  <1>8. database \in [Published -> Val]  BY InitTyped DEF TypeOK
  <1> QED BY <1>1, <1>2, <1>3, <1>4, <1>5, <1>6, <1>7, <1>8 DEF Init, Abstract!Init

LEMMA StepRefines == Frame /\ Work /\ [Next]_vars => Refines
  <1> SUFFICES ASSUME TypeOK, MutualExclusion, Work, [Next]_vars PROVE Refines
    BY DEF Frame
  <1>0. CoreOK /\ ModbusOK /\ Dnp3OK  BY TypeParts
  <1>1. CASE Main  BY <1>0, <1>1, MainRefines
  <1>2. CASE \E c \in Conns : Connection(c)  BY <1>0, <1>2, ConnRefines
  <1>3. CASE Poll  BY <1>0, <1>3, PollRefines
  <1>4. CASE Pool  BY <1>0, <1>4, PoolRefines
  <1>5. CASE UNCHANGED vars
    <2>1. pc' = pc /\ committed' = committed /\ UNCHANGED <<modbus, dnp3>>
      BY <1>5 DEF vars, shared
    <2> QED BY <2>1, PhaseKept, StatusKept, Stutters
  <1> QED BY <1>1, <1>2, <1>3, <1>4, <1>5 DEF Next

\* In every state, each section has done exactly the part of its work that it
\* has visited, on top of the image of the last unlock.
THEOREM RuntimeWork == Spec => []Work
  <1>1. Init => Work  BY InitWork
  <1>2. Frame /\ Work /\ [Next]_vars => Work'  BY WorkKept
  <1>3. TypeOK /\ MutualExclusion => Frame  BY DEF Frame
  <1> QED BY <1>1, <1>2, <1>3, RuntimeTypeOK, RuntimeMutualExclusion, PTL DEF Spec

\* The threads implement ProcessImage: the scan phases, the Modbus requests
\* (modbus.cpp), the DNP3 commands and the DNP3 polls (dnp3.cpp) each act on the
\* process image in one indivisible step, for any number of connections, any
\* cells, any requests and commands and any program.
THEOREM RuntimeActsAtomically == Spec => ActsAtomically
  <1>1. Init => Abstract!Init  BY InitRefines
  <1>2. Frame /\ Work /\ [Next]_vars => [Abstract!Next]_(Abstract!absVars)
    BY StepRefines DEF Refines
  <1>3. TypeOK /\ MutualExclusion => Frame  BY DEF Frame
  <1> QED
    BY <1>1, <1>2, <1>3, RuntimeTypeOK, RuntimeMutualExclusion, RuntimeWork, PTL
    DEF Spec, ActsAtomically, Abstract!Spec
=============================================================================
