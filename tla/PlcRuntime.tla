----------------------------- MODULE PlcRuntime -----------------------------
(***************************************************************************)
(* The threads of the run-time and the one mutex, bufferLock, through      *)
(* which they share the process image:                                     *)
(*   "main"   the scan loop of main.cpp over a hardware layer              *)
(*   Conns    Modbus connection threads (server.cpp, modbus.cpp)           *)
(*   "poll"   the loop of dnp3StartServer() that runs update_vals()        *)
(*   "pool"   the one thread of DNP3Manager: command callbacks and the     *)
(*            updates posted by Apply(), one after the other               *)
(* The image is read and written one cell at a time, in any order.         *)
(***************************************************************************)
EXTENDS Sequences, Naturals

CONSTANTS
  Inputs, Outputs, Memory, Published, Val, Conns, Requests, Commands,
  Logic(_),   \* what the IEC program computes from the cells it has read
  Initial,    \* the located variables' initial values
  MaxPosted   \* bound: polls waiting for the pool thread

Cells == Inputs \cup Outputs \cup Memory
Threads == {"main", "poll", "pool"} \cup Conns
Free == "free"
Images == [Cells -> Val]
Driven == DOMAIN Logic(Initial)

ASSUME RuntimeAssumption ==
  /\ Inputs \cap (Outputs \cup Memory) = {} /\ Outputs \cap Memory = {}
  /\ Published \subseteq Cells
  /\ Conns \cap {"main", "poll", "pool", Free} = {}
  /\ Requests # {} /\ Initial \in Images
  /\ \A r \in Requests : /\ r \in [op : {"read", "write", "reject"}, cells : SUBSET Cells,
                                   val : Val, bad : BOOLEAN]
                         /\ r.op = "write" => r.cells \cap Inputs = {}
  /\ \A k \in Commands : /\ k \in [op : {"operate", "leak"},
                                   cells : SUBSET (Outputs \cup Memory), val : Val]
                         /\ k.op = "leak" => k.cells = {}
  /\ \A img \in Images : Logic(img) \in [Driven -> Val]
  /\ Driven \subseteq Outputs \cup Memory
  /\ MaxPosted \in Nat

VARIABLES
  lock,       \* bufferLock: its owner, or Free
  image,      \* what the buffer pointers point to
  pins,       \* the hardware outputs
  pc,         \* per thread: where it is
  left,       \* per thread: cells still to access in its critical section
  buf,        \* per thread: its local copy of the cells it has read
  request,    \* per connection: the request in its buffer
  answer,     \* per connection: the response in its buffer
  command,    \* the command the pool thread executes, as a set
  posted,     \* updates posted by Apply(), first in first out
  database,   \* the outstation's database
  committed   \* history: the image and the pins at the last unlock

shared == <<lock, image, pins, committed>>
modbus == <<request, answer>>
dnp3 == <<command, posted, database>>
vars == <<shared, pc, left, buf, modbus, dnp3>>

Restricted(img, S) == [c \in S |-> img[c]]

\* A response: what it says, and the cells it carries.
Answer(k, img, S) == [kind |-> k, data |-> Restricted(img, S)]
Nothing == Answer("none", Initial, {})

-----------------------------------------------------------------------------
\* pthread_mutex_lock: thread t enters a section over the cells of S.
Acquire(t, from, to, S) ==
  /\ pc[t] = from /\ lock = Free
  /\ lock' = t
  /\ pc' = [pc EXCEPT ![t] = to]
  /\ left' = [left EXCEPT ![t] = S]
  /\ buf' = [buf EXCEPT ![t] = Initial]
  /\ UNCHANGED <<image, pins, committed>>

\* pthread_mutex_unlock, once every cell of the section has been accessed.
Release(t, from, to) ==
  /\ pc[t] = from /\ left[t] = {}
  /\ lock' = Free
  /\ committed' = [image |-> image, pins |-> pins]
  /\ pc' = [pc EXCEPT ![t] = to]
  /\ buf' = [buf EXCEPT ![t] = Initial]
  /\ UNCHANGED <<image, pins, left>>

\* One cell of a loop over the buffers is done.
Visit(t, at, c) ==
  /\ pc[t] = at /\ c \in left[t]
  /\ left' = [left EXCEPT ![t] = @ \ {c}]
  /\ UNCHANGED <<lock, pc, committed>>

Load(t, at, c) ==
  /\ Visit(t, at, c)
  /\ buf' = [buf EXCEPT ![t][c] = image[c]]
  /\ UNCHANGED <<image, pins>>

Store(t, at, c, v) ==
  /\ Visit(t, at, c)
  /\ image' = [image EXCEPT ![c] = v]
  /\ UNCHANGED <<buf, pins>>

-----------------------------------------------------------------------------
(* The scan loop. *)

LockInputs == Acquire("main", "in_lock", "in", Inputs) /\ UNCHANGED <<modbus, dnp3>>

\* *int_input[i] = read_analog_input(i), and so on
ReadSensor ==
  /\ \E c \in Inputs, v \in Val : Store("main", "in", c, v)
  /\ UNCHANGED <<modbus, dnp3>>

UnlockInputs == Release("main", "in", "run_lock") /\ UNCHANGED <<modbus, dnp3>>

\* Faulty variant of LockProgram: config_run__() without the mutex.
EnterProgram ==
  /\ pc["main"] = "run_lock"
  /\ pc' = [pc EXCEPT !["main"] = "run"]
  /\ left' = [left EXCEPT !["main"] = Cells]
  /\ UNCHANGED <<shared, buf, modbus, dnp3>>

LockProgram == Acquire("main", "run_lock", "run", Cells) /\ UNCHANGED <<modbus, dnp3>>

FetchOperand ==
  /\ \E c \in Cells : Load("main", "run", c)
  /\ UNCHANGED <<modbus, dnp3>>

\* All operands are fetched; the program starts to assign.
Evaluate ==
  /\ pc["main"] = "run" /\ left["main"] = {}
  /\ pc' = [pc EXCEPT !["main"] = "assign"]
  /\ left' = [left EXCEPT !["main"] = Driven]
  /\ UNCHANGED <<shared, buf, modbus, dnp3>>

AssignResult ==
  /\ \E c \in Driven : Store("main", "assign", c, Logic(buf["main"])[c])
  /\ UNCHANGED <<modbus, dnp3>>

UnlockProgram == Release("main", "assign", "out_lock") /\ UNCHANGED <<modbus, dnp3>>

LockOutputs == Acquire("main", "out_lock", "out", Outputs) /\ UNCHANGED <<modbus, dnp3>>

\* write_analog_output(i, *int_output[i]), and so on
DriveActuator ==
  /\ \E c \in Outputs :
       /\ Visit("main", "out", c)
       /\ pins' = [pins EXCEPT ![c] = image[c]]
  /\ UNCHANGED <<image, buf, modbus, dnp3>>

\* Faulty variant of UnlockOutputs: the outputs are written again and again.
RetryOutputs == Release("main", "out", "out_lock") /\ UNCHANGED <<modbus, dnp3>>

UnlockOutputs == Release("main", "out", "sleep") /\ UNCHANGED <<modbus, dnp3>>

\* updateTime(), sleep_until(), glueVars()
NextScan ==
  /\ pc["main"] = "sleep"
  /\ pc' = [pc EXCEPT !["main"] = "in_lock"]
  /\ UNCHANGED <<shared, left, buf, modbus, dnp3>>

Main ==
  \/ LockInputs \/ ReadSensor \/ UnlockInputs
  \/ LockProgram \/ FetchOperand \/ Evaluate \/ AssignResult \/ UnlockProgram
  \/ LockOutputs \/ DriveActuator \/ UnlockOutputs \/ NextScan

-----------------------------------------------------------------------------
(* A Modbus connection thread. *)

\* listenToClient() returns a request; one that is too short, asks for too
\* much or has an unknown function code is answered without the lock.
Receive(c) ==
  /\ pc[c] = "listen"
  /\ \E r \in Requests :
       /\ request' = [request EXCEPT ![c] = r]
       /\ pc' = [pc EXCEPT ![c] = IF r.op = "reject" THEN "reject" ELSE "lock"]
  /\ UNCHANGED <<shared, left, buf, answer, dnp3>>

\* Faulty variant of Reject: it returns without building a response.
RejectSilently(c) ==
  /\ pc[c] = "reject"
  /\ pc' = [pc EXCEPT ![c] = "listen"]
  /\ UNCHANGED <<shared, left, buf, request, answer, dnp3>>

\* Faulty variant of Reject: the buffer still holds the request.
RejectUnmarked(c) ==
  /\ pc[c] = "reject"
  /\ answer' = [answer EXCEPT ![c] = request[c]]
  /\ pc' = [pc EXCEPT ![c] = "reply"]
  /\ UNCHANGED <<shared, left, buf, request, dnp3>>

Reject(c) ==
  /\ pc[c] = "reject"
  /\ answer' = [answer EXCEPT ![c] = Answer("exception", Initial, {})]
  /\ pc' = [pc EXCEPT ![c] = "reply"]
  /\ UNCHANGED <<shared, left, buf, request, dnp3>>

LockRequest(c) == Acquire(c, "lock", "serve", request[c].cells) /\ UNCHANGED <<modbus, dnp3>>

ReadCell(c) ==
  /\ request[c].op = "read"
  /\ \E a \in Cells : Load(c, "serve", a)
  /\ UNCHANGED <<modbus, dnp3>>

WriteCell(c) ==
  /\ request[c].op = "write"
  /\ \E a \in Cells : Store(c, "serve", a, request[c].val)
  /\ UNCHANGED <<modbus, dnp3>>

\* The valid addresses have been served before an invalid one is reported.
UnlockRequest(c) ==
  /\ Release(c, "serve", "reply")
  /\ answer' = [answer EXCEPT ![c] =
       IF request[c].bad THEN Answer("exception", Initial, {})
       ELSE Answer("ok", buf[c], IF request[c].op = "read" THEN request[c].cells ELSE {})]
  /\ UNCHANGED <<request, dnp3>>

\* write(client_fd, buffer, messageSize)
Reply(c) ==
  /\ pc[c] = "reply"
  /\ pc' = [pc EXCEPT ![c] = "listen"]
  /\ answer' = [answer EXCEPT ![c] = Nothing]
  /\ UNCHANGED <<shared, left, buf, request, dnp3>>

Connection(c) ==
  \/ Receive(c) \/ Reject(c) \/ LockRequest(c) \/ ReadCell(c) \/ WriteCell(c)
  \/ UnlockRequest(c) \/ Reply(c)

-----------------------------------------------------------------------------
(* DNP3: the polling loop ... *)

\* Faulty variant of LockPoll: the loop over the points misses one.
LockPollShort ==
  /\ Len(posted) < MaxPosted
  /\ Acquire("poll", "lock", "read", Published \ {CHOOSE c \in Published : TRUE})
  /\ UNCHANGED <<modbus, dnp3>>

LockPoll ==
  /\ Len(posted) < MaxPosted
  /\ Acquire("poll", "lock", "read", Published)
  /\ UNCHANGED <<modbus, dnp3>>

CopyPoint ==
  /\ \E a \in Published : Load("poll", "read", a)
  /\ UNCHANGED <<modbus, dnp3>>

\* outstation->Apply() posts the update and returns, the lock still held.
Apply ==
  /\ pc["poll"] = "read" /\ left["poll"] = {}
  /\ posted' = Append(posted, Restricted(buf["poll"], Published))
  /\ pc' = [pc EXCEPT !["poll"] = "unlock"]
  /\ UNCHANGED <<shared, left, buf, modbus, command, database>>

UnlockPoll == Release("poll", "unlock", "sleep") /\ UNCHANGED <<modbus, dnp3>>

NextPoll ==
  /\ pc["poll"] = "sleep"
  /\ pc' = [pc EXCEPT !["poll"] = "lock"]
  /\ UNCHANGED <<shared, left, buf, modbus, dnp3>>

Poll == LockPoll \/ CopyPoint \/ Apply \/ UnlockPoll \/ NextPoll

(* ... and the pool thread. *)

\* A posted update reaches the database.
ApplyPosted ==
  /\ pc["pool"] = "idle" /\ posted # << >>
  /\ database' = Head(posted)
  /\ posted' = Tail(posted)
  /\ UNCHANGED <<shared, pc, left, buf, modbus, command>>

\* A command arrives; the callback is Operate().
ReceiveCommand ==
  /\ pc["pool"] = "idle"
  /\ \E k \in Commands : command' = {k}
  /\ pc' = [pc EXCEPT !["pool"] = "lock"]
  /\ UNCHANGED <<shared, left, buf, modbus, posted, database>>

LockOperate ==
  /\ \E k \in command : Acquire("pool", "lock", "operate", k.cells)
  /\ UNCHANGED <<modbus, dnp3>>

WritePoint ==
  /\ \E k \in command, a \in Cells : Store("pool", "operate", a, k.val)
  /\ UNCHANGED <<modbus, dnp3>>

UnlockOperate ==
  /\ \A k \in command : k.op = "operate"
  /\ Release("pool", "operate", "idle")
  /\ command' = {}
  /\ UNCHANGED <<modbus, posted, database>>

\* return CommandStatus::OUT_OF_RANGE between lock and unlock.
ReturnLocked ==
  /\ pc["pool"] = "operate" /\ \E k \in command : k.op = "leak"
  /\ pc' = [pc EXCEPT !["pool"] = "idle"]
  /\ command' = {}
  /\ UNCHANGED <<shared, left, buf, modbus, posted, database>>

Pool == ApplyPosted \/ ReceiveCommand \/ LockOperate \/ WritePoint \/ UnlockOperate \/ ReturnLocked

-----------------------------------------------------------------------------
Init ==
  /\ lock = Free /\ image = Initial
  /\ pins = Restricted(Initial, Outputs)
  /\ pc = [t \in Threads |-> CASE t = "main" -> "in_lock" [] t = "poll" -> "lock"
                               [] t = "pool" -> "idle" [] OTHER -> "listen"]
  /\ left = [t \in Threads |-> {}]
  /\ buf = [t \in Threads |-> Initial]
  /\ request = [c \in Conns |-> CHOOSE r \in Requests : TRUE]
  /\ answer = [c \in Conns |-> Nothing]
  /\ command = {} /\ posted = << >>
  /\ database = Restricted(Initial, Published)
  /\ committed = [image |-> Initial, pins |-> Restricted(Initial, Outputs)]

Next == Main \/ Poll \/ Pool \/ \E c \in Conns : Connection(c)

Spec == Init /\ [][Next]_vars

\* A thread that runs does not stop between two statements.  The mutex is not
\* fair, but every thread leaves it alone for long (the scan and the polls
\* sleep, connections wait for their client), so one that waits for it gets it
\* in the end.  Asio runs the posted updates of a strand in their order.
Fairness ==
  /\ WF_vars(Main) /\ SF_vars(LockInputs) /\ SF_vars(LockProgram) /\ SF_vars(LockOutputs)
  /\ \A c \in Conns :
       /\ WF_vars(Reject(c) \/ ReadCell(c) \/ WriteCell(c) \/ UnlockRequest(c) \/ Reply(c))
       /\ SF_vars(LockRequest(c))
  /\ WF_vars(Poll) /\ SF_vars(LockPoll)
  /\ WF_vars(WritePoint \/ UnlockOperate \/ ReturnLocked)
  /\ SF_vars(LockOperate) /\ SF_vars(ApplyPosted)

FairSpec == Spec /\ Fairness

-----------------------------------------------------------------------------
Answers == [kind : {"none", "ok", "exception"}, data : UNION {[S -> Val] : S \in SUBSET Cells}]

Places == {"in_lock", "in", "run_lock", "run", "assign", "out_lock", "out", "sleep", "listen",
           "reject", "lock", "serve", "reply", "read", "unlock", "idle", "operate"}

TypeOK ==
  /\ lock \in Threads \cup {Free}
  /\ image \in Images /\ pins \in [Outputs -> Val]
  /\ pc \in [Threads -> Places]
  /\ left \in [Threads -> SUBSET Cells] /\ buf \in [Threads -> Images]
  /\ request \in [Conns -> Requests] /\ answer \in [Conns -> Answers]
  /\ command \in SUBSET Commands
  /\ posted \in Seq([Published -> Val]) /\ database \in [Published -> Val]
  /\ committed \in [image : Images, pins : [Outputs -> Val]]

\* Where a thread is between lock and unlock.
Inside(t) == pc[t] \in {"in", "run", "assign", "out", "serve", "read", "unlock", "operate"}

\* Only the owner of bufferLock is in a critical section, and a free lock means
\* that nobody is: no interleaving of the scan, the Modbus threads and the two
\* DNP3 threads lets two of them access the image at once.
MutualExclusion == \A t \in Threads : Inside(t) => lock = t

\* A free lock leaves the image as the last unlock left it: nothing writes the
\* image outside a critical section.
NoStrayWrite == lock = Free => committed = [image |-> image, pins |-> pins]

\* The scan phase that comes next, and what each connection waits for.
Phase ==
  CASE pc["main"] \in {"in_lock", "in", "sleep"} -> "sample"
    [] pc["main"] \in {"run_lock", "run", "assign"} -> "run"
    [] OTHER -> "drive"

Status == [c \in Conns |-> CASE pc[c] = "listen" -> "idle" [] pc[c] = "reply" -> "done"
                             [] OTHER -> "pending"]

Abstract == INSTANCE ProcessImage WITH
  image <- committed.image, pins <- committed.pins, phase <- Phase, status <- Status

\* Every scan phase, request, command and poll takes effect at one moment,
\* its unlock (ProcessImage): a program run sees no half-written request, a
\* multi-register answer and a DNP3 poll are of one image, and polls reach
\* the database in order.
ActsAtomically == Abstract!Spec

\* The scan is run over and over, whatever the remote masters do.
ScanRecurs == []<>(pc["main"] = "sleep")

\* Every Modbus request is answered.
RequestsAnswered ==
  \A c \in Conns : pc[c] \in {"reject", "lock"} ~> pc[c] = "reply"

\* The outstation's database catches up with a cell that stops changing, even
\* when older polls were still queued behind a command.
DatabaseCatchesUp ==
  \A c \in Published, v \in Val : <>[](image[c] = v) => <>[](database[c] = v)
=============================================================================
