---------------------------- MODULE ProcessImage ----------------------------
(***************************************************************************)
(* What the run-time promises its program and its remote masters: one      *)
(* process image on which the scan phases, every Modbus request, every     *)
(* DNP3 command and every DNP3 poll each act in one indivisible step,      *)
(* between the moment they are issued and the moment they are answered.    *)
(***************************************************************************)
EXTENDS Sequences, Naturals

CONSTANTS
  Inputs, Outputs, Memory,  \* the cells: %I, %Q and %M
  Published,                \* the cells a DNP3 poll reports
  Val,                      \* what a cell holds
  Conns,                    \* Modbus connections
  Requests,                 \* Modbus requests a client may send
  Commands,                 \* commands a DNP3 master may issue
  Logic(_)                  \* the IEC program: an image to the cells it drives

Cells == Inputs \cup Outputs \cup Memory

VARIABLES
  image,    \* the process image
  pins,     \* the hardware outputs
  phase,    \* the scan phase that comes next
  status,   \* per connection: "idle", "pending" or "done"
  request,  \* per connection: the request being served
  answer,   \* per connection: the answer to send
  command,  \* the DNP3 command being executed: a set of at most one
  posted,   \* polls on their way to the outstation's database
  database  \* what a DNP3 master reads

absVars == <<image, pins, phase, status, request, answer, command, posted, database>>

\* The image once the cells of S take the values of f.
Overlay(img, S, f) == [c \in Cells |-> IF c \in S THEN f[c] ELSE img[c]]

Restricted(img, S) == [c \in S |-> img[c]]

\* A request whose range runs past the last address is served on its valid
\* cells and answered with an exception.
Answer(k, img, S) == [kind |-> k, data |-> Restricted(img, S)]

AnswerTo(r, img) ==
  IF r.op = "reject" \/ r.bad THEN Answer("exception", img, {})
  ELSE Answer("ok", img, IF r.op = "read" THEN r.cells ELSE {})

Nothing == Answer("none", image, {})

EffectOf(r, img) ==
  IF r.op \in {"write", "operate"} THEN Overlay(img, r.cells, [c \in Cells |-> r.val]) ELSE img

Init ==
  /\ image \in [Cells -> Val]
  /\ pins = Restricted(image, Outputs)
  /\ phase = "sample"
  /\ status = [c \in Conns |-> "idle"]
  /\ request \in [Conns -> Requests]
  /\ answer = [c \in Conns |-> Nothing]
  /\ command = {}
  /\ posted = << >>
  /\ database \in [Published -> Val]

\* The inputs take whatever the sensors show; nothing else changes.
Sample ==
  /\ phase = "sample" /\ phase' = "run"
  /\ \E f \in [Inputs -> Val] : image' = Overlay(image, Inputs, f)
  /\ UNCHANGED <<pins, status, request, answer, command, posted, database>>

\* One run of the program on one image.
Run ==
  /\ phase = "run" /\ phase' = "drive"
  /\ image' = Overlay(image, DOMAIN Logic(image), Logic(image))
  /\ UNCHANGED <<pins, status, request, answer, command, posted, database>>

\* The hardware outputs take the image's outputs, all from one image.
Drive ==
  /\ phase = "drive" /\ phase' = "sample"
  /\ pins' = Restricted(image, Outputs)
  /\ UNCHANGED <<image, status, request, answer, command, posted, database>>

Issue(c) ==
  /\ status[c] = "idle"
  /\ status' = [status EXCEPT ![c] = "pending"]
  /\ \E r \in Requests : request' = [request EXCEPT ![c] = r]
  /\ UNCHANGED <<image, pins, phase, answer, command, posted, database>>

Serve(c) ==
  /\ status[c] = "pending"
  /\ status' = [status EXCEPT ![c] = "done"]
  /\ image' = EffectOf(request[c], image)
  /\ answer' = [answer EXCEPT ![c] = AnswerTo(request[c], image)]
  /\ UNCHANGED <<pins, phase, request, command, posted, database>>

Reply(c) ==
  /\ status[c] = "done"
  /\ status' = [status EXCEPT ![c] = "idle"]
  /\ answer' = [answer EXCEPT ![c] = Nothing]
  /\ UNCHANGED <<image, pins, phase, request, command, posted, database>>

\* A DNP3 master issues a command; it is executed later, once.
Command ==
  /\ command = {}
  /\ \E k \in Commands : command' = {k}
  /\ UNCHANGED <<image, pins, phase, status, request, answer, posted, database>>

Operate ==
  /\ \E k \in command : image' = EffectOf(k, image)
  /\ command' = {}
  /\ UNCHANGED <<pins, phase, status, request, answer, posted, database>>

\* A poll reports every published cell as of one image.
Poll ==
  /\ posted' = Append(posted, Restricted(image, Published))
  /\ UNCHANGED <<image, pins, phase, status, request, answer, command, database>>

\* Polls reach the database in the order they were made, none left out.
Publish ==
  /\ posted # << >>
  /\ database' = Head(posted)
  /\ posted' = Tail(posted)
  /\ UNCHANGED <<image, pins, phase, status, request, answer, command>>

Next ==
  \/ Sample \/ Run \/ Drive
  \/ \E c \in Conns : Issue(c) \/ Serve(c) \/ Reply(c)
  \/ Command \/ Operate \/ Poll \/ Publish

Spec == Init /\ [][Next]_absVars
=============================================================================
