---------------------------- MODULE ModbusServer ----------------------------
(***************************************************************************)
(* The Modbus/TCP server of server.cpp: the accept loop, the descriptor it *)
(* hands to each connection thread through one stack slot, the connection  *)
(* threads, the global MessageLength every one of them returns its         *)
(* response size through, and clients that connect, send, retry and leave. *)
(*                                                                         *)
(* A request is numbered by its client and travels in Pieces pieces; the   *)
(* length of a response is named by the client it is for.                  *)
(***************************************************************************)
EXTENDS Sequences, Naturals

CONSTANTS
  Clients, Workers,  \* clients, and the threads pthread_create() can create
  Fds,               \* descriptors accept() can return, a set of naturals
  MaxRequests,       \* bound: requests a client sends
  Pieces,            \* TCP segments a request arrives in
  MaxUnanswered,     \* requests a client sends before it waits for an answer
  Staggered          \* TRUE: nobody connects while a thread is starting

NoOne == "none"

ASSUME ServerAssumption ==
  /\ Fds \subseteq Nat /\ Clients \cap {NoOne, "zero", "error"} = {}
  /\ MaxRequests \in Nat /\ Pieces \in 1..2 /\ MaxUnanswered \in Nat \ {0}
  /\ Staggered \in BOOLEAN

VARIABLES
  alive,          \* the process exists
  accepting,      \* the listener: in accept(), or about to create a thread
  slot,           \* int arguments[1] of startServer()
  files,          \* descriptor table: the client behind each descriptor
  MessageLength,  \* modbus.cpp's global
  worker,         \* the connection threads
  client,         \* how each client's end of its connection is
  sent,           \* per client: requests sent
  wire,           \* per client: pieces sent and not read
  got             \* per client: the answers that reached it

vars == <<alive, accepting, slot, files, MessageLength, worker, client, sent, wire, got>>

\* serves: the client a thread was created for; fd: the descriptor it uses;
\* message: what its buffer holds; size: what processModbusMessage() returned.
Idle == [pc |-> "unborn", serves |-> NoOne, fd |-> 0, message |-> << >>, size |-> "zero"]

FreeFds == {d \in Fds : files[d] = NoOne}

-----------------------------------------------------------------------------
(* Clients. *)

Connect(c) ==
  /\ client[c] = "away"
  /\ Staggered => /\ accepting /\ \A w \in Workers : worker[w].pc # "start"
                  /\ \A d \in Clients : client[d] # "queued"
  /\ client' = [client EXCEPT ![c] = "queued"]
  /\ UNCHANGED <<alive, accepting, slot, files, MessageLength, worker, sent, wire, got>>

\* A client that has waited long enough sends again without an answer.
Send(c) ==
  /\ client[c] = "open" /\ sent[c] < MaxRequests
  /\ sent[c] - Len(got[c]) < MaxUnanswered
  /\ sent' = [sent EXCEPT ![c] = @ + 1]
  /\ wire' = [wire EXCEPT ![c] = @ \o [p \in 1..Pieces |-> <<sent'[c], p>>]]
  /\ UNCHANGED <<alive, accepting, slot, files, MessageLength, worker, client, got>>

Leave(c) ==
  /\ client[c] = "open"
  /\ client' = [client EXCEPT ![c] = "closed"]
  /\ UNCHANGED <<alive, accepting, slot, files, MessageLength, worker, sent, wire, got>>

-----------------------------------------------------------------------------
(* startServer(). *)

\* accept() returns the lowest free descriptor, or fails when there is none.
Accept(c) ==
  /\ alive /\ accepting /\ client[c] = "queued"
  /\ \E d \in FreeFds :
       /\ \A e \in FreeFds : d <= e
       /\ slot' = d
       /\ files' = [files EXCEPT ![d] = c]
  /\ client' = [client EXCEPT ![c] = "open"]
  /\ accepting' = FALSE
  /\ UNCHANGED <<alive, MessageLength, worker, sent, wire, got>>

CreateThread ==
  /\ alive /\ ~accepting
  /\ \E w \in Workers :
       /\ worker[w].pc = "unborn"
       /\ worker' = [worker EXCEPT ![w] = [Idle EXCEPT !.pc = "start", !.serves = files[slot]]]
  /\ accepting' = TRUE
  /\ UNCHANGED <<alive, slot, files, MessageLength, client, sent, wire, got>>

\* pthread_create() fails: the descriptor is neither served nor closed.
ThreadLimit ==
  /\ alive /\ ~accepting /\ \A w \in Workers : worker[w].pc # "unborn"
  /\ accepting' = TRUE
  /\ UNCHANGED <<alive, slot, files, MessageLength, worker, client, sent, wire, got>>

-----------------------------------------------------------------------------
(* handleConnections(). *)

\* int client_fd = *(int *)arguments: whatever the slot holds by now.
ReadSlot(w) ==
  /\ alive /\ worker[w].pc = "start"
  /\ worker' = [worker EXCEPT ![w].pc = "read", ![w].fd = slot]
  /\ UNCHANGED <<alive, accepting, slot, files, MessageLength, client, sent, wire, got>>

Peer(w) == files[worker[w].fd]

\* Faulty variant of listenToClient: what was read is not taken off the stream.
listenToClientPeek(w) ==
  /\ alive /\ worker[w].pc = "read" /\ Peer(w) \in Clients /\ wire[Peer(w)] # << >>
  /\ \E n \in 1..Len(wire[Peer(w)]) :
       worker' = [worker EXCEPT ![w].pc = "zero", ![w].message = SubSeq(wire[Peer(w)], 1, n)]
  /\ UNCHANGED <<alive, accepting, slot, files, MessageLength, client, sent, wire, got>>

\* read() returns what has arrived, one piece or several requests.
listenToClient(w) ==
  /\ alive /\ worker[w].pc = "read" /\ Peer(w) \in Clients /\ wire[Peer(w)] # << >>
  /\ \E n \in 1..Len(wire[Peer(w)]) :
       /\ worker' = [worker EXCEPT ![w].pc = "zero", ![w].message = SubSeq(wire[Peer(w)], 1, n)]
       /\ wire' = [wire EXCEPT ![Peer(w)] = SubSeq(@, n + 1, Len(@))]
  /\ UNCHANGED <<alive, accepting, slot, files, MessageLength, client, sent, got>>

\* Faulty variant of EndOfStream: only a result of 0 ends the loop, not -1.
EndOfStreamOnly(w) ==
  /\ alive /\ worker[w].pc = "read"
  /\ Peer(w) \in Clients /\ wire[Peer(w)] = << >> /\ client[Peer(w)] = "closed"
  /\ worker' = [worker EXCEPT ![w].pc = "close"]
  /\ UNCHANGED <<alive, accepting, slot, files, MessageLength, client, sent, wire, got>>

\* Faulty variant of EndOfStream: the error branch closes too, before Close.
EndOfStreamCloses(w) ==
  /\ alive /\ worker[w].pc = "read"
  /\ Peer(w) \in Clients => wire[Peer(w)] = << >> /\ client[Peer(w)] \in {"closed", "reset"}
  /\ files' = [files EXCEPT ![worker[w].fd] = NoOne]
  /\ worker' = [worker EXCEPT ![w].pc = "close"]
  /\ UNCHANGED <<alive, accepting, slot, MessageLength, client, sent, wire, got>>

\* read() returns 0 at the end of the stream and -1 on a dead descriptor.
EndOfStream(w) ==
  /\ alive /\ worker[w].pc = "read"
  /\ Peer(w) \in Clients => wire[Peer(w)] = << >> /\ client[Peer(w)] \in {"closed", "reset"}
  /\ worker' = [worker EXCEPT ![w].pc = "close"]
  /\ UNCHANGED <<alive, accepting, slot, files, MessageLength, client, sent, wire, got>>

\* MessageLength = 0
ZeroLength(w) ==
  /\ alive /\ worker[w].pc = "zero"
  /\ MessageLength' = "zero"
  /\ worker' = [worker EXCEPT ![w].pc = "process"]
  /\ UNCHANGED <<alive, accepting, slot, files, client, sent, wire, got>>

\* The request that a message starts with; a piece of one is not a request.
Whole(m) == Len(m) >= Pieces /\ \A p \in 1..Pieces : m[p] = <<m[1][1], p>>
LengthFor(w) == IF Whole(worker[w].message) THEN worker[w].serves ELSE "error"

\* The function code's handler, ending in its assignment to MessageLength.
Process(w) ==
  /\ alive /\ worker[w].pc = "process"
  /\ MessageLength' = LengthFor(w)
  /\ worker' = [worker EXCEPT ![w].pc = "return"]
  /\ UNCHANGED <<alive, accepting, slot, files, client, sent, wire, got>>

\* return MessageLength
ReturnLength(w) ==
  /\ alive /\ worker[w].pc = "return"
  /\ worker' = [worker EXCEPT ![w].pc = "write", ![w].size = MessageLength]
  /\ UNCHANGED <<alive, accepting, slot, files, MessageLength, client, sent, wire, got>>

\* What the message asks for: a request's number, or 0 for an exception.
Asked(m) == IF Whole(m) THEN m[1][1] ELSE 0

\* write(client_fd, buffer, messageSize).  The first write to a peer that has
\* closed provokes a reset, a write after that raises SIGPIPE.
WriteAnswer(w) ==
  /\ alive /\ worker[w].pc = "write"
  /\ worker' = [worker EXCEPT ![w].pc = "read", ![w].message = << >>, ![w].size = "zero"]
  /\ \/ /\ Peer(w) \in Clients /\ client[Peer(w)] = "open"
        /\ got' = [got EXCEPT ![Peer(w)] =
                     Append(@, [of |-> worker[w].serves, request |-> Asked(worker[w].message)])]
        /\ UNCHANGED <<alive, client>>
     \/ /\ Peer(w) \in Clients /\ client[Peer(w)] = "closed"
        /\ client' = [client EXCEPT ![Peer(w)] = "reset"]
        /\ UNCHANGED <<alive, got>>
     \/ /\ Peer(w) \in Clients /\ client[Peer(w)] = "reset"
        /\ alive' = FALSE
        /\ UNCHANGED <<client, got>>
     \/ /\ Peer(w) \notin Clients /\ UNCHANGED <<alive, client, got>>
  /\ UNCHANGED <<accepting, slot, files, MessageLength, sent, wire>>

\* close(client_fd), whoever the descriptor belongs to by now.
Close(w) ==
  /\ alive /\ worker[w].pc = "close"
  /\ files' = [files EXCEPT ![worker[w].fd] = NoOne]
  /\ client' = [c \in Clients |-> IF c = Peer(w) THEN "gone" ELSE client[c]]
  /\ wire' = [c \in Clients |-> IF c = Peer(w) THEN << >> ELSE wire[c]]
  /\ worker' = [worker EXCEPT ![w] = Idle]
  /\ UNCHANGED <<alive, accepting, slot, MessageLength, sent, got>>

Handle(w) ==
  \/ ReadSlot(w) \/ listenToClient(w) \/ EndOfStream(w) \/ ZeroLength(w) \/ Process(w)
  \/ ReturnLength(w) \/ WriteAnswer(w) \/ Close(w)

-----------------------------------------------------------------------------
Init ==
  /\ alive = TRUE /\ accepting = TRUE
  /\ slot = 0
  /\ files = [d \in Fds |-> NoOne]
  /\ MessageLength = "zero"
  /\ worker = [w \in Workers |-> Idle]
  /\ client = [c \in Clients |-> "away"]
  /\ sent = [c \in Clients |-> 0]
  /\ wire = [c \in Clients |-> << >>]
  /\ got = [c \in Clients |-> << >>]

startServer == (\E c \in Clients : Accept(c)) \/ CreateThread \/ ThreadLimit

Next ==
  \/ \E c \in Clients : Connect(c) \/ Send(c) \/ Leave(c)
  \/ startServer
  \/ \E w \in Workers : Handle(w)

Spec == Init /\ [][Next]_vars

\* Threads run, and clients leave in the end; nobody need connect or send.
Fairness ==
  /\ WF_vars(startServer)
  /\ \A c \in Clients : SF_vars(Accept(c)) /\ WF_vars(Leave(c))
  /\ \A w \in Workers : WF_vars(Handle(w))

FairSpec == Spec /\ Fairness

-----------------------------------------------------------------------------
Started(w) == worker[w].pc \notin {"unborn", "start"}

\* A connection thread works on the connection it was created for, from its
\* first read to its close: the descriptor it copied out of the slot is still
\* that client's, neither overwritten by a later accept nor closed and reused.
HandledByOwnThread ==
  \A w \in Workers : alive /\ Started(w) => Peer(w) = worker[w].serves

\* The answers a client gets are to its own requests, in the order it sent
\* them and none twice, even when a retry shares a read with its original.
AnswersInOrder ==
  \A c \in Clients : \A i \in 1..Len(got[c]) :
    /\ got[c][i].of = c
    /\ \A j \in 1..(i - 1) : got[c][j].request < got[c][i].request

\* A client that goes away ends its own connection, not the controller: what is
\* written to it after it has left is one answer at most.  This holds where a
\* client waits for each answer and a request arrives in one piece.
ClientLossIsLocal == alive

\* The descriptor of a client that has left is closed in the end, and a client
\* that waits for accept() gets in, whatever the descriptor and thread limits.
DescriptorsReclaimed ==
  \A c \in Clients : client[c] = "queued" ~> client[c] = "gone"
=============================================================================
