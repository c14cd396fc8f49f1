------------------------ MODULE ModbusServer_proofs ------------------------
(***************************************************************************)
(* Proofs about ModbusServer, for any clients, threads, descriptors and    *)
(* requests: as long as nobody connects while a thread is starting, every  *)
(* connection thread keeps to the connection it was created for.  With     *)
(* requests that arrive in one piece its answers are in order, and with    *)
(* clients that wait for each answer no write finds a peer reset.          *)
(***************************************************************************)
EXTENDS ModbusServer, TLAPS

Stages == {"unborn", "start", "read", "zero", "process", "return", "write", "close"}
Messages == Seq(Nat \X Nat)
Sizes == Clients \cup {NoOne, "zero", "error"}
Threads == [pc : Stages, serves : Clients \cup {NoOne}, fd : Fds \cup {0},
            message : Messages, size : Sizes]
Ends == {"away", "queued", "open", "closed", "reset", "gone"}

\* What the variables are.
Shape ==
  /\ slot \in Fds \cup {0}
  /\ files \in [Fds -> Clients \cup {NoOne}]
  /\ MessageLength \in Sizes
  /\ worker \in [Workers -> Threads]
  /\ client \in [Clients -> Ends]
  /\ sent \in [Clients -> Nat]
  /\ wire \in [Clients -> Messages]

Starting(w) == worker[w].pc = "start"

\* A started thread does not use the descriptor in the slot.
SlotUnused == \A w \in Workers : Started(w) => worker[w].fd # slot

\* Between accept() and pthread_create() the slot names a client that no
\* thread serves, and no other thread is starting.
HandOver ==
  ~accepting => /\ slot \in Fds /\ files[slot] \in Clients
                /\ SlotUnused
                /\ \A w \in Workers : ~Starting(w)

\* A starting thread will find its own client's descriptor in the slot.
Awaited ==
  \A w \in Workers : Starting(w) =>
    /\ accepting
    /\ slot \in Fds /\ files[slot] \in Clients /\ worker[w].serves = files[slot]
    /\ SlotUnused
    /\ \A v \in Workers : Starting(v) => v = w

\* Started threads have descriptors of their own, open on their own clients.
Owned ==
  \A w \in Workers : Started(w) =>
    /\ worker[w].fd \in Fds
    /\ worker[w].serves \in Clients /\ files[worker[w].fd] = worker[w].serves
    /\ \A v \in Workers : Started(v) /\ worker[v].fd = worker[w].fd => v = w

\* The assumption on the clients: who waits for accept() waits alone, and no
\* thread is about to read the slot.
Alone ==
  \A c \in Clients : client[c] = "queued" =>
    /\ accepting /\ \A w \in Workers : ~Starting(w)
    /\ \A d \in Clients : client[d] = "queued" => d = c

Handed == Shape /\ HandOver /\ Awaited /\ Owned /\ Alone

-----------------------------------------------------------------------------
LEMMA NoOneIsNoClient == NoOne \notin Clients
  BY ServerAssumption DEF NoOne

LEMMA IdleIsThread == Idle \in Threads
  BY DEF Idle, Threads, Stages, Messages, Sizes

\* A read takes a prefix off the stream.
LEMMA PrefixIsMessage ==
  ASSUME NEW m \in Messages, NEW n \in 1..Len(m)
  PROVE  SubSeq(m, 1, n) \in Messages /\ SubSeq(m, n + 1, Len(m)) \in Messages
  <1> DEFINE S == Nat \X Nat
  <1>1. m \in Seq(S) /\ Len(m) \in Nat  BY DEF Messages
  <1> HIDE DEF S
  <1>2. \A k \in 1..Len(m) : m[k] \in S  BY <1>1
  <1>3. SubSeq(m, 1, n) \in Seq(S)  BY <1>1, <1>2
  <1>4. SubSeq(m, n + 1, Len(m)) \in Seq(S)  BY <1>1, <1>2
  <1> QED BY <1>3, <1>4 DEF Messages, S

\* A step that leaves the slot, the descriptors, the clients that wait, and
\* who serves whom with what as they are.
LEMMA Keeps ==
  ASSUME Handed, Shape', UNCHANGED <<accepting, slot, files>>,
         \A w \in Workers : /\ worker'[w].serves = worker[w].serves
                            /\ worker'[w].fd = worker[w].fd
                            /\ Started(w)' <=> Started(w)
                            /\ Starting(w)' <=> Starting(w),
         \A c \in Clients : client'[c] = "queued" => client[c] = "queued"
  PROVE  Handed'
  <1>1. SlotUnused => SlotUnused'  BY DEF SlotUnused
  <1>2. HandOver'  BY <1>1 DEF Handed, HandOver
  <1>3. Awaited'  BY <1>1 DEF Handed, Awaited
  <1>4. Owned'  BY DEF Handed, Owned
  <1>5. Alone'  BY DEF Handed, Alone
  <1> QED BY <1>2, <1>3, <1>4, <1>5 DEF Handed

LEMMA InitHanded == Init => Handed
  <1> SUFFICES ASSUME Init PROVE Handed
    OBVIOUS
  <1>1. Shape
    BY IdleIsThread DEF Init, Shape, Sizes, Ends, Messages
  <1>2. \A w \in Workers : worker[w].pc = "unborn"  BY DEF Init, Idle
  <1>3. HandOver  BY DEF Init, HandOver
  <1>4. Awaited  BY <1>2 DEF Awaited, Starting
  <1>5. Owned  BY <1>2 DEF Owned, Started
  <1>6. Alone  BY DEF Init, Alone
  <1> QED BY <1>1, <1>3, <1>4, <1>5, <1>6 DEF Handed

-----------------------------------------------------------------------------
(* Clients. *)

LEMMA ConnectHanded ==
  ASSUME Staggered, Handed, NEW c \in Clients, Connect(c)
  PROVE  Handed'
  <1>1. Shape'  BY DEF Handed, Shape, Connect, Ends
  <1>2. UNCHANGED <<accepting, slot, files, worker>>  BY DEF Connect
  <1>3. SlotUnused => SlotUnused'  BY <1>2 DEF SlotUnused, Started
  <1>4. HandOver'  BY <1>2, <1>3 DEF Handed, HandOver, Starting
  <1>5. Awaited'  BY <1>2, <1>3 DEF Handed, Awaited, Starting
  <1>6. Owned'  BY <1>2 DEF Handed, Owned, Started
  <1>7. Alone'  BY <1>2 DEF Handed, Alone, Connect, Starting, Shape
  <1> QED BY <1>1, <1>4, <1>5, <1>6, <1>7 DEF Handed

LEMMA SendHanded ==
  ASSUME Handed, NEW c \in Clients, Send(c)
  PROVE  Handed'
  <1>1. Pieces \in 1..2  BY ServerAssumption
  <1>2. sent' \in [Clients -> Nat]  BY DEF Handed, Shape, Send
  <1>3. [p \in 1..Pieces |-> <<sent'[c], p>>] \in Messages
    BY <1>1, <1>2 DEF Messages
  <1>4. wire' \in [Clients -> Messages]
    BY <1>3 DEF Handed, Shape, Send, Messages
  <1>5. Shape'  BY <1>2, <1>4 DEF Handed, Shape, Send
  <1> QED BY <1>5, Keeps DEF Send, Started, Starting

LEMMA LeaveHanded ==
  ASSUME Handed, NEW c \in Clients, Leave(c)
  PROVE  Handed'
  <1>1. Shape'  BY DEF Handed, Shape, Leave, Ends
  <1>2. \A d \in Clients : client'[d] = "queued" => client[d] = "queued"
    BY DEF Handed, Shape, Leave
  <1> QED BY <1>1, <1>2, Keeps DEF Leave, Started, Starting

-----------------------------------------------------------------------------
(* startServer(). *)

LEMMA AcceptHanded ==
  ASSUME Handed, NEW c \in Clients, Accept(c)
  PROVE  Handed'
  <1>0. PICK d \in FreeFds : slot' = d /\ files' = [files EXCEPT ![d] = c]
    BY DEF Accept
  <1>1. d \in Fds /\ files[d] = NoOne  BY DEF FreeFds
  <1>2. slot' = d /\ files'[d] = c /\ ~accepting' /\ UNCHANGED worker
    BY <1>0, <1>1 DEF Accept, Handed, Shape
  <1>3. Shape'  BY <1>0, <1>1 DEF Handed, Shape, Accept, Ends
  <1>4. \A w \in Workers : ~Starting(w)  BY DEF Handed, Alone, Accept
  <1>5. \A w \in Workers : Started(w) => worker[w].fd # d
    BY <1>1, NoOneIsNoClient DEF Handed, Owned
  <1>6. \A e \in Clients : client'[e] # "queued"
    BY DEF Handed, Alone, Shape, Accept
  <1>7. HandOver'  BY <1>1, <1>2, <1>4, <1>5 DEF HandOver, SlotUnused, Started, Starting
  <1>8. Awaited'  BY <1>2, <1>4 DEF Awaited, Starting
  <1>9. Owned'
    <2>1. \A e \in Fds \ {d} : files'[e] = files[e]  BY <1>0, <1>1 DEF Handed, Shape
    <2> QED BY <2>1, <1>2, <1>5 DEF Handed, Owned, Started
  <1>10. Alone'  BY <1>6 DEF Alone
  <1> QED BY <1>3, <1>7, <1>8, <1>9, <1>10 DEF Handed

LEMMA CreateThreadHanded ==
  ASSUME Handed, CreateThread
  PROVE  Handed'
  <1>1. PICK w \in Workers :
          /\ worker[w].pc = "unborn"
          /\ worker' = [worker EXCEPT ![w] = [Idle EXCEPT !.pc = "start", !.serves = files[slot]]]
    BY DEF CreateThread
  <1>2. /\ slot \in Fds /\ files[slot] \in Clients /\ SlotUnused
        /\ \A v \in Workers : ~Starting(v)
    BY DEF Handed, HandOver, CreateThread
  <1>3. [Idle EXCEPT !.pc = "start", !.serves = files[slot]] \in Threads
    BY <1>2, IdleIsThread DEF Threads, Stages
  <1>4. Shape'  BY <1>1, <1>3 DEF Handed, Shape, CreateThread
  <1>5. worker'[w].pc = "start" /\ worker'[w].serves = files[slot]
    BY <1>1, IdleIsThread DEF Handed, Shape, Threads
  <1>6. \A v \in Workers \ {w} : worker'[v] = worker[v]
    BY <1>1 DEF Handed, Shape
  <1>7. UNCHANGED <<slot, files, client>> /\ accepting'  BY DEF CreateThread
  <1>8. \A v \in Workers : /\ Started(v)' => v # w /\ Started(v)
                           /\ Starting(v)' <=> v = w
    BY <1>2, <1>5, <1>6 DEF Started, Starting
  <1>9. SlotUnused'  BY <1>2, <1>6, <1>7, <1>8 DEF SlotUnused
  <1>10. HandOver'  BY <1>7 DEF HandOver
  <1>11. Awaited'  BY <1>2, <1>5, <1>7, <1>8, <1>9 DEF Awaited
  <1>12. Owned'  BY <1>6, <1>7, <1>8 DEF Handed, Owned
  <1>13. \A c \in Clients : client'[c] # "queued"
    BY <1>7 DEF Handed, Alone, CreateThread
  <1>14. Alone'  BY <1>13 DEF Alone
  <1> QED BY <1>4, <1>10, <1>11, <1>12, <1>14 DEF Handed

LEMMA ThreadLimitHanded ==
  ASSUME Handed, ThreadLimit
  PROVE  Handed'
  <1>1. UNCHANGED <<slot, files, client, worker>> /\ accepting'  BY DEF ThreadLimit
  <1>2. Shape'  BY DEF Handed, Shape, ThreadLimit
  <1>3. \A v \in Workers : ~Starting(v)  BY DEF Handed, HandOver, ThreadLimit
  <1>4. HandOver'  BY <1>1 DEF HandOver
  <1>5. Awaited'  BY <1>1, <1>3 DEF Awaited, Starting
  <1>6. Owned'  BY <1>1 DEF Handed, Owned, Started
  <1>7. Alone'  BY <1>1 DEF Handed, Alone, ThreadLimit
  <1> QED BY <1>2, <1>4, <1>5, <1>6, <1>7 DEF Handed

-----------------------------------------------------------------------------
(* handleConnections(). *)

LEMMA ReadSlotHanded ==
  ASSUME Handed, NEW w \in Workers, ReadSlot(w)
  PROVE  Handed'
  <1>1. Starting(w)  BY DEF ReadSlot, Starting
  <1>2. /\ accepting /\ slot \in Fds /\ files[slot] \in Clients
        /\ worker[w].serves = files[slot] /\ SlotUnused
        /\ \A v \in Workers : Starting(v) => v = w
    BY <1>1 DEF Handed, Awaited
  <1>3. UNCHANGED <<accepting, slot, files, client>>  BY DEF ReadSlot
  <1>4. Shape'
    <2>1. worker \in [Workers -> Threads] /\ slot \in Fds
      BY <1>2 DEF Handed, Shape
    <2>2. [worker[w] EXCEPT !.pc = "read", !.fd = slot] \in Threads
      BY <2>1 DEF Threads, Stages
    <2>3. worker' = [worker EXCEPT ![w] = [worker[w] EXCEPT !.pc = "read", !.fd = slot]]
      BY DEF ReadSlot
    <2>4. worker' \in [Workers -> Threads]
      BY <2>1, <2>2, <2>3
    <2> QED BY <2>4 DEF Handed, Shape, ReadSlot
  <1>5. /\ worker'[w].pc = "read" /\ worker'[w].fd = slot
        /\ worker'[w].serves = worker[w].serves
    BY DEF Handed, Shape, Threads, ReadSlot
  <1>6. \A v \in Workers \ {w} : worker'[v] = worker[v]
    BY DEF Handed, Shape, ReadSlot
  <1>7. \A v \in Workers : ~Starting(v)'
    BY <1>2, <1>5, <1>6 DEF Starting
  <1>8. HandOver'  BY <1>2, <1>3 DEF HandOver
  <1>9. Awaited'  BY <1>7 DEF Awaited
  <1>10. Owned'
    <2>1. \A v \in Workers \ {w} : /\ Started(v)' <=> Started(v)
                                   /\ Started(v) => worker'[v].fd # slot
      BY <1>2, <1>6 DEF Started, SlotUnused
    <2> QED BY <2>1, <1>2, <1>3, <1>5, <1>6 DEF Handed, Owned
  <1>11. Alone'  BY <1>3, <1>7 DEF Handed, Alone
  <1> QED BY <1>4, <1>8, <1>9, <1>10, <1>11 DEF Handed

\* A step of a started thread that goes on with its connection.
LEMMA GoesOn ==
  ASSUME Handed, NEW w \in Workers, Started(w), NEW pc \in Stages \ {"unborn", "start"},
         NEW m \in Messages, NEW s \in Sizes,
         worker' = [worker EXCEPT ![w].pc = pc, ![w].message = m, ![w].size = s],
         UNCHANGED <<accepting, slot, files, sent>>,
         client' \in [Clients -> Ends], wire' \in [Clients -> Messages], MessageLength' \in Sizes,
         \A c \in Clients : client'[c] = "queued" => client[c] = "queued"
  PROVE  Handed'
  <1> DEFINE t == [worker[w] EXCEPT !.pc = pc, !.message = m, !.size = s]
  <1>0. worker[w] \in Threads  BY DEF Handed, Shape
  <1>1. worker' \in [Workers -> Threads]
    <2>1. t \in Threads  BY <1>0 DEF Threads
    <2>2. worker' = [worker EXCEPT ![w] = t]  BY <1>0 DEF Handed, Shape, Threads
    <2> HIDE DEF t
    <2> QED BY <2>1, <2>2 DEF Handed, Shape
  <1>2. Shape'  BY <1>1 DEF Handed, Shape
  <1>3. \A v \in Workers \ {w} : worker'[v] = worker[v]  BY DEF Handed, Shape
  <1>4. /\ worker'[w].pc = pc /\ worker'[w].fd = worker[w].fd
        /\ worker'[w].serves = worker[w].serves
    BY DEF Handed, Shape, Threads
  <1>5. \A v \in Workers : /\ worker'[v].serves = worker[v].serves
                           /\ worker'[v].fd = worker[v].fd
                           /\ Started(v)' <=> Started(v)
                           /\ Starting(v)' <=> Starting(v)
    BY <1>3, <1>4 DEF Started, Starting
  <1> QED BY <1>2, <1>5, Keeps

LEMMA ServingHanded ==
  ASSUME Handed, NEW w \in Workers,
         \/ listenToClient(w) \/ EndOfStream(w) \/ ZeroLength(w) \/ Process(w)
         \/ ReturnLength(w) \/ WriteAnswer(w)
  PROVE  Handed'
  <1> DEFINE me == worker[w]
  <1>1. me \in Threads  BY DEF Handed, Shape
  <1>2. me.pc \in Stages /\ me.message \in Messages /\ me.size \in Sizes
    BY <1>1 DEF Threads
  <1>3. /\ client \in [Clients -> Ends] /\ wire \in [Clients -> Messages]
        /\ MessageLength \in Sizes
    BY DEF Handed, Shape
  <1>4. Started(w)
    BY DEF Started, listenToClient, EndOfStream, ZeroLength, Process, ReturnLength, WriteAnswer
  <1>5. CASE listenToClient(w)
    <2>1. PICK n \in 1..Len(wire[Peer(w)]) :
            /\ worker' = [worker EXCEPT ![w].pc = "zero", ![w].message = SubSeq(wire[Peer(w)], 1, n)]
            /\ wire' = [wire EXCEPT ![Peer(w)] = SubSeq(@, n + 1, Len(@))]
      BY <1>5 DEF listenToClient
    <2>2. Peer(w) \in Clients  BY <1>5 DEF listenToClient
    <2>3. /\ SubSeq(wire[Peer(w)], 1, n) \in Messages
          /\ SubSeq(wire[Peer(w)], n + 1, Len(wire[Peer(w)])) \in Messages
      BY <1>3, <2>2, PrefixIsMessage
    <2>4. wire' \in [Clients -> Messages]  BY <1>3, <2>1, <2>2, <2>3
    <2>5. worker' = [worker EXCEPT ![w].pc = "zero", ![w].message = SubSeq(wire[Peer(w)], 1, n),
                                   ![w].size = me.size]
      BY <1>1, <2>1 DEF Handed, Shape, Threads
    <2> QED BY <1>2, <1>3, <1>4, <1>5, <2>3, <2>4, <2>5, GoesOn DEF listenToClient, Stages
  <1>6. CASE EndOfStream(w)
    <2>1. worker' = [worker EXCEPT ![w].pc = "close", ![w].message = me.message,
                                   ![w].size = me.size]
      BY <1>1, <1>6 DEF Handed, Shape, Threads, EndOfStream
    <2>7. "close" \in Stages \ {"unborn", "start"}  BY DEF Stages
    <2>8. UNCHANGED <<accepting, slot, files, sent, client, wire, MessageLength>>  BY <1>6 DEF EndOfStream
    <2> QED BY <1>2, <1>3, <1>4, <2>1, <2>7, <2>8, GoesOn
  <1>7. CASE ZeroLength(w)
    <2>1. worker' = [worker EXCEPT ![w].pc = "process", ![w].message = me.message,
                                   ![w].size = me.size]
      BY <1>1, <1>7 DEF Handed, Shape, Threads, ZeroLength
    <2>2. MessageLength' \in Sizes  BY <1>7 DEF ZeroLength, Sizes
    <2>7. "process" \in Stages \ {"unborn", "start"}  BY DEF Stages
    <2>8. UNCHANGED <<accepting, slot, files, sent, client, wire>>  BY <1>7 DEF ZeroLength
    <2> QED BY <1>2, <1>3, <1>4, <2>1, <2>2, <2>7, <2>8, GoesOn
  <1>8. CASE Process(w)
    <2>1. worker' = [worker EXCEPT ![w].pc = "return", ![w].message = me.message,
                                   ![w].size = me.size]
      BY <1>1, <1>8 DEF Handed, Shape, Threads, Process
    <2>2. MessageLength' \in Sizes
      BY <1>1, <1>8 DEF Process, LengthFor, Sizes, Threads
    <2>7. "return" \in Stages \ {"unborn", "start"}  BY DEF Stages
    <2>8. UNCHANGED <<accepting, slot, files, sent, client, wire>>  BY <1>8 DEF Process
    <2> QED BY <1>2, <1>3, <1>4, <2>1, <2>2, <2>7, <2>8, GoesOn
  <1>9. CASE ReturnLength(w)
    <2>1. worker' = [worker EXCEPT ![w].pc = "write", ![w].message = me.message,
                                   ![w].size = MessageLength]
      BY <1>1, <1>9 DEF Handed, Shape, Threads, ReturnLength
    <2>7. "write" \in Stages \ {"unborn", "start"}  BY DEF Stages
    <2>8. UNCHANGED <<accepting, slot, files, sent, client, wire, MessageLength>>  BY <1>9 DEF ReturnLength
    <2> QED BY <1>2, <1>3, <1>4, <2>1, <2>7, <2>8, GoesOn
  <1>10. CASE WriteAnswer(w)
    <2>1. worker' = [worker EXCEPT ![w].pc = "read", ![w].message = << >>, ![w].size = "zero"]
      BY <1>10 DEF WriteAnswer
    <2>2. << >> \in Messages /\ "zero" \in Sizes  BY DEF Messages, Sizes
    <2>3. /\ client' \in [Clients -> Ends]
          /\ \A c \in Clients : client'[c] = "queued" => client[c] = "queued"
      BY <1>3, <1>10 DEF WriteAnswer, Ends
    <2>7. "read" \in Stages \ {"unborn", "start"}  BY DEF Stages
    <2>8. UNCHANGED <<accepting, slot, files, sent, wire, MessageLength>>  BY <1>10 DEF WriteAnswer
    <2> QED BY <1>3, <1>4, <2>1, <2>2, <2>3, <2>7, <2>8, GoesOn
  <1> QED BY <1>5, <1>6, <1>7, <1>8, <1>9, <1>10

LEMMA CloseHanded ==
  ASSUME Handed, NEW w \in Workers, Close(w)
  PROVE  Handed'
  <1> DEFINE d == worker[w].fd
  <1>1. Started(w)  BY DEF Started, Close
  <1>2. d \in Fds /\ \A v \in Workers : Started(v) /\ worker[v].fd = d => v = w
    BY <1>1 DEF Handed, Owned
  <1>3. UNCHANGED <<accepting, slot>>  BY DEF Close
  <1>4. files' = [files EXCEPT ![d] = NoOne] /\ worker' = [worker EXCEPT ![w] = Idle]
    BY DEF Close
  <1>5. \A e \in Fds \ {d} : files'[e] = files[e]  BY <1>2, <1>4 DEF Handed, Shape
  <1>6. \A v \in Workers \ {w} : worker'[v] = worker[v]  BY <1>4 DEF Handed, Shape
  <1>7. worker'[w].pc = "unborn"  BY <1>4 DEF Handed, Shape, Idle
  <1>8. \A v \in Workers : /\ Started(v)' <=> v # w /\ Started(v)
                           /\ Starting(v)' <=> Starting(v)
    BY <1>1, <1>6, <1>7 DEF Started, Starting
  <1>9. client' \in [Clients -> Ends]
    BY DEF Handed, Shape, Close, Ends
  <1>10. \A c \in Clients : client'[c] = "queued" => client[c] = "queued"
    BY DEF Close
  <1>11. Shape'
    <2>1. worker' \in [Workers -> Threads]  BY <1>4, IdleIsThread DEF Handed, Shape
    <2>2. wire' \in [Clients -> Messages]  BY DEF Handed, Shape, Close, Messages
    <2>3. files' \in [Fds -> Clients \cup {NoOne}]  BY <1>4 DEF Handed, Shape
    <2> QED BY <1>9, <2>1, <2>2, <2>3 DEF Handed, Shape, Close
  <1>12. SlotUnused => slot # d /\ SlotUnused'
    BY <1>1, <1>3, <1>6, <1>8 DEF SlotUnused
  <1>13. HandOver'  BY <1>3, <1>5, <1>8, <1>12 DEF Handed, HandOver
  <1>14. Awaited'
    <2> SUFFICES ASSUME NEW v \in Workers, Starting(v)
                 PROVE  /\ accepting' /\ slot' \in Fds /\ files'[slot'] \in Clients
                        /\ worker'[v].serves = files'[slot'] /\ SlotUnused'
                        /\ \A u \in Workers : Starting(u) => u = v
      BY <1>8 DEF Awaited
    <2>1. v # w  BY <1>1 DEF Started, Starting
    <2> QED BY <2>1, <1>3, <1>5, <1>6, <1>12 DEF Handed, Awaited
  <1>15. Owned'  BY <1>2, <1>5, <1>6, <1>8 DEF Handed, Owned
  <1>16. Alone'  BY <1>3, <1>8, <1>10 DEF Handed, Alone
  <1> QED BY <1>11, <1>13, <1>14, <1>15, <1>16 DEF Handed

-----------------------------------------------------------------------------
LEMMA StepHanded ==
  ASSUME Staggered, Handed, [Next]_vars
  PROVE  Handed'
  <1>1. CASE UNCHANGED vars
    BY <1>1 DEF vars, Handed, Shape, HandOver, Awaited, Owned, Alone, SlotUnused, Started, Starting
  <1>2. ASSUME NEW c \in Clients, Connect(c) \/ Send(c) \/ Leave(c)  PROVE Handed'
    BY <1>2, ConnectHanded, SendHanded, LeaveHanded
  <1>3. CASE startServer
    BY <1>3, AcceptHanded, CreateThreadHanded, ThreadLimitHanded DEF startServer
  <1>4. ASSUME NEW w \in Workers, Handle(w)  PROVE Handed'
    BY <1>4, ReadSlotHanded, ServingHanded, CloseHanded DEF Handle
  <1> QED BY <1>1, <1>2, <1>3, <1>4 DEF Next

\* With clients that do not connect while a thread is starting, the hand-over
\* of startServer() through its stack slot and the reuse of closed descriptors
\* never give a connection thread the connection of another client.
THEOREM ServerHandledByOwnThread ==
  ASSUME Staggered
  PROVE  Spec => []HandledByOwnThread
  <1>1. Init => Handed  BY InitHanded
  <1>2. Handed /\ [Next]_vars => Handed'  BY StepHanded
  <1>3. Handed => HandledByOwnThread  BY DEF Handed, Owned, HandledByOwnThread, Peer
  <1> QED BY <1>1, <1>2, <1>3, PTL DEF Spec

-----------------------------------------------------------------------------
(* One descriptor per client. *)

Answers == Seq([of : Clients \cup {NoOne}, request : Nat])

\* A thread holds a message.
Busy(w) == worker[w].pc \in {"zero", "process", "return", "write"}

Single ==
  /\ got \in [Clients -> Answers]
  /\ \A d \in Fds : files[d] \in Clients => client[files[d]] \in {"open", "closed", "reset"}
  /\ \A d, e \in Fds : files[d] \in Clients /\ files[d] = files[e] => d = e

LEMMA OneThreadEach ==
  ASSUME Handed, Single, NEW v \in Workers, NEW w \in Workers, Started(v), Started(w),
         worker[v].serves = worker[w].serves
  PROVE  v = w
  <1>1. /\ worker[v].fd \in Fds /\ files[worker[v].fd] = worker[v].serves
        /\ worker[w].fd \in Fds /\ files[worker[w].fd] = worker[w].serves
        /\ worker[v].serves \in Clients
    BY DEF Handed, Owned
  <1>2. worker[v].fd = worker[w].fd  BY <1>1 DEF Single
  <1> QED BY <1>2 DEF Handed, Owned

LEMMA ServesPeer ==
  ASSUME Handed, NEW w \in Workers, Started(w)
  PROVE  Peer(w) = worker[w].serves /\ Peer(w) \in Clients /\ worker[w].fd \in Fds
  BY DEF Handed, Owned, Peer

LEMMA AskedIsNumber ==
  ASSUME NEW m \in Messages
  PROVE  Asked(m) \in Nat
  <1>1. Pieces \in 1..2  BY ServerAssumption
  <1>2. CASE Whole(m)
    <2>1. 1 \in 1..Len(m)  BY <1>1, <1>2 DEF Whole, Messages
    <2>2. m[1] \in Nat \X Nat  BY <2>1 DEF Messages
    <2> QED BY <1>2, <2>2 DEF Asked
  <1>3. CASE ~Whole(m)  BY <1>3 DEF Asked
  <1> QED BY <1>2, <1>3

\* The answer a client gets, if it is still there.
LEMMA AnswerReaches ==
  ASSUME Handed, Single, NEW w \in Workers, WriteAnswer(w)
  PROVE  /\ got' \in [Clients -> Answers]
         /\ \/ UNCHANGED got
            \/ got' = [got EXCEPT ![worker[w].serves] =
                         Append(@, [of |-> worker[w].serves, request |-> Asked(worker[w].message)])]
  <1>1. Started(w)  BY DEF Started, WriteAnswer
  <1>2. Peer(w) = worker[w].serves /\ Peer(w) \in Clients  BY <1>1, ServesPeer
  <1>3. \/ UNCHANGED got
        \/ got' = [got EXCEPT ![worker[w].serves] =
                     Append(@, [of |-> worker[w].serves, request |-> Asked(worker[w].message)])]
    BY <1>2 DEF WriteAnswer
  <1>4. worker[w] \in Threads  BY DEF Handed, Shape
  <1>5. [of |-> worker[w].serves, request |-> Asked(worker[w].message)]
          \in [of : Clients \cup {NoOne}, request : Nat]
    <2>1. Asked(worker[w].message) \in Nat  BY <1>4, AskedIsNumber DEF Threads
    <2> QED BY <1>2, <2>1
  <1>6. got[worker[w].serves] \in Answers  BY <1>2 DEF Single
  <1>7. Append(got[worker[w].serves],
               [of |-> worker[w].serves, request |-> Asked(worker[w].message)]) \in Answers
    <2> DEFINE R == [of : Clients \cup {NoOne}, request : Nat]
               x == [of |-> worker[w].serves, request |-> Asked(worker[w].message)]
    <2>1. x \in R /\ got[worker[w].serves] \in Seq(R)  BY <1>5, <1>6 DEF Answers
    <2> HIDE DEF R, x
    <2>2. Append(got[worker[w].serves], x) \in Seq(R)  BY <2>1
    <2> QED BY <2>2 DEF Answers, R, x
  <1>8. got' \in [Clients -> Answers]
    BY <1>3, <1>7 DEF Single
  <1> QED BY <1>3, <1>8

LEMMA StepSingle ==
  ASSUME Handed, Single, [Next]_vars
  PROVE  Single'
  <1>0. /\ files \in [Fds -> Clients \cup {NoOne}] /\ client \in [Clients -> Ends]
        /\ got \in [Clients -> Answers]
    BY DEF Handed, Shape, Single
  <1>1. ASSUME UNCHANGED <<files, got>>,
               \A c \in Clients : client[c] \in {"open", "closed", "reset"}
                                    => client'[c] \in {"open", "closed", "reset"}
        PROVE  Single'
    BY <1>1 DEF Single
  <1>2. CASE UNCHANGED vars  BY <1>1, <1>2 DEF vars
  <1>3. ASSUME NEW c \in Clients, Connect(c)  PROVE Single'
    <2>1. \A e \in Clients \ {c} : client'[e] = client[e]  BY <1>0, <1>3 DEF Connect
    <2> QED BY <1>1, <1>3, <2>1 DEF Connect
  <1>4. ASSUME NEW c \in Clients, Send(c)  PROVE Single'
    BY <1>1, <1>4 DEF Send
  <1>5. ASSUME NEW c \in Clients, Leave(c)  PROVE Single'
    BY <1>0, <1>1, <1>5 DEF Leave
  <1>6. ASSUME NEW c \in Clients, Accept(c)  PROVE Single'
    <2>1. PICK d \in FreeFds : files' = [files EXCEPT ![d] = c]
      BY <1>6 DEF Accept
    <2>2. d \in Fds /\ files'[d] = c /\ \A e \in Fds \ {d} : files'[e] = files[e]
      BY <1>0, <2>1 DEF FreeFds
    <2>3. client'[c] = "open" /\ (\A e \in Clients \ {c} : client'[e] = client[e]) /\ UNCHANGED got
      BY <1>0, <1>6 DEF Accept
    <2>4. \A e \in Fds : files[e] # c
      BY <1>6 DEF Accept, Single
    <2> QED BY <2>2, <2>3, <2>4 DEF Single
  <1>7. CASE CreateThread \/ ThreadLimit
    BY <1>1, <1>7 DEF CreateThread, ThreadLimit
  <1>8. ASSUME NEW w \in Workers,
               \/ ReadSlot(w) \/ listenToClient(w) \/ EndOfStream(w) \/ ZeroLength(w)
               \/ Process(w) \/ ReturnLength(w)
        PROVE  Single'
    BY <1>1, <1>8 DEF ReadSlot, listenToClient, EndOfStream, ZeroLength, Process, ReturnLength
  <1>9. ASSUME NEW w \in Workers, WriteAnswer(w)  PROVE Single'
    <2>1. UNCHANGED files  BY <1>9 DEF WriteAnswer
    <2>2. \A c \in Clients : client[c] \in {"open", "closed", "reset"}
                               => client'[c] \in {"open", "closed", "reset"}
      BY <1>0, <1>9 DEF WriteAnswer
    <2>3. got' \in [Clients -> Answers]  BY <1>9, AnswerReaches
    <2> QED BY <2>1, <2>2, <2>3 DEF Single
  <1>10. ASSUME NEW w \in Workers, Close(w)  PROVE Single'
    <2>1. Started(w)  BY <1>10 DEF Started, Close
    <2>2. PICK d \in Fds : d = worker[w].fd /\ files[d] = Peer(w)
      BY <2>1, ServesPeer DEF Peer
    <2>3. /\ files' = [files EXCEPT ![d] = NoOne] /\ UNCHANGED got
          /\ \A c \in Clients : c # files[d] => client'[c] = client[c]
      BY <1>10, <2>2 DEF Close
    <2>4. files'[d] = NoOne /\ \A e \in Fds \ {d} : files'[e] = files[e]
      BY <1>0, <2>3
    <2> QED BY <2>3, <2>4, NoOneIsNoClient DEF Single
  <1> QED BY <1>2, <1>3, <1>4, <1>5, <1>6, <1>7, <1>8, <1>9, <1>10 DEF Next, startServer, Handle

-----------------------------------------------------------------------------
(* The order of answers, when a request arrives in one piece. *)

\* The answers g are to requests before r; the pieces u are of requests after r.
Before(g, r) == \A i \in 1..Len(g) : g[i].request < r
After(u, r) == \A i \in 1..Len(u) : r < u[i][1]

\* What client c got and what it sent and nobody read, of n requests.
Ascending(c, g, u, n) ==
  /\ Before(g, n + 1)
  /\ \A i \in 1..Len(g) : g[i].of = c /\ \A j \in 1..(i - 1) : g[j].request < g[i].request
  /\ \A i \in 1..Len(u) : /\ u[i][2] = 1 /\ u[i][1] \in 0..n /\ Before(g, u[i][1])
                          /\ \A j \in 1..(i - 1) : u[j][1] < u[i][1]

\* The request in a thread's buffer.
Between(g, u, n, r) == r \in 0..n /\ Before(g, r) /\ After(u, r)

Ordered(c) == Ascending(c, got[c], wire[c], sent[c])
Pending(w) ==
  LET c == worker[w].serves
  IN  Busy(w) => Between(got[c], wire[c], sent[c], Asked(worker[w].message))

InTurn == (\A c \in Clients : Ordered(c)) /\ (\A w \in Workers : Pending(w))

LEMMA AskedFirst ==
  ASSUME Pieces = 1, NEW m \in Messages, 1 \in 1..Len(m), m[1][2] = 1
  PROVE  Asked(m) = m[1][1]
  <1>1. m[1] \in Nat \X Nat  BY DEF Messages
  <1>2. m[1] = <<m[1][1], 1>> /\ Len(m) \in Nat  BY <1>1 DEF Messages
  <1>3. Whole(m)  BY <1>2 DEF Whole
  <1> QED BY <1>3 DEF Asked

LEMMA AnswerTyped ==
  ASSUME NEW g \in Answers
  PROVE  Len(g) \in Nat /\ \A i \in 1..Len(g) : g[i].request \in Nat
  <1> DEFINE R == [of : Clients \cup {NoOne}, request : Nat]
  <1>1. g \in Seq(R) /\ \A x \in R : x.request \in Nat  BY DEF Answers
  <1> HIDE DEF R
  <1> QED BY <1>1

\* A step that leaves the streams and answers of a thread's client alone.
LEMMA PendingStays ==
  ASSUME NEW w \in Workers, Pending(w), Busy(w)' => Busy(w),
         Busy(w)' => /\ worker'[w].serves = worker[w].serves
                     /\ worker'[w].message = worker[w].message,
         LET c == worker[w].serves
         IN  Busy(w) => got'[c] = got[c] /\ wire'[c] = wire[c] /\ sent'[c] = sent[c]
  PROVE  Pending(w)'
  BY DEF Pending, Asked, Whole

\* A step that reads, sends and answers nothing.
LEMMA QuietInTurn ==
  ASSUME InTurn, UNCHANGED <<sent, wire, got>>,
         \A w \in Workers : Busy(w)' => /\ Busy(w) /\ worker'[w].serves = worker[w].serves
                                       /\ worker'[w].message = worker[w].message
  PROVE  InTurn'
  <1>1. \A c \in Clients : Ordered(c)'  BY DEF InTurn, Ordered
  <1>2. \A w \in Workers : Pending(w)'  BY PendingStays DEF InTurn
  <1> QED BY <1>1, <1>2 DEF InTurn

\* A request appended to a stream.
LEMMA Appended ==
  ASSUME Pieces = 1, NEW m \in Messages, NEW r \in Nat, NEW t, t = m \o [p \in 1..Pieces |-> <<r, p>>]
  PROVE  /\ Len(t) = Len(m) + 1 /\ Len(m) \in Nat
         /\ \A i \in 1..Len(m) : t[i] = m[i]
         /\ t[Len(m) + 1] = <<r, 1>>
  <1> DEFINE S == Nat \X Nat
             u == [p \in 1..Pieces |-> <<r, p>>]
  <1>1. m \in Seq(S) /\ u \in Seq(S) /\ Len(u) = 1 /\ u[1] = <<r, 1>>
    BY DEF Messages
  <1>2. t = m \o u  OBVIOUS
  <1> HIDE DEF S, u
  <1> QED BY <1>1, <1>2

\* A new request is after all the others.
LEMMA OneMore ==
  ASSUME Pieces = 1, NEW c, NEW g \in Answers, NEW u \in Messages, NEW n \in Nat,
         NEW t, t = u \o [p \in 1..Pieces |-> <<n + 1, p>>], Ascending(c, g, u, n)
  PROVE  /\ Ascending(c, g, t, n + 1)
         /\ \A r : Between(g, u, n, r) => Between(g, t, n + 1, r)
  <1>1. PICK l \in Nat : l = Len(u)  BY DEF Messages
  <1>2. /\ Len(t) = l + 1 /\ t[l + 1] = <<n + 1, 1>> /\ \A i \in 1..l : t[i] = u[i]
    BY <1>1, Appended
  <1>3. \A i \in 1..Len(g) : g[i].request \in Nat /\ g[i].request < n + 1
    BY AnswerTyped DEF Ascending, Before
  <1>4. \A i \in 1..l : u[i][2] = 1 /\ u[i][1] \in 0..n
    BY <1>1 DEF Ascending
  <1>5. ASSUME NEW i \in 1..(l + 1)
        PROVE  /\ t[i][2] = 1 /\ t[i][1] \in 0..(n + 1) /\ Before(g, t[i][1])
               /\ \A j \in 1..(i - 1) : t[j][1] < t[i][1]
    <2>0. i = l + 1 \/ i \in 1..l  OBVIOUS
    <2>1. CASE i = l + 1
      <3>1. t[i][1] = n + 1 /\ t[i][2] = 1  BY <1>2, <2>1
      <3>2. \A j \in 1..(i - 1) : t[j][1] \in 0..n  BY <1>2, <1>4, <2>1
      <3>3. Before(g, t[i][1])  BY <1>3, <3>1 DEF Before
      <3>4. \A j \in 1..(i - 1) : t[j][1] < n + 1  BY <3>2
      <3>5. n + 1 \in 0..(n + 1)  OBVIOUS
      <3> QED BY <3>1, <3>3, <3>4, <3>5
    <2>2. CASE i \in 1..l
      <3>1. t[i] = u[i] /\ \A j \in 1..(i - 1) : t[j] = u[j]  BY <1>2, <2>2
      <3>2. u[i][2] = 1 /\ u[i][1] \in 0..(n + 1)  BY <1>4, <2>2
      <3>3. Before(g, u[i][1]) /\ \A j \in 1..(i - 1) : u[j][1] < u[i][1]
        BY <1>1, <2>2 DEF Ascending
      <3> QED BY <3>1, <3>2, <3>3
    <2> QED BY <2>0, <2>1, <2>2
  <1>6. Before(g, (n + 1) + 1)  BY <1>3 DEF Before
  <1>7. Ascending(c, g, t, n + 1)
    BY <1>2, <1>5, <1>6 DEF Ascending
  <1>8. ASSUME NEW r, Between(g, u, n, r)  PROVE Between(g, t, n + 1, r)
    <2>1. r \in 0..n /\ \A i \in 1..l : r < u[i][1]
      BY <1>1, <1>8 DEF Between, After
    <2>2. \A i \in 1..(l + 1) : r < t[i][1]
      <3> TAKE i \in 1..(l + 1)
      <3>0. i = l + 1 \/ i \in 1..l  OBVIOUS
      <3>1. CASE i = l + 1  BY <1>2, <2>1, <3>1
      <3>2. CASE i \in 1..l  BY <1>2, <2>1, <3>2
      <3> QED BY <3>0, <3>1, <3>2
    <2> QED BY <1>2, <1>8, <2>1, <2>2 DEF Between, After
  <1> QED BY <1>7, <1>8

LEMMA SendInTurn ==
  ASSUME Pieces = 1, Handed, Single, InTurn, NEW c \in Clients, Send(c)
  PROVE  InTurn'
  <1>1. sent \in [Clients -> Nat] /\ wire \in [Clients -> Messages] /\ got \in [Clients -> Answers]
    BY DEF Handed, Shape, Single
  <1>2. PICK n \in Nat : n = sent[c]  BY <1>1
  <1>3. PICK t : t = wire[c] \o [p \in 1..Pieces |-> <<n + 1, p>>]  OBVIOUS
  <1>4. /\ sent'[c] = n + 1 /\ wire'[c] = t /\ UNCHANGED <<got, worker>>
        /\ \A e \in Clients \ {c} : sent'[e] = sent[e] /\ wire'[e] = wire[e]
    BY <1>1, <1>2, <1>3 DEF Send
  <1>5. /\ Ascending(c, got[c], t, n + 1)
        /\ \A r : Between(got[c], wire[c], n, r) => Between(got[c], t, n + 1, r)
    BY <1>1, <1>2, <1>3, OneMore DEF InTurn, Ordered
  <1>6. \A e \in Clients : Ordered(e)'  BY <1>4, <1>5 DEF InTurn, Ordered
  <1>7. ASSUME NEW w \in Workers  PROVE Pending(w)'
    <2>1. CASE Busy(w) /\ worker[w].serves = c
      <3>1. Between(got[c], wire[c], n, Asked(worker[w].message))
        BY <1>2, <2>1 DEF InTurn, Pending
      <3>2. Between(got[c], t, n + 1, Asked(worker[w].message))  BY <1>5, <3>1
      <3> QED BY <1>4, <2>1, <3>2 DEF Pending, Asked, Whole
    <2>2. CASE ~(Busy(w) /\ worker[w].serves = c)
      <3>1. Busy(w) => worker[w].serves \in Clients \ {c}
        BY <2>2, ServesPeer DEF Busy, Started
      <3>2. Busy(w)' <=> Busy(w)  BY <1>4 DEF Busy
      <3> QED BY <1>4, <3>1, <3>2, PendingStays DEF InTurn
    <2> QED BY <2>1, <2>2
  <1> QED BY <1>6, <1>7 DEF InTurn

\* A read takes the oldest requests off the stream.
LEMMA Taken ==
  ASSUME Pieces = 1, NEW c, NEW g \in Answers, NEW u \in Messages, NEW k \in Nat,
         Ascending(c, g, u, k), NEW n \in 1..Len(u),
         NEW m, m = SubSeq(u, 1, n), NEW v, v = SubSeq(u, n + 1, Len(u))
  PROVE  Ascending(c, g, v, k) /\ Between(g, v, k, Asked(m))
  <1>1. PICK l \in Nat : l = Len(u)  BY DEF Messages
  <1>2. n \in 1..l  BY <1>1
  <1>3. m \in Messages /\ Len(m) = n /\ m[1] = u[1]
    <2>1. m \in Messages  BY PrefixIsMessage
    <2> DEFINE S == Nat \X Nat
    <2>2. u \in Seq(S)  BY DEF Messages
    <2> HIDE DEF S
    <2>3. Len(m) = n /\ m[1] = u[1]  BY <1>1, <1>2, <2>2
    <2> QED BY <2>1, <2>3
  <1>4. Len(v) = l - n /\ \A i \in 1..(l - n) : v[i] = u[n + i]
    <2> DEFINE S == Nat \X Nat
    <2>1. u \in Seq(S)  BY DEF Messages
    <2> HIDE DEF S
    <2> QED BY <1>1, <1>2, <2>1
  <1>5. \A i \in 1..l : /\ u[i][2] = 1 /\ u[i][1] \in 0..k /\ Before(g, u[i][1])
                        /\ \A j \in 1..(i - 1) : u[j][1] < u[i][1]
    BY <1>1 DEF Ascending
  <1>6. Asked(m) = u[1][1]
    <2>1. 1 \in 1..Len(m) /\ m[1][2] = 1  BY <1>2, <1>3, <1>5
    <2> QED BY <1>3, <2>1, AskedFirst
  <1>7. \A i \in 1..(l - n) :
          /\ v[i][2] = 1 /\ v[i][1] \in 0..k /\ Before(g, v[i][1]) /\ u[1][1] < v[i][1]
          /\ \A j \in 1..(i - 1) : v[j][1] < v[i][1]
    <2> TAKE i \in 1..(l - n)
    <2>1. n + i \in 1..l /\ v[i] = u[n + i] /\ 1 \in 1..((n + i) - 1)  BY <1>2, <1>4
    <2>2. \A j \in 1..(i - 1) : n + j \in 1..((n + i) - 1) /\ j \in 1..(l - n)  BY <1>2
    <2>3. \A j \in 1..(i - 1) : v[j] = u[n + j]  BY <1>4, <2>2
    <2> QED BY <1>5, <2>1, <2>2, <2>3
  <1>8. Ascending(c, g, v, k)  BY <1>4, <1>7 DEF Ascending
  <1>9. Between(g, v, k, Asked(m))
    <2>1. 1 \in 1..l  BY <1>2
    <2> QED BY <1>4, <1>5, <1>6, <1>7, <2>1 DEF Between, After
  <1> QED BY <1>8, <1>9

LEMMA ListenInTurn ==
  ASSUME Pieces = 1, Handed, Single, InTurn, NEW w \in Workers, listenToClient(w)
  PROVE  InTurn'
  <1>1. /\ sent \in [Clients -> Nat] /\ wire \in [Clients -> Messages] /\ got \in [Clients -> Answers]
        /\ worker \in [Workers -> Threads]
    BY DEF Handed, Shape, Single
  <1>2. PICK c \in Clients : c = Peer(w) /\ c = worker[w].serves /\ Started(w)
    BY ServesPeer DEF listenToClient, Started
  <1>3. PICK n \in 1..Len(wire[c]) :
          /\ worker' = [worker EXCEPT ![w].pc = "zero", ![w].message = SubSeq(wire[c], 1, n)]
          /\ wire' = [wire EXCEPT ![c] = SubSeq(@, n + 1, Len(@))]
    BY <1>2 DEF listenToClient
  <1>4. PICK m, v : m = SubSeq(wire[c], 1, n) /\ v = SubSeq(wire[c], n + 1, Len(wire[c]))
    OBVIOUS
  <1>5. Ascending(c, got[c], v, sent[c]) /\ Between(got[c], v, sent[c], Asked(m))
    BY <1>1, <1>4, Taken DEF InTurn, Ordered
  <1>6. /\ wire'[c] = v /\ UNCHANGED <<sent, got>>
        /\ \A e \in Clients \ {c} : wire'[e] = wire[e]
    BY <1>1, <1>3, <1>4 DEF listenToClient
  <1>7. \A e \in Clients : Ordered(e)'  BY <1>5, <1>6 DEF InTurn, Ordered
  <1>8. /\ worker'[w].serves = c /\ worker'[w].message = m
        /\ \A x \in Workers \ {w} : worker'[x] = worker[x]
    BY <1>1, <1>2, <1>3, <1>4 DEF Threads
  <1>9. Pending(w)'  BY <1>5, <1>6, <1>8 DEF Pending, Asked, Whole
  <1>10. ASSUME NEW x \in Workers, x # w  PROVE Pending(x)'
    <2>1. Busy(x) => worker[x].serves \in Clients \ {c}
      BY <1>2, <1>10, OneThreadEach, ServesPeer DEF Busy, Started
    <2>2. Busy(x)' <=> Busy(x)  BY <1>8, <1>10 DEF Busy
    <2> QED BY <1>6, <1>8, <1>10, <2>1, <2>2, PendingStays DEF InTurn
  <1> QED BY <1>7, <1>9, <1>10 DEF InTurn

\* The answer to the request in a buffer is the client's latest.
LEMMA Answered ==
  ASSUME NEW c, NEW g \in Answers, NEW u \in Messages, NEW n \in Nat, NEW r,
         Ascending(c, g, u, n), Between(g, u, n, r), NEW x, x.of = c, x.request = r,
         NEW h, h = Append(g, x)
  PROVE  Ascending(c, h, u, n)
  <1>1. PICK l \in Nat : l = Len(g)  BY AnswerTyped
  <1>2. Len(h) = l + 1 /\ h[l + 1] = x /\ \A i \in 1..l : h[i] = g[i]
    BY <1>1 DEF Answers
  <1>3. r \in 0..n /\ (\A i \in 1..l : g[i].request < r) /\ \A i \in 1..Len(u) : r < u[i][1]
    BY <1>1 DEF Between, Before, After
  <1>4. \A i \in 1..l : g[i].request \in Nat /\ g[i].request < n + 1
    BY <1>1, AnswerTyped DEF Ascending, Before
  <1>5. ASSUME NEW i \in 1..(l + 1)
        PROVE  /\ h[i].request < n + 1 /\ h[i].of = c
               /\ \A j \in 1..(i - 1) : h[j].request < h[i].request
               /\ \A y : (Before(g, y) /\ r < y) => h[i].request < y
    <2>0. i = l + 1 \/ i \in 1..l  OBVIOUS
    <2>1. CASE i = l + 1  BY <1>2, <1>3, <2>1
    <2>2. CASE i \in 1..l
      <3>1. h[i] = g[i] /\ \A j \in 1..(i - 1) : h[j] = g[j]  BY <1>2, <2>2
      <3>2. g[i].of = c /\ \A j \in 1..(i - 1) : g[j].request < g[i].request
        BY <1>1, <2>2 DEF Ascending
      <3> QED BY <1>1, <1>4, <2>2, <3>1, <3>2 DEF Before
    <2> QED BY <2>0, <2>1, <2>2
  <1>6. \A i \in 1..Len(u) : Before(h, u[i][1])
    BY <1>2, <1>3, <1>5 DEF Ascending, Before
  <1> QED BY <1>2, <1>5, <1>6 DEF Ascending, Before

LEMMA AnswerInTurn ==
  ASSUME Pieces = 1, Handed, Single, InTurn, NEW w \in Workers, WriteAnswer(w)
  PROVE  InTurn'
  <1>1. /\ sent \in [Clients -> Nat] /\ wire \in [Clients -> Messages] /\ got \in [Clients -> Answers]
        /\ worker \in [Workers -> Threads]
    BY DEF Handed, Shape, Single
  <1>2. PICK c \in Clients : c = worker[w].serves /\ Started(w) /\ Busy(w)
    BY ServesPeer DEF WriteAnswer, Started, Busy
  <1>3. PICK x : x = [of |-> c, request |-> Asked(worker[w].message)]
    OBVIOUS
  <1>4. \/ UNCHANGED got
        \/ got' = [got EXCEPT ![c] = Append(@, x)]
    BY <1>2, <1>3, AnswerReaches
  <1>5. Ascending(c, Append(got[c], x), wire[c], sent[c])
    <2>1. Between(got[c], wire[c], sent[c], Asked(worker[w].message))
      BY <1>2 DEF InTurn, Pending
    <2>2. x.of = c /\ x.request = Asked(worker[w].message)  BY <1>3
    <2> QED BY <1>1, <2>1, <2>2, Answered DEF InTurn, Ordered
  <1>6. UNCHANGED <<sent, wire>> /\ \A e \in Clients \ {c} : got'[e] = got[e]
    BY <1>1, <1>4 DEF WriteAnswer
  <1>7. got'[c] = got[c] \/ got'[c] = Append(got[c], x)  BY <1>1, <1>4
  <1>8. \A e \in Clients : Ordered(e)'  BY <1>5, <1>6, <1>7 DEF InTurn, Ordered
  <1>9. /\ worker'[w].pc = "read" /\ \A v \in Workers \ {w} : worker'[v] = worker[v]
    BY <1>1 DEF WriteAnswer, Threads
  <1>10. ASSUME NEW v \in Workers, v # w  PROVE Pending(v)'
    <2>1. Busy(v) => worker[v].serves \in Clients \ {c}
      BY <1>2, <1>10, OneThreadEach, ServesPeer DEF Busy, Started
    <2>2. Busy(v)' <=> Busy(v)  BY <1>9, <1>10 DEF Busy
    <2> QED BY <1>6, <1>9, <1>10, <2>1, <2>2, PendingStays DEF InTurn
  <1>11. Pending(w)'  BY <1>9 DEF Pending, Busy
  <1> QED BY <1>8, <1>10, <1>11 DEF InTurn

LEMMA CloseInTurn ==
  ASSUME Handed, Single, InTurn, NEW w \in Workers, Close(w)
  PROVE  InTurn'
  <1>1. wire \in [Clients -> Messages] /\ worker \in [Workers -> Threads]
    BY DEF Handed, Shape
  <1>2. PICK c \in Clients : c = Peer(w) /\ c = worker[w].serves /\ Started(w)
    BY ServesPeer DEF Close, Started
  <1>3. UNCHANGED <<sent, got>> /\ \A e \in Clients : wire'[e] = IF e = c THEN << >> ELSE wire[e]
    BY <1>2 DEF Close
  <1>4. ASSUME NEW e \in Clients  PROVE Ordered(e)'
    <2>1. Ascending(e, got[e], wire[e], sent[e])  BY DEF InTurn, Ordered
    <2>2. Ascending(e, got[e], << >>, sent[e])  BY <2>1 DEF Ascending
    <2> QED BY <1>3, <2>1, <2>2 DEF Ordered
  <1>5. worker'[w].pc = "unborn" /\ \A v \in Workers \ {w} : worker'[v] = worker[v]
    BY <1>1 DEF Close, Idle
  <1>6. ASSUME NEW v \in Workers, v # w  PROVE Pending(v)'
    <2>1. Busy(v) => worker[v].serves \in Clients \ {c}
      BY <1>2, <1>6, OneThreadEach, ServesPeer DEF Busy, Started
    <2>2. Busy(v)' <=> Busy(v)  BY <1>5, <1>6 DEF Busy
    <2> QED BY <1>3, <1>5, <1>6, <2>1, <2>2, PendingStays DEF InTurn
  <1>7. Pending(w)'  BY <1>5 DEF Pending, Busy
  <1> QED BY <1>4, <1>6, <1>7 DEF InTurn

\* The other steps leave the streams, the answers and the messages alone.
LEMMA QuietSteps ==
  ASSUME Handed, NEW w \in Workers,
         \/ \E c \in Clients : Connect(c) \/ Leave(c) \/ Accept(c)
         \/ CreateThread \/ ThreadLimit
         \/ \E v \in Workers : ReadSlot(v) \/ EndOfStream(v) \/ ZeroLength(v) \/ Process(v) \/ ReturnLength(v)
         \/ UNCHANGED vars
  PROVE  /\ UNCHANGED <<sent, wire, got, alive>>
         /\ Busy(w)' => /\ Busy(w) /\ worker'[w].serves = worker[w].serves
                        /\ worker'[w].message = worker[w].message
  <1>1. worker \in [Workers -> Threads]  BY DEF Handed, Shape
  <1>2. CASE (\E c \in Clients : Connect(c) \/ Leave(c) \/ Accept(c)) \/ ThreadLimit \/ UNCHANGED vars
    BY <1>2 DEF Connect, Leave, Accept, ThreadLimit, vars, Busy
  <1>3. CASE CreateThread
    <2>1. PICK v \in Workers :
            worker' = [worker EXCEPT ![v] = [Idle EXCEPT !.pc = "start", !.serves = files[slot]]]
      BY <1>3 DEF CreateThread
    <2>2. worker'[w] = worker[w] \/ worker'[w].pc = "start"
      BY <1>1, <2>1 DEF Idle
    <2> QED BY <1>3, <2>2 DEF CreateThread, Busy
  <1>4. ASSUME NEW v \in Workers, ReadSlot(v) \/ EndOfStream(v)
        PROVE  worker'[w] = worker[w] \/ worker'[w].pc \in {"read", "close"}
    BY <1>1, <1>4 DEF ReadSlot, EndOfStream, Threads
  <1>5. ASSUME NEW v \in Workers, ZeroLength(v) \/ Process(v) \/ ReturnLength(v)
        PROVE  /\ worker'[w].serves = worker[w].serves /\ worker'[w].message = worker[w].message
               /\ worker'[w] = worker[w] \/ Busy(w)
    BY <1>1, <1>5 DEF ZeroLength, Process, ReturnLength, Threads, Busy
  <1>6. ASSUME NEW v \in Workers,
               ReadSlot(v) \/ EndOfStream(v) \/ ZeroLength(v) \/ Process(v) \/ ReturnLength(v)
        PROVE  UNCHANGED <<sent, wire, got, alive>>
    BY <1>6 DEF ReadSlot, EndOfStream, ZeroLength, Process, ReturnLength
  <1> QED BY <1>2, <1>3, <1>4, <1>5, <1>6 DEF Busy

LEMMA StepInTurn ==
  ASSUME Pieces = 1, Handed, Single, InTurn, [Next]_vars
  PROVE  InTurn'
  <1>1. CASE \/ \E c \in Clients : Connect(c) \/ Leave(c) \/ Accept(c)
             \/ CreateThread \/ ThreadLimit
             \/ \E v \in Workers : ReadSlot(v) \/ EndOfStream(v) \/ ZeroLength(v) \/ Process(v) \/ ReturnLength(v)
             \/ UNCHANGED vars
    <2>1. \A w \in Workers :
            Busy(w)' => /\ Busy(w) /\ worker'[w].serves = worker[w].serves
                        /\ worker'[w].message = worker[w].message
      BY <1>1, QuietSteps
    <2>2. UNCHANGED <<sent, wire, got>>
      BY <1>1 DEF Connect, Leave, Accept, CreateThread, ThreadLimit, ReadSlot, EndOfStream,
         ZeroLength, Process, ReturnLength, vars
    <2> QED BY <2>1, <2>2, QuietInTurn
  <1>2. ASSUME NEW c \in Clients, Send(c)  PROVE InTurn'  BY <1>2, SendInTurn
  <1>3. ASSUME NEW w \in Workers, listenToClient(w) \/ WriteAnswer(w) \/ Close(w)  PROVE InTurn'
    BY <1>3, ListenInTurn, AnswerInTurn, CloseInTurn
  <1> QED BY <1>1, <1>2, <1>3 DEF Next, startServer, Handle

LEMMA InitInTurn == Init => Single /\ InTurn
  <1> SUFFICES ASSUME Init  PROVE Single /\ InTurn
    OBVIOUS
  <1>1. Single  BY NoOneIsNoClient DEF Init, Single, Answers
  <1>2. \A c \in Clients : got[c] = << >> /\ wire[c] = << >> /\ sent[c] = 0
    BY DEF Init
  <1>3. \A c \in Clients : Ordered(c)
    <2>1. \A c : Ascending(c, << >>, << >>, 0)
      <3>1. 1..Len(<< >>) = {}  OBVIOUS
      <3> QED BY <3>1 DEF Ascending, Before
    <2> QED BY <1>2, <2>1 DEF Ordered
  <1>4. \A w \in Workers : Pending(w)  BY DEF Init, Pending, Busy, Idle
  <1> QED BY <1>1, <1>3, <1>4 DEF InTurn

\* Every client gets the answers to its own requests, in the order of the
\* requests and none twice, however many clients, threads and requests there
\* are and however requests share a read, if they arrive in one piece and
\* nobody connects while a thread is starting.
THEOREM ServerAnswersInOrder ==
  ASSUME Staggered, Pieces = 1
  PROVE  Spec => []AnswersInOrder
  <1> DEFINE I == Handed /\ Single /\ InTurn
  <1>1. Init => I  BY InitHanded, InitInTurn
  <1>2. I /\ [Next]_vars => I'  BY StepHanded, StepSingle, StepInTurn
  <1>3. I => AnswersInOrder  BY DEF InTurn, Ordered, Ascending, AnswersInOrder
  <1> QED BY <1>1, <1>2, <1>3, PTL DEF Spec

-----------------------------------------------------------------------------
(* Clients that wait for each answer. *)

\* What is under way of client c's only request: on the stream, or in the
\* buffer of its thread.  A client that has been reset has none.
Waiting(c) ==
  wire[c] # << >> => /\ Len(wire[c]) = 1 /\ sent[c] = Len(got[c]) + 1 /\ client[c] # "reset"
                     /\ \A w \in Workers : Busy(w) => worker[w].serves # c

Served(w) ==
  LET c == worker[w].serves IN Busy(w) => sent[c] = Len(got[c]) + 1 /\ client[c] # "reset"

OneAtATime ==
  alive /\ (\A c \in Clients : Len(got[c]) <= sent[c] /\ Waiting(c)) /\ \A w \in Workers : Served(w)

LEMMA Lengths ==
  ASSUME Handed, Single
  PROVE  \A c \in Clients : Len(got[c]) \in Nat /\ Len(wire[c]) \in Nat /\ sent[c] \in Nat
  <1>1. \A c \in Clients : got[c] \in Answers /\ wire[c] \in Messages /\ sent[c] \in Nat
    BY DEF Handed, Shape, Single
  <1>2. ASSUME NEW u \in Messages  PROVE Len(u) \in Nat
    <2> DEFINE S == Nat \X Nat
    <2>1. u \in Seq(S)  BY DEF Messages
    <2> HIDE DEF S
    <2> QED BY <2>1
  <1> QED BY <1>1, <1>2, AnswerTyped

LEMMA ServedStays ==
  ASSUME NEW w \in Workers, Served(w), Busy(w)' => Busy(w),
         Busy(w)' => worker'[w].serves = worker[w].serves,
         LET c == worker[w].serves
         IN  Busy(w) => /\ got'[c] = got[c] /\ sent'[c] = sent[c]
                        /\ client'[c] = "reset" => client[c] = "reset"
  PROVE  Served(w)'
  BY DEF Served

LEMMA QuietAtATime ==
  ASSUME Handed, OneAtATime, UNCHANGED <<sent, wire, got, alive>>,
         \A c \in Clients : client'[c] = "reset" => client[c] = "reset",
         \A w \in Workers : Busy(w)' => Busy(w) /\ worker'[w].serves = worker[w].serves
  PROVE  OneAtATime'
  <1>1. \A c \in Clients : Len(got'[c]) <= sent'[c] /\ Waiting(c)'
    BY DEF OneAtATime, Waiting
  <1>2. ASSUME NEW w \in Workers  PROVE Served(w)'
    <2>1. Busy(w) => worker[w].serves \in Clients  BY ServesPeer DEF Busy, Started
    <2> QED BY <2>1, ServedStays DEF OneAtATime
  <1> QED BY <1>1, <1>2 DEF OneAtATime

\* A client that sends has nothing under way.
LEMMA SendAtATime ==
  ASSUME Pieces = 1, MaxUnanswered = 1, Handed, Single, OneAtATime, NEW c \in Clients, Send(c)
  PROVE  OneAtATime'
  <1>1. /\ sent \in [Clients -> Nat] /\ wire \in [Clients -> Messages]
        /\ UNCHANGED <<got, client, worker, alive>> /\ client[c] = "open"
    BY DEF Handed, Shape, Send
  <1>2. PICK n \in Nat, k \in Nat : n = sent[c] /\ k = Len(got[c])
    BY Lengths
  <1>3. n = k
    <2>1. k <= n /\ n - k < 1  BY <1>2 DEF OneAtATime, Send
    <2> QED BY <2>1
  <1>12. sent[c] # Len(got[c]) + 1
    <2>1. n # k + 1  BY <1>3
    <2> QED BY <1>2, <2>1
  <1>4. wire[c] = << >>  BY <1>12 DEF OneAtATime, Waiting
  <1>5. \A w \in Workers : Busy(w) => worker[w].serves # c
    BY <1>12 DEF OneAtATime, Served
  <1>6. PICK t : t = wire[c] \o [p \in 1..Pieces |-> <<n + 1, p>>]  OBVIOUS
  <1>7. /\ sent'[c] = n + 1 /\ wire'[c] = t
        /\ \A e \in Clients \ {c} : sent'[e] = sent[e] /\ wire'[e] = wire[e]
    BY <1>1, <1>2, <1>6 DEF Send
  <1>8. Len(t) = 1
    <2>1. Len(t) = Len(wire[c]) + 1  BY <1>1, <1>6, Appended
    <2> QED BY <1>4, <2>1
  <1>9. Len(got'[c]) <= sent'[c] /\ Waiting(c)'
    BY <1>1, <1>2, <1>3, <1>5, <1>7, <1>8 DEF Waiting, Busy
  <1>10. \A e \in Clients \ {c} : Len(got'[e]) <= sent'[e] /\ Waiting(e)'
    BY <1>1, <1>7 DEF OneAtATime, Waiting, Busy
  <1>11. ASSUME NEW w \in Workers  PROVE Served(w)'
    <2>1. Busy(w) => worker[w].serves \in Clients \ {c}
      BY <1>5, ServesPeer DEF Busy, Started
    <2> QED BY <1>1, <1>7, <2>1, ServedStays DEF OneAtATime, Busy
  <1> QED BY <1>1, <1>9, <1>10, <1>11 DEF OneAtATime

\* A thread that reads takes the whole stream.
LEMMA ListenAtATime ==
  ASSUME Handed, Single, OneAtATime, NEW w \in Workers, listenToClient(w)
  PROVE  OneAtATime'
  <1>1. /\ wire \in [Clients -> Messages] /\ worker \in [Workers -> Threads]
        /\ UNCHANGED <<got, client, sent, alive>>
    BY DEF Handed, Shape, listenToClient
  <1>2. PICK c \in Clients : c = Peer(w) /\ c = worker[w].serves /\ Started(w) /\ wire[c] # << >>
    BY ServesPeer DEF listenToClient, Started
  <1>3. PICK n \in 1..Len(wire[c]) :
          /\ worker' = [worker EXCEPT ![w].pc = "zero", ![w].message = SubSeq(wire[c], 1, n)]
          /\ wire' = [wire EXCEPT ![c] = SubSeq(@, n + 1, Len(@))]
    BY <1>2 DEF listenToClient
  <1>4. Len(wire[c]) = 1 /\ sent[c] = Len(got[c]) + 1 /\ client[c] # "reset"
    BY <1>2 DEF OneAtATime, Waiting
  <1>5. /\ wire'[c] = SubSeq(wire[c], 2, 1) /\ \A e \in Clients \ {c} : wire'[e] = wire[e]
    BY <1>1, <1>3, <1>4
  <1>6. SubSeq(wire[c], 2, 1) = << >>
    <2> DEFINE S == Nat \X Nat
    <2>1. wire[c] \in Seq(S)  BY <1>1 DEF Messages
    <2> HIDE DEF S
    <2> QED BY <2>1
  <1>7. /\ worker'[w].serves = c /\ \A x \in Workers \ {w} : worker'[x] = worker[x]
    BY <1>1, <1>2, <1>3 DEF Threads
  <1>8. \A e \in Clients : Len(got'[e]) <= sent'[e] /\ Waiting(e)'
    <2>1. \A e \in Clients : Len(got'[e]) <= sent'[e]  BY <1>1 DEF OneAtATime
    <2>2. Waiting(c)'  BY <1>5, <1>6 DEF Waiting
    <2>3. ASSUME NEW e \in Clients, e # c  PROVE Waiting(e)'
      BY <1>1, <1>5, <1>7, <2>3 DEF OneAtATime, Waiting, Busy
    <2> QED BY <2>1, <2>2, <2>3
  <1>9. Served(w)'  BY <1>1, <1>4, <1>7 DEF Served
  <1>10. ASSUME NEW x \in Workers, x # w  PROVE Served(x)'
    BY <1>1, <1>7, <1>10 DEF OneAtATime, Served, Busy
  <1> QED BY <1>1, <1>8, <1>9, <1>10 DEF OneAtATime

\* A thread that writes has the client's only request: the client was not
\* reset before.
LEMMA AnswerAtATime ==
  ASSUME Handed, Single, OneAtATime, NEW w \in Workers, WriteAnswer(w)
  PROVE  OneAtATime'
  <1>1. /\ client \in [Clients -> Ends] /\ worker \in [Workers -> Threads]
        /\ got \in [Clients -> Answers] /\ UNCHANGED <<sent, wire>>
    BY DEF Handed, Shape, Single, WriteAnswer
  <1>2. PICK c \in Clients : c = worker[w].serves /\ c = Peer(w) /\ Started(w) /\ Busy(w)
    BY ServesPeer DEF WriteAnswer, Started, Busy
  <1>3. /\ sent[c] = Len(got[c]) + 1 /\ client[c] # "reset"
        /\ wire[c] = << >>
    BY <1>2 DEF OneAtATime, Served, Waiting
  <1>4. alive'
    BY <1>2, <1>3 DEF WriteAnswer, OneAtATime
  <1>5. /\ \A e \in Clients \ {c} : got'[e] = got[e] /\ client'[e] = client[e]
        /\ got'[c] = got[c] \/ \E x : got'[c] = Append(got[c], x)
    BY <1>1, <1>2 DEF WriteAnswer
  <1>6. Len(got'[c]) <= sent'[c]
    <2>1. \A x : Len(Append(got[c], x)) = Len(got[c]) + 1  BY <1>1 DEF Answers
    <2>2. Len(got[c]) \in Nat  BY Lengths
    <2> QED BY <1>1, <1>3, <1>5, <2>1, <2>2
  <1>7. /\ worker'[w].pc = "read" /\ \A v \in Workers \ {w} : worker'[v] = worker[v]
    BY <1>1 DEF WriteAnswer, Threads
  <1>8. \A e \in Clients : Len(got'[e]) <= sent'[e] /\ Waiting(e)'
    <2>1. Waiting(c)'  BY <1>1, <1>3 DEF Waiting
    <2>2. ASSUME NEW e \in Clients, e # c  PROVE Len(got'[e]) <= sent'[e] /\ Waiting(e)'
      BY <1>1, <1>5, <1>7, <2>2 DEF OneAtATime, Waiting, Busy
    <2> QED BY <1>6, <2>1, <2>2
  <1>9. Served(w)'  BY <1>7 DEF Served, Busy
  <1>10. ASSUME NEW v \in Workers, v # w  PROVE Served(v)'
    <2>1. Busy(v) => worker[v].serves \in Clients \ {c}
      BY <1>2, <1>10, OneThreadEach, ServesPeer DEF Busy, Started
    <2>2. Busy(v)' <=> Busy(v)  BY <1>7, <1>10 DEF Busy
    <2> QED BY <1>1, <1>5, <1>7, <1>10, <2>1, <2>2, ServedStays DEF OneAtATime
  <1> QED BY <1>4, <1>8, <1>9, <1>10 DEF OneAtATime

LEMMA CloseAtATime ==
  ASSUME Handed, Single, OneAtATime, NEW w \in Workers, Close(w)
  PROVE  OneAtATime'
  <1>1. worker \in [Workers -> Threads] /\ UNCHANGED <<sent, got, alive>>
    BY DEF Handed, Shape, Close
  <1>2. \A e \in Clients : /\ wire'[e] = << >> \/ wire'[e] = wire[e]
                           /\ client'[e] = "reset" => client[e] = "reset"
    BY DEF Close
  <1>3. worker'[w].pc = "unborn" /\ \A v \in Workers \ {w} : worker'[v] = worker[v]
    BY <1>1 DEF Close, Idle
  <1>4. \A v \in Workers : Busy(v)' => Busy(v) /\ worker'[v].serves = worker[v].serves
    BY <1>3 DEF Busy
  <1>5. \A e \in Clients : Len(got'[e]) <= sent'[e] /\ Waiting(e)'
    BY <1>1, <1>2, <1>4 DEF OneAtATime, Waiting
  <1>6. ASSUME NEW v \in Workers  PROVE Served(v)'
    <2>1. Busy(v) => worker[v].serves \in Clients  BY ServesPeer DEF Busy, Started
    <2> QED BY <1>1, <1>2, <1>4, <2>1, ServedStays DEF OneAtATime
  <1> QED BY <1>1, <1>5, <1>6 DEF OneAtATime

LEMMA StepAtATime ==
  ASSUME Pieces = 1, MaxUnanswered = 1, Handed, Single, OneAtATime, [Next]_vars
  PROVE  OneAtATime'
  <1>1. CASE \/ \E c \in Clients : Connect(c) \/ Leave(c) \/ Accept(c)
             \/ CreateThread \/ ThreadLimit
             \/ \E v \in Workers : ReadSlot(v) \/ EndOfStream(v) \/ ZeroLength(v) \/ Process(v) \/ ReturnLength(v)
             \/ UNCHANGED vars
    <2>1. \A w \in Workers : Busy(w)' => Busy(w) /\ worker'[w].serves = worker[w].serves
      BY <1>1, QuietSteps
    <2>2. UNCHANGED <<sent, wire, got, alive>>
      BY <1>1 DEF Connect, Leave, Accept, CreateThread, ThreadLimit, ReadSlot, EndOfStream,
         ZeroLength, Process, ReturnLength, vars
    <2>3. client \in [Clients -> Ends]  BY DEF Handed, Shape
    <2>4. \A c \in Clients : client'[c] = "reset" => client[c] = "reset"
      BY <1>1, <2>3 DEF Connect, Leave, Accept, CreateThread, ThreadLimit, ReadSlot, EndOfStream,
         ZeroLength, Process, ReturnLength, vars
    <2> QED BY <2>1, <2>2, <2>4, QuietAtATime
  <1>2. ASSUME NEW c \in Clients, Send(c)  PROVE OneAtATime'  BY <1>2, SendAtATime
  <1>3. ASSUME NEW w \in Workers, listenToClient(w) \/ WriteAnswer(w) \/ Close(w)
        PROVE  OneAtATime'
    BY <1>3, ListenAtATime, AnswerAtATime, CloseAtATime
  <1> QED BY <1>1, <1>2, <1>3 DEF Next, startServer, Handle

\* No client's leaving ends the controller, however many clients come and go
\* and whatever they have asked for by then, if each waits for its answers,
\* its requests arrive in one piece and nobody connects while a thread is
\* starting: what the thread writes after the client has left is one answer.
THEOREM ServerClientLossIsLocal ==
  ASSUME Staggered, Pieces = 1, MaxUnanswered = 1
  PROVE  Spec => []ClientLossIsLocal
  <1> DEFINE I == Handed /\ Single /\ OneAtATime
  <1>1. Init => I
    <2>1. Init => OneAtATime  BY DEF Init, OneAtATime, Waiting, Served, Busy, Idle
    <2> QED BY <2>1, InitHanded, InitInTurn
  <1>2. I /\ [Next]_vars => I'  BY StepHanded, StepSingle, StepAtATime
  <1>3. I => ClientLossIsLocal  BY DEF OneAtATime, ClientLossIsLocal
  <1> QED BY <1>1, <1>2, <1>3, PTL DEF Spec
=============================================================================
