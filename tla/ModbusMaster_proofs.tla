------------------------- MODULE ModbusMaster_proofs -------------------------
(***************************************************************************)
(* The Modbus master layer for any number of devices and any layout of     *)
(* their registers that fits into the buffers: a request carries the       *)
(* outputs of one scan, the program sees one reading of a device, and the  *)
(* running indices keep to the devices' shares while nothing is passed     *)
(* over.                                                                   *)
(***************************************************************************)
EXTENDS ModbusMaster, Induction

\* The index is that of a cell whenever an output is loaded.
InRange == poll.stage = "loading" /\ Len(temp) < Num => index[Block] \in Cells

-----------------------------------------------------------------------------
(* Shares. *)

Pos == [di |-> 1, co |-> 2, ir |-> 3, hr |-> 4]

LEMMA BlockOrder ==
  /\ \A k \in 1..4 : Order[k] \in Blocks /\ Pos[Order[k]] = k
  /\ \A b \in Blocks : Pos[b] \in 1..4 /\ Order[Pos[b]] = b
  /\ Blocks = InputBlocks \cup OutputBlocks /\ InputBlocks \cap OutputBlocks = {}
  BY DEF Order, Pos, Blocks, InputBlocks, OutputBlocks

\* A share starts where that of the device before ends.
LEMMA ShareFollows ==
  ASSUME NEW b \in Blocks
  PROVE  /\ Share(1, b) = 0
         /\ \A d \in Devices : /\ Share(d, b) \in Nat /\ Regs[d][b] \in Nat
                               /\ Share(d + 1, b) = Share(d, b) + Regs[d][b]
<1> DEFINE r == [d \in Devices |-> Regs[d][b]]
           sum == CHOOSE sum : sum = [e \in 0..NumDevices |->
                                        IF e = 0 THEN 0 ELSE sum[e - 1] + Regs[e][b]]
<1>1. NumDevices \in Nat /\ r \in [1..NumDevices -> Nat]
  BY MasterAssumption DEF Devices
<1>2. PICK g \in [0..NumDevices -> Nat] :
        g = [e \in 0..NumDevices |-> IF e = 0 THEN 0 ELSE g[e - 1] + r[e]]
  <2> HIDE DEF r
  <2> QED BY <1>1, RunningSum
<1>3. g = [e \in 0..NumDevices |-> IF e = 0 THEN 0 ELSE g[e - 1] + Regs[e][b]]
  <2>1. \A e \in 0..NumDevices : e # 0 => r[e] = Regs[e][b]
    BY <1>1 DEF Devices
  <2> HIDE DEF r
  <2> QED BY <1>2, <2>1
<1>4. sum = [e \in 0..NumDevices |-> IF e = 0 THEN 0 ELSE sum[e - 1] + Regs[e][b]]
  BY <1>3
<1>5. \A d \in 1..(NumDevices + 1) : Share(d, b) = sum[d - 1]
  BY DEF Share
<1> HIDE DEF sum
<1>6. sum[0] = 0 /\ \A e \in Devices : sum[e] = sum[e - 1] + Regs[e][b]
  BY <1>1, <1>4 DEF Devices
<1>7. \A d \in Devices : Regs[d][b] \in Nat
  BY MasterAssumption
<1>8. \A d \in Devices : sum[d - 1] \in Nat
  <2> DEFINE T == {n \in Nat : n \in 0..NumDevices => sum[n] \in Nat}
  <2>1. 0 \in T
    BY <1>6
  <2>2. ASSUME NEW n \in Nat, n \in T PROVE n + 1 \in T
    <3>1. n + 1 \in 0..NumDevices => sum[n + 1] = sum[n] + Regs[n + 1][b] /\ sum[n] \in Nat
      BY <1>1, <1>6, <2>2 DEF Devices
    <3> QED BY <3>1, <1>1, <1>7 DEF Devices
  <2> HIDE DEF T
  <2>3. Nat \subseteq T
    BY <2>1, <2>2, SetInduction
  <2> QED BY <1>1, <2>3 DEF T, Devices
<1>9. Share(1, b) = 0
  BY <1>1, <1>5, <1>6
<1>10. \A d \in Devices : Share(d, b) = sum[d - 1] /\ Share(d + 1, b) = sum[d]
  BY <1>1, <1>5 DEF Devices
<1> QED BY <1>6, <1>7, <1>8, <1>9, <1>10

-----------------------------------------------------------------------------
(* One scan in a request. *)

Outputs == {None} \cup [cell : Cells, scan : {0, 1}]

PollType ==
  /\ poll \in [stage : {"visit", "call", "store", "storing", "loading", "write"},
               dev : 1..(NumDevices + 1), block : 1..4]
  /\ poll.stage # "visit" => poll.dev \in Devices
  /\ poll.stage = "visit" => poll.block = 1
  /\ poll.stage = "store" => Block \in InputBlocks
  /\ poll.stage \in {"loading", "write"} => Block \in OutputBlocks

BufferType ==
  /\ scanNo \in {0, 1}
  /\ outBuf \in [OutputBlocks -> [Cells -> Outputs]]

\* All values there are come from scan s.
BufferOf(s) ==
  \A b \in OutputBlocks, k \in Cells : outBuf[b][k] = None \/ outBuf[b][k].scan = s
TempOf(s) == \A j \in 1..Len(temp) : temp[j] = None \/ temp[j].scan = s

\* While outputs are loaded the lock keeps the scan away, so that what is
\* loaded and what is still in the buffer are of the same scan; afterwards
\* tempBuff is the polling thread's own.
Loading ==
  poll.stage = "loading" =>
    /\ ioLock = "poll"
    /\ temp \in Seq(Outputs) /\ Len(temp) <= Num
    /\ \E s \in {0, 1} : BufferOf(s) /\ TempOf(s)
Writing ==
  poll.stage = "write" =>
    /\ temp \in Seq(Outputs) /\ Len(temp) = Num
    /\ \E s \in {0, 1} : TempOf(s)

IInv == /\ PollType /\ BufferType
        /\ \E s \in {0, 1} : BufferOf(s)
        /\ Loading /\ Writing

-----------------------------------------------------------------------------
\* The invariant says what OneScan says of a request.
LEMMA RequestOfOneScan == IInv => OneScan
<1>1. SUFFICES ASSUME IInv, poll.stage = "write",
                      NEW i \in 1..Num, NEW j \in 1..Num,
                      temp[i] # None, temp[j] # None
               PROVE  temp[i].scan = temp[j].scan
  BY DEF OneScan
<1>2. PICK s \in {0, 1} : TempOf(s)
  BY <1>1 DEF IInv, Writing
<1>3. Len(temp) = Num
  BY <1>1 DEF IInv, Writing
<1>4. temp[i].scan = s /\ temp[j].scan = s
  BY <1>1, <1>2, <1>3 DEF TempOf
<1>5. QED
  BY <1>4

\* Before the first scan the buffers hold no value of any.
LEMMA InitOneScan == Init => IInv
<1>1. SUFFICES ASSUME Init PROVE IInv
  OBVIOUS
<1>2. PollType
  BY <1>1, MasterAssumption DEF Init, PollType, At, Devices
<1>3. outBuf = [b \in OutputBlocks |-> [k \in Cells |-> None]]
  BY <1>1 DEF Init
<1>4. BufferType
  <2>1. None \in Outputs
    BY DEF Outputs
  <2>2. QED
    BY <1>1, <1>3, <2>1 DEF Init, BufferType
<1>5. BufferOf(0)
  BY <1>3 DEF BufferOf
<1>6. Loading /\ Writing
  BY <1>1 DEF Init, Loading, Writing, At
<1>7. QED
  BY <1>2, <1>4, <1>5, <1>6 DEF IInv

\* The block after a block, and where it leaves the polling thread.
LEMMA AfterType ==
  ASSUME NEW d \in Devices, NEW k \in 1..4
  PROVE  /\ After(d, k) \in [stage : {"visit", "call"}, dev : 1..(NumDevices + 1),
                             block : 1..4]
         /\ After(d, k).stage = "call" => After(d, k).dev \in Devices
         /\ After(d, k).stage = "visit" => After(d, k).block = 1
  BY MasterAssumption DEF After, At, Devices

\* The polling thread goes elsewhere than into a section, and leaves the
\* output buffers alone.
LEMMA GoesOn ==
  ASSUME IInv, UNCHANGED <<outBuf, scanNo>>, PollType',
         poll'.stage \notin {"loading", "write"}
  PROVE  IInv'
<1>1. BufferType' /\ \E s \in {0, 1} : BufferOf(s)'
  BY DEF IInv, BufferType, BufferOf
<1>2. Loading' /\ Writing'
  BY DEF Loading, Writing
<1>3. QED
  BY <1>1, <1>2 DEF IInv

\* A step to the block after this one is such a step.
LEMMA GoesAfter ==
  ASSUME IInv, poll.stage # "visit", UNCHANGED <<outBuf, scanNo>>,
         poll' = After(poll.dev, poll.block)
  PROVE  IInv'
<1>1. poll.dev \in Devices /\ poll.block \in 1..4
  BY DEF IInv, PollType
<1>2. /\ poll' \in [stage : {"visit", "call"}, dev : 1..(NumDevices + 1), block : 1..4]
      /\ poll'.stage = "call" => poll'.dev \in Devices
      /\ poll'.stage = "visit" => poll'.block = 1
  BY <1>1, AfterType
<1>3. PollType'
  BY <1>2 DEF PollType
<1>4. poll'.stage \notin {"loading", "write"}
  BY <1>2
<1>5. QED
  BY <1>3, <1>4, GoesOn

\* A step of another thread that leaves the polling thread's variables and the
\* output buffers alone.
LEMMA Elsewhere ==
  ASSUME IInv, scanNo' \in {0, 1}, UNCHANGED <<outBuf, poll, temp, ioLock>>
  PROVE  IInv'
<1>1. PollType' /\ BufferType'
  BY DEF IInv, PollType, BufferType, Block
<1>2. \A s \in {0, 1} : (BufferOf(s)' <=> BufferOf(s)) /\ (TempOf(s)' <=> TempOf(s))
  BY DEF BufferOf, TempOf
<1>3. Loading' /\ Writing'
  BY <1>2 DEF IInv, Loading, Writing, Num, Block
<1>4. QED
  BY <1>1, <1>2, <1>3 DEF IInv

\* A scan leaves its outputs in the buffers only while none are loaded.
LEMMA OutputsOneScan == IInv /\ updateBuffersOut => IInv'
<1>1. SUFFICES ASSUME IInv, updateBuffersOut PROVE IInv'
  OBVIOUS
<1>2. outBuf' = [b \in OutputBlocks |-> [k \in Cells |-> [cell |-> k, scan |-> scanNo]]]
  BY <1>1 DEF updateBuffersOut
<1>3. UNCHANGED <<poll, temp, scanNo, ioLock>> /\ ioLock = "free" /\ scanNo \in {0, 1}
  BY <1>1 DEF updateBuffersOut, IInv, BufferType
<1>4. PollType'
  BY <1>1, <1>3 DEF IInv, PollType, Block
<1>5. BufferType'
  <2>1. \A k \in Cells : [cell |-> k, scan |-> scanNo] \in Outputs
    BY <1>3 DEF Outputs
  <2>2. QED
    BY <1>2, <1>3, <2>1 DEF BufferType
<1>6. BufferOf(scanNo)'
  BY <1>2, <1>3 DEF BufferOf
<1>7. \E s \in {0, 1} : BufferOf(s)'
  BY <1>3, <1>6, <1>2 DEF BufferOf
<1>8. poll.stage # "loading"
  BY <1>1, <1>3 DEF IInv, Loading
<1>9. Loading' /\ Writing'
  BY <1>1, <1>3, <1>8 DEF IInv, Loading, Writing, TempOf, Num, Block
<1>10. QED
  BY <1>4, <1>5, <1>7, <1>9 DEF IInv

\* A section starts: the lock is taken, and what is loaded starts empty.
LEMMA TakeOneScan == IInv /\ TakeLock => IInv'
<1>1. SUFFICES ASSUME IInv, TakeLock PROVE IInv'
  OBVIOUS
<1>2. /\ poll' = [poll EXCEPT !.stage = IF Block \in InputBlocks THEN "storing"
                                                                ELSE "loading"]
      /\ ioLock' = "poll" /\ UNCHANGED <<outBuf, scanNo>>
      /\ poll.stage \in {"store", "call"} /\ (poll.stage = "store" \/ Block \in OutputBlocks)
  BY <1>1 DEF TakeLock, scanVars
<1>3. Block' = Block /\ Num' = Num
  BY <1>1, <1>2 DEF IInv, PollType, Block, Num
<1>4. PollType /\ BufferType
  BY <1>1 DEF IInv
<1>5. CASE Block \in InputBlocks
  <2>1. poll'.stage = "storing"
    BY <1>2, <1>4, <1>5 DEF PollType
  <2>2. PollType'
    BY <1>2, <1>4, <1>5, <2>1 DEF PollType
  <2>3. QED
    BY <1>1, <1>2, <2>1, <2>2, GoesOn
<1>6. CASE Block \notin InputBlocks
  <2>1. poll'.stage = "loading" /\ Block \in OutputBlocks
    BY <1>2, <1>4, <1>6 DEF PollType
  <2>2. PollType'
    BY <1>2, <1>3, <1>4, <1>6, <2>1 DEF PollType
  <2>3. temp' = << >>
    BY <1>1, <1>6 DEF TakeLock
  <2>4. BufferType' /\ \A s \in {0, 1} : BufferOf(s)' <=> BufferOf(s)
    BY <1>2, <1>4 DEF BufferType, BufferOf
  <2>5. \A s \in {0, 1} : TempOf(s)'
    BY <2>3 DEF TempOf
  <2>6. Num \in Nat
    BY <1>4, <1>2, MasterAssumption DEF PollType, Num, Block, Order, Blocks, OutputBlocks,
       InputBlocks
  <2>7. temp' \in Seq(Outputs) /\ Len(temp') <= Num'
    BY <1>3, <2>3, <2>6
  <2>8. Loading'
    BY <1>1, <1>2, <2>4, <2>5, <2>7 DEF IInv, Loading
  <2>9. Writing'
    BY <2>1 DEF Writing
  <2>10. QED
    BY <1>1, <2>2, <2>4, <2>8, <2>9 DEF IInv
<1>7. QED
  BY <1>5, <1>6

\* The value loaded is of the buffer's scan, as the ones before it.
LEMMA LoadOneScan == IInv /\ InRange /\ LoadOne => IInv'
<1>1. SUFFICES ASSUME IInv, InRange, LoadOne PROVE IInv'
  OBVIOUS
<1>2. /\ poll.stage = "loading" /\ Len(temp) < Num
      /\ temp' = Append(temp, outBuf[Block][index[Block]])
      /\ UNCHANGED <<poll, outBuf, scanNo, ioLock>>
  BY <1>1 DEF LoadOne, scanVars
<1>3. PollType' /\ BufferType'
  BY <1>1, <1>2 DEF IInv, PollType, BufferType, Block
<1>4. Block \in OutputBlocks /\ index[Block] \in Cells
  BY <1>1, <1>2 DEF IInv, PollType, InRange
<1>5. temp \in Seq(Outputs) /\ ioLock = "poll"
  BY <1>1, <1>2 DEF IInv, Loading
<1>6. outBuf[Block][index[Block]] \in Outputs
  BY <1>1, <1>4 DEF IInv, BufferType
<1>7. PICK s \in {0, 1} : BufferOf(s) /\ TempOf(s)
  BY <1>1, <1>2 DEF IInv, Loading
<1>8. BufferOf(s)'
  BY <1>2, <1>7 DEF BufferOf
<1>9. TempOf(s)'
  <2>1. outBuf[Block][index[Block]] = None \/ outBuf[Block][index[Block]].scan = s
    BY <1>4, <1>7 DEF BufferOf
  <2>2. Len(temp') = Len(temp) + 1
    BY <1>2, <1>5, <1>6
  <2>3. \A j \in 1..Len(temp) : temp'[j] = temp[j]
    BY <1>2, <1>5, <1>6
  <2>4. temp'[Len(temp) + 1] = outBuf[Block][index[Block]]
    BY <1>2, <1>5, <1>6
  <2>5. Len(temp) \in Nat
    BY <1>5
  <2>6. SUFFICES ASSUME NEW j \in 1..(Len(temp) + 1)
                 PROVE  temp'[j] = None \/ temp'[j].scan = s
    BY <2>2 DEF TempOf
  <2>7. CASE j = Len(temp) + 1
    BY <2>1, <2>4, <2>7
  <2>8. CASE j \in 1..Len(temp)
    BY <1>7, <2>3, <2>8 DEF TempOf
  <2>9. QED
    BY <2>5, <2>7, <2>8
<1>10. Num \in Nat
  BY <1>1, <1>4, <1>2, MasterAssumption DEF IInv, PollType, Num, Blocks, OutputBlocks
<1>11. temp' \in Seq(Outputs) /\ Len(temp') <= Num /\ Num' = Num
  BY <1>2, <1>5, <1>6, <1>10 DEF Num, Block
<1>12. Loading'
  BY <1>2, <1>5, <1>7, <1>8, <1>9, <1>11 DEF Loading
<1>13. Writing'
  BY <1>2 DEF Writing
<1>14. QED
  BY <1>3, <1>7, <1>8, <1>12, <1>13 DEF IInv

\* The section ends with the request's values complete.
LEMMA ReleaseOneScan == IInv /\ ReleaseLock => IInv'
<1>1. SUFFICES ASSUME IInv, ReleaseLock PROVE IInv'
  OBVIOUS
<1>2. UNCHANGED <<outBuf, scanNo, temp>>
  BY <1>1 DEF ReleaseLock, scanVars
<1>3. CASE poll.stage = "storing"
  <2>1. poll' = After(poll.dev, poll.block)
    BY <1>1, <1>3 DEF ReleaseLock
  <2>2. QED
    BY <1>1, <1>2, <1>3, <2>1, GoesAfter
<1>4. CASE poll.stage = "loading"
  <2>1. Len(temp) = Num /\ poll' = [poll EXCEPT !.stage = "write"]
    BY <1>1, <1>4 DEF ReleaseLock, SectionOver
  <2>2. PollType /\ Block' = Block /\ Num' = Num
    BY <1>1, <2>1 DEF IInv, PollType, Block, Num
  <2>3. PollType' /\ poll'.stage = "write"
    BY <1>4, <2>1, <2>2 DEF PollType
  <2>4. BufferType' /\ \A s \in {0, 1} :
                         (BufferOf(s)' <=> BufferOf(s)) /\ (TempOf(s)' <=> TempOf(s))
    BY <1>1, <1>2 DEF IInv, BufferType, BufferOf, TempOf
  <2>5. Writing'
    BY <1>1, <1>2, <1>4, <2>1, <2>2, <2>4 DEF IInv, Loading, Writing
  <2>6. Loading'
    BY <2>3 DEF Loading
  <2>7. QED
    BY <1>1, <2>3, <2>4, <2>5, <2>6 DEF IInv
<1>5. QED
  BY <1>1, <1>3, <1>4 DEF ReleaseLock, SectionOver

\* Every step keeps the invariant.
LEMMA NextOneScan == IInv /\ InRange /\ [Next]_vars => IInv'
<1>1. SUFFICES ASSUME IInv, InRange, [Next]_vars PROVE IInv'
  OBVIOUS
<1>2. scanNo \in {0, 1} /\ PollType
  BY <1>1 DEF IInv, BufferType
<1>3. ASSUME NEW d \in Devices, Change(d) PROVE IInv'
  BY <1>1, <1>2, <1>3, Elsewhere DEF Change, scanVars
<1>4. CASE updateBuffersIn
  BY <1>1, <1>2, <1>4, Elsewhere DEF updateBuffersIn
<1>5. CASE RunProgram
  <2>1. 1 - scanNo \in {0, 1}
    BY <1>2
  <2>2. QED
    BY <1>1, <1>5, <2>1, Elsewhere DEF RunProgram
<1>6. CASE updateBuffersOut
  BY <1>1, <1>6, OutputsOneScan
<1>7. CASE Visit
  <2>1. /\ poll.dev \in Devices /\ UNCHANGED <<outBuf, scanNo>>
        /\ poll' = At("call", poll.dev, 1) \/ poll' = At("visit", poll.dev + 1, 1)
    BY <1>7 DEF Visit, scanVars
  <2>2. PollType' /\ poll'.stage \notin {"loading", "write"}
    BY <2>1, MasterAssumption DEF PollType, At, Devices
  <2>3. QED
    BY <1>1, <2>1, <2>2, GoesOn
<1>8. CASE EmptyBlock
  BY <1>1, <1>8, GoesAfter DEF EmptyBlock, scanVars
<1>9. CASE ReadOk
  <2>1. /\ poll' = At("store", poll.dev, poll.block) /\ poll.stage = "call"
        /\ Block \in InputBlocks /\ UNCHANGED <<outBuf, scanNo>>
    BY <1>9 DEF ReadOk, scanVars
  <2>2. PollType' /\ poll'.stage \notin {"loading", "write"}
    BY <1>2, <2>1 DEF PollType, At, Block
  <2>3. QED
    BY <1>1, <2>1, <2>2, GoesOn
<1>10. CASE ReadFails
  BY <1>1, <1>10, GoesAfter DEF ReadFails, CallFails, scanVars
<1>11. CASE TakeLock
  BY <1>1, <1>11, TakeOneScan
<1>12. CASE StoreOne
  <2>1. UNCHANGED <<poll, outBuf, scanNo>> /\ poll.stage = "storing"
    BY <1>12 DEF StoreOne, scanVars
  <2>2. PollType' /\ poll'.stage \notin {"loading", "write"}
    BY <1>2, <2>1 DEF PollType, Block
  <2>3. QED
    BY <1>1, <2>1, <2>2, GoesOn
<1>13. CASE LoadOne
  BY <1>1, <1>13, LoadOneScan
<1>14. CASE ReleaseLock
  BY <1>1, <1>14, ReleaseOneScan
<1>15. CASE WriteOk
  BY <1>1, <1>15, GoesAfter DEF WriteOk, scanVars
<1>16. CASE WriteFails
  BY <1>1, <1>16, GoesAfter DEF WriteFails, CallFails, scanVars
<1>17. CASE NextPass
  <2>1. poll' = At("visit", 1, 1) /\ UNCHANGED <<outBuf, scanNo>>
    BY <1>17 DEF NextPass, scanVars
  <2>2. PollType' /\ poll'.stage \notin {"loading", "write"}
    BY <2>1, MasterAssumption DEF PollType, At
  <2>3. QED
    BY <1>1, <2>1, <2>2, GoesOn
<1>18. CASE UNCHANGED vars
  BY <1>1, <1>2, <1>18, Elsewhere DEF vars
<1>19. QED
  BY <1>1, <1>3, <1>4, <1>5, <1>6, <1>7, <1>8, <1>9, <1>10, <1>11, <1>12, <1>13,
     <1>14, <1>15, <1>16, <1>17, <1>18 DEF Next, Call, Between, Scan

-----------------------------------------------------------------------------
(* The running indices. *)

\* Registers of the block at hand that its index has passed.
Done == IF poll.stage = "storing" THEN Num - Len(temp)
        ELSE IF poll.stage = "loading" THEN Len(temp)
        ELSE IF poll.stage = "write" THEN Num ELSE 0

\* Where the index of block b should be.
Target(b) == IF Pos[b] < poll.block THEN Share(poll.dev, b) + Regs[poll.dev][b]
             ELSE IF Pos[b] = poll.block THEN Share(poll.dev, b) + Done
             ELSE Share(poll.dev, b)

\* The blocks whose indices nothing displaced in this pass.
InStep == IF skipped THEN {} ELSE IF misread THEN OutputBlocks ELSE Blocks

\* These are where they should be; those of outputs never run ahead.
Indices ==
  /\ index \in [Blocks -> Nat]
  /\ \A b \in InStep : index[b] = Target(b)
  /\ \A b \in OutputBlocks : index[b] <= Target(b)

\* A reading, as far as it is not stored yet.
Reading ==
  poll.stage \in {"store", "storing"} =>
    /\ temp \in Seq([dev : Devices, reg : Nat, read : {0, 1}]) /\ Len(temp) <= Num
    /\ poll.stage = "store" => Len(temp) = Num
    /\ \A j \in 1..Len(temp) :
         temp[j] = [dev |-> poll.dev, reg |-> Num - Len(temp) + j - 1, read |-> pass]

OfCell(k) == {None} \cup [cell : {k}, scan : {0, 1}]

\* Outputs are in their cells, and what is loaded is of the share.
OutputCells == \A b \in OutputBlocks, k \in Cells : outBuf[b][k] \in OfCell(k)
CopyOfShare ==
  poll.stage \in {"loading", "write"} /\ ~skipped =>
    \A j \in 1..Len(temp) : temp[j] \in OfCell(Share(poll.dev, Block) + j - 1)

Places == pass \in {0, 1} /\ Indices /\ Reading /\ OutputCells /\ CopyOfShare

\* The numbers these speak of are natural ones.
LEMMA PlaceNumbers ==
  ASSUME IInv
  PROVE  /\ poll.block \in 1..4 /\ Block \in Blocks /\ Pos[Block] = poll.block
         /\ poll.dev \in 1..(NumDevices + 1)
         /\ \A b \in Blocks : Share(poll.dev, b) \in Nat
         /\ poll.stage # "visit" => poll.dev \in Devices /\ Num \in Nat
         /\ poll.dev \in Devices => \A b \in Blocks : Regs[poll.dev][b] \in Nat
<1>1. poll.block \in 1..4 /\ poll.dev \in 1..(NumDevices + 1)
      /\ (poll.stage # "visit" => poll.dev \in Devices)
  BY DEF IInv, PollType
<1>2. Block \in Blocks /\ Pos[Block] = poll.block
  BY <1>1, BlockOrder DEF Block
<1>3. \A b \in Blocks : Share(poll.dev, b) \in Nat
  <2>1. CASE poll.dev \in Devices
    BY <2>1, ShareFollows
  <2>2. CASE poll.dev \notin Devices
    <3>1. NumDevices \in Devices /\ poll.dev = NumDevices + 1
      BY <1>1, <2>2, MasterAssumption DEF Devices
    <3>2. \A b \in Blocks : /\ Share(NumDevices, b) \in Nat /\ Regs[NumDevices][b] \in Nat
                            /\ Share(NumDevices + 1, b) = Share(NumDevices, b) + Regs[NumDevices][b]
      BY <3>1, ShareFollows
    <3> QED BY <3>1, <3>2
  <2> QED BY <2>1, <2>2
<1>4. poll.dev \in Devices => \A b \in Blocks : Regs[poll.dev][b] \in Nat
  BY MasterAssumption
<1> QED BY <1>1, <1>2, <1>3, <1>4 DEF Num

\* With shares that fit, outputs are loaded from inside the buffers.
LEMMA PlacesInRange ==
  ASSUME Fits, IInv, Indices
  PROVE  InRange
<1> SUFFICES ASSUME poll.stage = "loading", Len(temp) < Num PROVE index[Block] \in Cells
  BY DEF InRange
<1>1. /\ poll.dev \in Devices /\ Block \in OutputBlocks /\ Block \in Blocks
      /\ Pos[Block] = poll.block /\ Num \in Nat /\ Len(temp) \in Nat
      /\ poll.block \in 1..4 /\ Share(poll.dev, Block) \in Nat
  BY PlaceNumbers, BlockOrder DEF IInv, PollType, Loading
<1>2. Target(Block) = Share(poll.dev, Block) + Len(temp)
  BY <1>1 DEF Target, Done
<1>3. index[Block] \in Nat /\ index[Block] <= Share(poll.dev, Block) + Len(temp)
  BY <1>1, <1>2 DEF Indices
<1>4. Share(poll.dev, Block) + Num <= Size
  BY <1>1 DEF Fits, Num
<1>5. Size \in Nat
  BY MasterAssumption
<1> QED BY <1>1, <1>3, <1>4, <1>5 DEF Cells

\* A step at the block at hand that moves its index as far as it comes.
LEMMA IndicesStay ==
  ASSUME IInv, Indices, poll.stage # "visit",
         NEW i \in {0, 1}, Done \in Nat, Done' = Done + i,
         poll'.dev = poll.dev, poll'.block = poll.block,
         index' = [index EXCEPT ![Block] = @ + i], UNCHANGED <<skipped, misread>>
  PROVE  Indices'
<1>1. PICK c \in Blocks : c = Block
  BY PlaceNumbers
<1>2. /\ poll.block \in 1..4 /\ Pos[c] = poll.block
      /\ \A b \in Blocks : Share(poll.dev, b) \in Nat
  BY <1>1, PlaceNumbers
<1>3. index \in [Blocks -> Nat]
  BY DEF Indices
<1>4. index' \in [Blocks -> Nat]
  BY <1>1, <1>3
<1>5. index'[c] = index[c] + i /\ \A b \in Blocks \ {c} : index'[b] = index[b]
  BY <1>1, <1>3
<1>6. Target(c) \in Nat /\ Target(c)' = Target(c) + i
  BY <1>2 DEF Target
<1>7. \A b \in Blocks \ {c} : Pos[b] # poll.block
  BY <1>2, BlockOrder
<1>8. \A b \in Blocks \ {c} : Target(b)' = Target(b)
  BY <1>7 DEF Target
<1>9. ASSUME NEW b \in InStep' PROVE index'[b] = Target(b)'
  <2>1. b \in Blocks /\ index[b] = Target(b)
    BY <1>9, BlockOrder DEF Indices, InStep
  <2>2. CASE b = c
    BY <2>1, <2>2, <1>5, <1>6
  <2>3. CASE b # c
    BY <2>1, <2>3, <1>5, <1>8
  <2> QED BY <2>2, <2>3
<1>10. ASSUME NEW b \in OutputBlocks PROVE index'[b] <= Target(b)'
  <2>1. b \in Blocks /\ index[b] <= Target(b) /\ index[b] \in Nat
    BY <1>3, BlockOrder DEF Indices
  <2>2. CASE b = c
    BY <2>1, <2>2, <1>5, <1>6
  <2>3. CASE b # c
    BY <2>1, <2>3, <1>5, <1>8
  <2> QED BY <2>2, <2>3
<1> QED BY <1>4, <1>9, <1>10 DEF Indices

\* A step at the block at hand that moves none.
LEMMA IndicesStill ==
  ASSUME IInv, Indices, Done' = Done, poll'.dev = poll.dev, poll'.block = poll.block,
         UNCHANGED <<index, skipped, misread>>
  PROVE  Indices'
<1>1. \A b \in Blocks : Target(b)' = Target(b)
  BY DEF Target
<1> QED BY <1>1, BlockOrder DEF Indices, InStep

\* Where the indices should be after a block.
LEMMA TargetAfter ==
  ASSUME IInv, poll.stage # "visit", poll' = After(poll.dev, poll.block)
  PROVE  \A b \in Blocks :
           Target(b)' = IF Pos[b] <= poll.block THEN Share(poll.dev, b) + Regs[poll.dev][b]
                                                ELSE Share(poll.dev, b)
<1>1. /\ poll.block \in 1..4 /\ poll.dev \in Devices
      /\ \A b \in Blocks : Share(poll.dev, b) \in Nat /\ Regs[poll.dev][b] \in Nat
  BY PlaceNumbers
<1>2. \A b \in Blocks : Pos[b] \in 1..4
  BY BlockOrder
<1> TAKE b \in Blocks
<1>3. CASE poll.block = 4
  <2>1. poll' = At("visit", poll.dev + 1, 1)
    BY <1>3 DEF After
  <2>2. Target(b)' = Share(poll.dev + 1, b)
    BY <2>1, <1>2, PlaceNumbers, ShareFollows, <1>1 DEF Target, Done, At
  <2> QED BY <2>2, <1>1, <1>2, <1>3, ShareFollows
<1>4. CASE poll.block # 4
  <2>1. poll' = At("call", poll.dev, poll.block + 1)
    BY <1>4 DEF After
  <2>2. Done' = 0
    BY <2>1 DEF Done, At
  <2>3. poll'.dev = poll.dev /\ poll'.block = poll.block + 1
    BY <2>1 DEF At
  <2> QED BY <2>2, <2>3, <1>1, <1>2 DEF Target
<1> QED BY <1>3, <1>4

\* The block is complete, and its index has passed all of it.
LEMMA IndicesAfter ==
  ASSUME IInv, Indices, poll.stage # "visit", Done = Num,
         poll' = After(poll.dev, poll.block), UNCHANGED <<index, skipped>>,
         UNCHANGED misread
  PROVE  Indices'
<1>1. /\ poll.block \in 1..4 /\ poll.dev \in Devices /\ Block \in Blocks /\ Pos[Block] = poll.block
      /\ \A b \in Blocks : Share(poll.dev, b) \in Nat /\ Regs[poll.dev][b] \in Nat
  BY PlaceNumbers
<1>2. \A b \in Blocks : Pos[b] \in 1..4 /\ (Pos[b] = poll.block => b = Block)
  BY <1>1, BlockOrder
<1>3. \A b \in Blocks : Target(b)' = Target(b)
  <2> TAKE b \in Blocks
  <2>1. Target(b)' = IF Pos[b] <= poll.block THEN Share(poll.dev, b) + Regs[poll.dev][b]
                                             ELSE Share(poll.dev, b)
    BY TargetAfter
  <2>2. CASE b = Block
    BY <2>1, <2>2, <1>1 DEF Target, Num
  <2>3. CASE b # Block
    BY <2>1, <2>3, <1>1, <1>2 DEF Target
  <2> QED BY <2>2, <2>3
<1>4. OutputBlocks \subseteq Blocks
  BY BlockOrder
<1> QED BY <1>3, <1>4 DEF Indices, InStep

\* A failed reading moves the index of discrete inputs instead of its own.
LEMMA IndicesMisread ==
  ASSUME IInv, Indices, ReadFails
  PROVE  Indices'
<1>1. PICK c \in Blocks : c = Block
  BY PlaceNumbers
<1>2. /\ poll.block \in 1..4 /\ Pos[c] = poll.block
      /\ \A b \in Blocks : Share(poll.dev, b) \in Nat /\ Regs[poll.dev][b] \in Nat
  BY <1>1, PlaceNumbers DEF ReadFails
<1>3. /\ poll.stage = "call" /\ c \in InputBlocks
      /\ poll' = After(poll.dev, poll.block) /\ skipped' = skipped
      /\ index' = [index EXCEPT !["di"] = @ + Regs[poll.dev]["di"]]
      /\ misread' = (misread \/ c = "ir")
  BY <1>1 DEF ReadFails, CallFails
<1>4. index \in [Blocks -> Nat] /\ "di" \in Blocks
  BY DEF Indices, Blocks
<1>5. index' \in [Blocks -> Nat]
  BY <1>2, <1>3, <1>4
<1>6. /\ index'["di"] = index["di"] + Regs[poll.dev]["di"]
      /\ \A b \in Blocks \ {"di"} : index'[b] = index[b]
  BY <1>3, <1>4
<1>7. \A b \in Blocks : Pos[b] \in 1..4 /\ (Pos[b] = poll.block => b = c)
  BY <1>2, BlockOrder
<1>8. \A b \in Blocks :
        Target(b)' = IF Pos[b] <= poll.block THEN Share(poll.dev, b) + Regs[poll.dev][b]
                                             ELSE Share(poll.dev, b)
  BY <1>3, TargetAfter
<1>9. \A b \in Blocks \ {c} : Target(b)' = Target(b)
  BY <1>2, <1>7, <1>8 DEF Target
<1>10. Target(c) = Share(poll.dev, c) /\ Target(c)' = Share(poll.dev, c) + Regs[poll.dev][c]
  BY <1>2, <1>3, <1>8 DEF Target, Done
<1>11. ASSUME NEW b \in InStep' PROVE index'[b] = Target(b)'
  <2>1. b \in InStep /\ b \in Blocks /\ index[b] = Target(b)
    BY <1>3, <1>11, BlockOrder DEF Indices, InStep
  <2>2. b = "di" => c = "di"
    BY <1>3, <1>11 DEF InStep, InputBlocks, OutputBlocks
  <2>3. CASE b = c
    <3>1. b = "di"
      BY <1>3, <1>11, <2>3 DEF InStep, InputBlocks, OutputBlocks
    <3> QED BY <2>1, <2>3, <3>1, <1>6, <1>10
  <2>4. CASE b # c
    BY <2>1, <2>2, <2>4, <1>6, <1>9
  <2> QED BY <2>3, <2>4
<1>12. ASSUME NEW b \in OutputBlocks PROVE index'[b] <= Target(b)'
  <2>1. b \in Blocks \ {"di"} /\ b # c
    BY <1>3 DEF InputBlocks, OutputBlocks, Blocks
  <2> QED BY <2>1, <1>6, <1>9 DEF Indices
<1> QED BY <1>5, <1>11, <1>12 DEF Indices

\* What a step elsewhere leaves alone.
LEMMA PlacesElsewhere ==
  ASSUME IInv, Places, OutputCells',
         UNCHANGED <<pass, poll, temp, index, skipped, misread>>
  PROVE  Places'
<1>1. Done' = Done /\ \A b \in Blocks : Target(b)' = Target(b)
  BY DEF Done, Target, Num, Block
<1>2. Indices'
  BY <1>1, BlockOrder DEF Places, Indices, InStep
<1>3. Reading' /\ CopyOfShare'
  BY DEF Places, Reading, CopyOfShare, Num, Block
<1> QED BY <1>2, <1>3 DEF Places

\* A step out of a block, which nothing loaded or read survives.
LEMMA PlacesAfter ==
  ASSUME IInv, Places, Indices', UNCHANGED <<pass, outBuf>>,
         poll.stage # "visit", poll' = After(poll.dev, poll.block)
  PROVE  Places'
<1>1. poll.dev \in Devices /\ poll.block \in 1..4
  BY PlaceNumbers
<1>2. poll'.stage \in {"visit", "call"}
  BY <1>1, AfterType
<1>3. Reading' /\ CopyOfShare' /\ OutputCells'
  BY <1>2 DEF Places, Reading, CopyOfShare, OutputCells
<1> QED BY <1>3 DEF Places

LEMMA InitPlaces == Init => Places
<1> SUFFICES ASSUME Init PROVE Places
  OBVIOUS
<1>1. poll = At("visit", 1, 1) /\ index = [b \in Blocks |-> 0]
      /\ outBuf = [b \in OutputBlocks |-> [k \in Cells |-> None]] /\ pass = 0
  BY DEF Init
<1>2. \A b \in Blocks : Target(b) = 0
  <2>1. Done = 0
    BY <1>1 DEF Done, At
  <2>2. \A b \in Blocks : Share(1, b) = 0 /\ Pos[b] \in 1..4
    BY ShareFollows, BlockOrder
  <2> QED BY <1>1, <2>1, <2>2 DEF Target, At
<1>3. Indices
  BY <1>1, <1>2, BlockOrder DEF Indices, InStep
<1>4. Reading /\ CopyOfShare
  BY <1>1 DEF Reading, CopyOfShare, At
<1>5. OutputCells
  BY <1>1 DEF OutputCells, OfCell
<1> QED BY <1>1, <1>3, <1>4, <1>5 DEF Places

\* A visit to a device, or a look past it.
LEMMA VisitPlaces ==
  ASSUME IInv, Places, Visit
  PROVE  Places'
<1>1. /\ poll.dev \in Devices /\ poll.stage = "visit" /\ poll.block \in 1..4
      /\ UNCHANGED <<pass, outBuf, index, misread, temp>>
  BY PlaceNumbers DEF Visit
<1>2. \A b \in Blocks : /\ Pos[b] \in 1..4
                        /\ Share(poll.dev, b) \in Nat /\ Regs[poll.dev][b] \in Nat
                        /\ Share(poll.dev + 1, b) = Share(poll.dev, b) + Regs[poll.dev][b]
  BY <1>1, ShareFollows, BlockOrder
<1>3. poll'.stage \in {"visit", "call"}
  BY DEF Visit, At
<1>4. poll.block = 1
  BY <1>1 DEF IInv, PollType
<1>5. Done = 0 /\ Done' = 0
  BY <1>1, <1>3 DEF Done
<1>6. \A b \in Blocks : Target(b) = Share(poll.dev, b)
  BY <1>2, <1>4, <1>5 DEF Target
<1>7. ASSUME poll' = At("call", poll.dev, 1), UNCHANGED skipped
      PROVE  Indices'
  <2>1. \A b \in Blocks : Target(b)' = Share(poll.dev, b)
    BY <1>2, <1>5, <1>7 DEF Target, At
  <2>2. \A b \in Blocks : Target(b)' = Target(b)
    BY <1>6, <2>1
  <2> QED BY <1>1, <1>7, <2>2, BlockOrder DEF Places, Indices, InStep
<1>8. ASSUME poll' = At("visit", poll.dev + 1, 1), skipped' = TRUE
      PROVE  Indices'
  <2>1. \A b \in Blocks : Target(b)' = Share(poll.dev + 1, b)
    BY <1>2, <1>5, <1>8 DEF Target, At
  <2>2. \A b \in OutputBlocks : Target(b) <= Target(b)' /\ Target(b) \in Nat /\ Target(b)' \in Nat
                              /\ index[b] \in Nat /\ index[b] <= Target(b)
    BY <1>2, <1>6, <2>1, BlockOrder DEF Places, Indices
  <2>3. \A b \in OutputBlocks : index'[b] <= Target(b)'
    BY <1>1, <2>2
  <2> QED BY <1>1, <1>8, <2>3 DEF Places, Indices, InStep
<1>9. Indices'
  BY <1>7, <1>8 DEF Visit
<1>10. Reading' /\ CopyOfShare' /\ OutputCells'
  BY <1>1, <1>3 DEF Places, Reading, CopyOfShare, OutputCells
<1> QED BY <1>1, <1>9, <1>10 DEF Places

\* A reading comes in, with a tag for each register.
LEMMA ReadOkPlaces ==
  ASSUME IInv, Places, ReadOk
  PROVE  Places'
<1>1. /\ poll.stage = "call" /\ poll' = At("store", poll.dev, poll.block)
      /\ temp' = [j \in 1..Num |-> [dev |-> poll.dev, reg |-> j - 1, read |-> pass]]
      /\ UNCHANGED <<pass, outBuf, index, skipped, misread>>
  BY DEF ReadOk, historyVars
<1>2. poll.dev \in Devices /\ Num \in Nat /\ pass \in {0, 1} /\ index \in [Blocks -> Nat]
      /\ Block \in Blocks
  BY <1>1, PlaceNumbers DEF Places, Indices
<1>3. poll'.stage = "store" /\ poll'.dev = poll.dev /\ poll'.block = poll.block
      /\ Block' = Block /\ Num' = Num
  BY <1>1 DEF At, Num, Block
<1>4. Indices'
  <2>1. Done = 0 /\ Done' = 0
    BY <1>1, <1>3 DEF Done
  <2> QED BY <1>1, <1>3, <2>1, IndicesStill DEF Places
<1>5. Reading'
  <2>1. \A j \in 1..Num : [dev |-> poll.dev, reg |-> j - 1, read |-> pass]
                            \in [dev : Devices, reg : Nat, read : {0, 1}]
    BY <1>2
  <2>2. Len(temp') = Num /\ temp' \in Seq([dev : Devices, reg : Nat, read : {0, 1}])
    BY <1>1, <1>2, <2>1
  <2>3. \A j \in 1..Num : temp'[j] = [dev |-> poll.dev, reg |-> Num - Num + j - 1, read |-> pass]
    BY <1>1, <1>2
  <2> QED BY <1>1, <1>2, <1>3, <2>2, <2>3 DEF Reading
<1>6. CopyOfShare' /\ OutputCells'
  BY <1>1, <1>3 DEF Places, CopyOfShare, OutputCells
<1> QED BY <1>1, <1>4, <1>5, <1>6 DEF Places

\* A section starts.
LEMMA TakePlaces ==
  ASSUME IInv, IInv', Places, TakeLock
  PROVE  Places'
<1>1. /\ poll.stage \in {"store", "call"} /\ (poll.stage = "store" \/ Block \in OutputBlocks)
      /\ temp' = IF Block \in InputBlocks THEN temp ELSE << >>
      /\ poll' = [poll EXCEPT !.stage = IF Block \in InputBlocks THEN "storing" ELSE "loading"]
      /\ UNCHANGED <<pass, outBuf, index, skipped, misread>>
  BY DEF TakeLock, historyVars
<1>2. /\ poll.dev \in Devices /\ Num \in Nat /\ index \in [Blocks -> Nat] /\ Block \in Blocks
      /\ (poll.stage = "store" <=> Block \in InputBlocks)
  BY <1>1, PlaceNumbers, BlockOrder DEF Places, Indices, IInv, PollType
<1>3. /\ poll'.stage = IF Block \in InputBlocks THEN "storing" ELSE "loading"
      /\ poll'.dev = poll.dev /\ poll'.block = poll.block /\ Block' = Block /\ Num' = Num
  BY <1>1 DEF IInv, PollType, Num, Block
<1>4. Indices'
  <2>1. Done = 0
    BY <1>1 DEF Done
  <2>2. Done' = 0
    BY <1>1, <1>2, <1>3 DEF Done, Places, Reading
  <2> QED BY <1>1, <1>3, <2>1, <2>2, IndicesStill DEF Places
<1>5. Reading'
  BY <1>1, <1>2, <1>3 DEF Places, Reading
<1>6. CopyOfShare'
  BY <1>1, <1>3 DEF CopyOfShare
<1>7. OutputCells'
  BY <1>1 DEF Places, OutputCells
<1> QED BY <1>1, <1>4, <1>5, <1>6, <1>7 DEF Places

\* A value of a reading is stored, at the head of what is left of it.
LEMMA StorePlaces ==
  ASSUME IInv, Places, StoreOne
  PROVE  Places'
<1>1. /\ poll.stage = "storing" /\ temp # << >> /\ temp' = Tail(temp)
      /\ index' = [index EXCEPT ![Block] = @ + 1]
      /\ UNCHANGED <<poll, pass, outBuf, skipped, misread>>
  BY DEF StoreOne, historyVars
<1>2. Num \in Nat /\ Block' = Block /\ Num' = Num
  BY <1>1, PlaceNumbers DEF Num, Block
<1>3. /\ temp \in Seq([dev : Devices, reg : Nat, read : {0, 1}]) /\ Len(temp) <= Num
      /\ \A j \in 1..Len(temp) :
           temp[j] = [dev |-> poll.dev, reg |-> Num - Len(temp) + j - 1, read |-> pass]
  BY <1>1 DEF Places, Reading
<1>4. /\ temp' \in Seq([dev : Devices, reg : Nat, read : {0, 1}])
      /\ Len(temp') = Len(temp) - 1 /\ Len(temp) \in Nat \ {0}
      /\ \A j \in 1..Len(temp') : temp'[j] = temp[j + 1]
  <2> DEFINE R == [dev : Devices, reg : Nat, read : {0, 1}]
  <2>1. temp \in Seq(R) /\ temp # << >>
    BY <1>1, <1>3
  <2> HIDE DEF R
  <2>2. Tail(temp) \in Seq(R) /\ Len(Tail(temp)) = Len(temp) - 1 /\ Len(temp) \in Nat \ {0}
        /\ \A j \in 1..Len(Tail(temp)) : Tail(temp)[j] = temp[j + 1]
    BY <2>1
  <2> QED BY <1>1, <2>2 DEF R
<1>5. Done \in Nat /\ Done' = Done + 1
  BY <1>1, <1>2, <1>3, <1>4 DEF Done
<1>6. Indices'
  BY <1>1, <1>5, IndicesStay DEF Places
<1>7. Reading'
  <2>1. \A j \in 1..Len(temp') : j + 1 \in 1..Len(temp)
                               /\ Num - Len(temp) + (j + 1) - 1 = Num - Len(temp') + j - 1
    BY <1>2, <1>4
  <2>2. \A j \in 1..Len(temp') :
          temp'[j] = [dev |-> poll.dev, reg |-> Num - Len(temp') + j - 1, read |-> pass]
    BY <1>3, <1>4, <2>1
  <2> QED BY <1>1, <1>2, <1>3, <1>4, <2>2 DEF Reading
<1>8. CopyOfShare' /\ OutputCells'
  BY <1>1 DEF Places, CopyOfShare, OutputCells
<1> QED BY <1>1, <1>6, <1>7, <1>8 DEF Places

\* An output is loaded, from where the index is.
LEMMA LoadPlaces ==
  ASSUME InRange, IInv, Places, LoadOne
  PROVE  Places'
<1>1. /\ poll.stage = "loading" /\ Len(temp) < Num
      /\ temp' = Append(temp, outBuf[Block][index[Block]])
      /\ index' = [index EXCEPT ![Block] = @ + 1]
      /\ UNCHANGED <<poll, pass, outBuf, skipped, misread>>
  BY DEF LoadOne, historyVars
<1>2. /\ poll.dev \in Devices /\ Num \in Nat /\ Block' = Block /\ Num' = Num
      /\ Block \in OutputBlocks /\ Block \in Blocks /\ Pos[Block] = poll.block
      /\ poll.block \in 1..4
  BY <1>1, PlaceNumbers DEF Num, Block, IInv, PollType
<1>3. temp \in Seq(Outputs) /\ Len(temp) \in Nat
  BY <1>1 DEF IInv, Loading
<1>4. index[Block] \in Cells /\ outBuf[Block][index[Block]] \in OfCell(index[Block])
      /\ outBuf[Block][index[Block]] \in Outputs
  BY <1>1, <1>2 DEF InRange, Places, OutputCells, IInv, BufferType
<1>5. Len(temp') = Len(temp) + 1 /\ temp'[Len(temp) + 1] = outBuf[Block][index[Block]]
      /\ \A j \in 1..Len(temp) : temp'[j] = temp[j]
  BY <1>1, <1>3, <1>4
<1>6. Done = Len(temp) /\ Done' = Done + 1
  BY <1>1, <1>5 DEF Done
<1>7. Indices'
  BY <1>1, <1>3, <1>6, IndicesStay DEF Places
<1>8. CopyOfShare'
  <2> SUFFICES ASSUME ~skipped, NEW j \in 1..(Len(temp) + 1)
               PROVE  temp'[j] \in OfCell(Share(poll.dev, Block) + j - 1)
    BY <1>1, <1>2, <1>5 DEF CopyOfShare
  <2>1. CASE j \in 1..Len(temp)
    BY <2>1, <1>1, <1>5 DEF Places, CopyOfShare
  <2>2. CASE j = Len(temp) + 1
    <3>1. index[Block] = Share(poll.dev, Block) + Len(temp)
      BY <1>2, <1>6 DEF Places, Indices, InStep, Target
    <3>2. Share(poll.dev, Block) + j - 1 = index[Block]
      BY <2>2, <3>1, <1>2, <1>3, PlaceNumbers
    <3> QED BY <2>2, <3>2, <1>4, <1>5
  <2> QED BY <2>1, <2>2, <1>3
<1>9. Reading' /\ OutputCells'
  BY <1>1 DEF Places, Reading, OutputCells
<1> QED BY <1>1, <1>7, <1>8, <1>9 DEF Places

\* A section ends.
LEMMA ReleasePlaces ==
  ASSUME IInv, Places, ReleaseLock
  PROVE  Places'
<1>1. UNCHANGED <<pass, outBuf, temp, index, skipped, misread>>
  BY DEF ReleaseLock, historyVars
<1>2. CASE poll.stage = "storing"
  <2>1. poll' = After(poll.dev, poll.block) /\ temp = << >>
    BY <1>2 DEF ReleaseLock, SectionOver
  <2>2. Num \in Nat
    BY <1>2, PlaceNumbers
  <2>3. Done = Num
    BY <1>2, <2>1, <2>2 DEF Done
  <2>5. Indices'
    BY <1>1, <1>2, <2>1, <2>3, IndicesAfter DEF Places
  <2> QED BY <1>1, <1>2, <2>1, <2>5, PlacesAfter
<1>3. CASE poll.stage = "loading"
  <2>1. poll' = [poll EXCEPT !.stage = "write"] /\ Len(temp) = Num
    BY <1>3 DEF ReleaseLock, SectionOver
  <2>2. /\ poll'.stage = "write" /\ poll'.dev = poll.dev /\ poll'.block = poll.block
        /\ Block' = Block /\ Num' = Num /\ Num \in Nat /\ Block \in Blocks
        /\ index \in [Blocks -> Nat]
    BY <1>3, <2>1, PlaceNumbers DEF IInv, PollType, Num, Block, Places, Indices
  <2>3. Done = Num /\ Done' = Num
    BY <1>3, <2>1, <2>2 DEF Done
  <2>5. Indices'
    BY <1>1, <2>2, <2>3, IndicesStill DEF Places
  <2>6. CopyOfShare'
    BY <1>1, <1>3, <2>2 DEF Places, CopyOfShare
  <2>7. Reading' /\ OutputCells'
    BY <1>1, <2>2 DEF Places, Reading, OutputCells
  <2> QED BY <1>1, <2>5, <2>6, <2>7 DEF Places
<1> QED BY <1>2, <1>3 DEF ReleaseLock, SectionOver

\* The next pass starts from 0.
LEMMA NextPassPlaces ==
  ASSUME IInv, Places, NextPass
  PROVE  Places'
<1>1. /\ poll' = At("visit", 1, 1) /\ index' = [b \in Blocks |-> 0] /\ pass' = 1 - pass
      /\ UNCHANGED outBuf
  BY DEF NextPass
<1>2. \A b \in Blocks : Target(b)' = 0
  <2>1. Done' = 0
    BY <1>1 DEF Done, At
  <2>2. \A b \in Blocks : Share(1, b) = 0 /\ Pos[b] \in 1..4
    BY ShareFollows, BlockOrder
  <2> QED BY <1>1, <2>1, <2>2 DEF Target, At
<1>3. Indices'
  BY <1>1, <1>2, BlockOrder DEF Indices, InStep
<1>4. Reading' /\ CopyOfShare' /\ OutputCells'
  BY <1>1 DEF Places, Reading, CopyOfShare, OutputCells, At
<1> QED BY <1>1, <1>3, <1>4 DEF Places

\* Every step keeps the places.
LEMMA NextPlaces ==
  ASSUME InRange, IInv, IInv', Places, [Next]_vars
  PROVE  Places'
<1>1. ASSUME NEW d \in Devices, Change(d) PROVE Places'
  BY <1>1, PlacesElsewhere DEF Change, Places, OutputCells, historyVars
<1>2. CASE updateBuffersIn
  BY <1>2, PlacesElsewhere DEF updateBuffersIn, Places, OutputCells, historyVars
<1>3. CASE RunProgram
  BY <1>3, PlacesElsewhere DEF RunProgram, Places, OutputCells, historyVars
<1>4. CASE updateBuffersOut
  <2>1. scanNo \in {0, 1}
    BY DEF IInv, BufferType
  <2>2. OutputCells'
    BY <1>4, <2>1 DEF updateBuffersOut, OutputCells, OfCell
  <2> QED BY <1>4, <2>2, PlacesElsewhere DEF updateBuffersOut, historyVars
<1>5. CASE Visit
  BY <1>5, VisitPlaces
<1>6. CASE EmptyBlock
  <2>1. Done = Num
    BY <1>6 DEF EmptyBlock, Done
  <2>2. Indices'
    BY <1>6, <2>1, IndicesAfter DEF EmptyBlock, Places, historyVars
  <2> QED BY <1>6, <2>2, PlacesAfter DEF EmptyBlock
<1>7. CASE ReadOk
  BY <1>7, ReadOkPlaces
<1>8. CASE ReadFails
  <2>1. Indices'
    BY <1>8, IndicesMisread DEF Places
  <2> QED BY <1>8, <2>1, PlacesAfter DEF ReadFails, CallFails
<1>9. CASE TakeLock
  BY <1>9, TakePlaces
<1>10. CASE StoreOne
  BY <1>10, StorePlaces
<1>11. CASE LoadOne
  BY <1>11, LoadPlaces
<1>12. CASE ReleaseLock
  BY <1>12, ReleasePlaces
<1>13. CASE WriteOk \/ WriteFails
  <2>1. /\ poll.stage = "write" /\ poll' = After(poll.dev, poll.block)
        /\ UNCHANGED <<pass, outBuf, index, skipped, misread>>
    BY <1>13 DEF WriteOk, WriteFails, CallFails, historyVars
  <2>2. Done = Num
    BY <2>1 DEF Done
  <2>3. Indices'
    BY <2>1, <2>2, IndicesAfter DEF Places
  <2> QED BY <2>1, <2>3, PlacesAfter
<1>14. CASE NextPass
  BY <1>14, NextPassPlaces
<1>15. CASE UNCHANGED vars
  BY <1>15, PlacesElsewhere DEF vars, Places, OutputCells
<1> QED BY <1>1, <1>2, <1>3, <1>4, <1>5, <1>6, <1>7, <1>8, <1>9, <1>10, <1>11, <1>12,
          <1>13, <1>14, <1>15 DEF Next, Call, Between, Scan

-----------------------------------------------------------------------------
(* One reading of a device. *)

OwnIn(f, d, b, j) == LET v == f[b][Share(d, b) + j] IN v # None /\ v.dev = d /\ v.reg = j

\* What f holds of the share of a device comes from one reading.
PureIn(f, d, b) ==
  \A i, j \in 0..(Regs[d][b] - 1) :
    OwnIn(f, d, b, i) /\ OwnIn(f, d, b, j)
      => f[b][Share(d, b) + i].read = f[b][Share(d, b) + j].read

\* A reading is on its way to its own share: up to Done the values are new.
Half(d, b) ==
  /\ \A i \in 0..(Regs[d][b] - 1) :
       i < Done /\ OwnIn(inBuf, d, b, i) => inBuf[b][Share(d, b) + i].read = pass
  /\ \A i, j \in 0..(Regs[d][b] - 1) :
       i >= Done /\ j >= Done /\ OwnIn(inBuf, d, b, i) /\ OwnIn(inBuf, d, b, j)
         => inBuf[b][Share(d, b) + i].read = inBuf[b][Share(d, b) + j].read

InPlace(d, b) == /\ poll.stage = "storing" /\ poll.dev = d /\ Block = b
                 /\ index[b] = Share(d, b) + Done

\* The buffers are pure but for the share that is being stored to, and then
\* the lock is held.  Values that are displaced are no device's own.
Stored ==
  \A d \in Devices, b \in InputBlocks :
    IF InPlace(d, b) THEN Half(d, b) ELSE PureIn(inBuf, d, b)

Pictures ==
  /\ inBuf \in [InputBlocks -> [Cells -> {None} \cup [dev : Devices, reg : Nat, read : {0, 1}]]]
  /\ poll.stage = "storing" => ioLock = "poll" /\ Block \in InputBlocks
  /\ Stored
  /\ \A d \in Devices, b \in InputBlocks : PureIn(image, d, b)

LEMMA PicturesOneReading == Pictures => OneReading
  BY DEF Pictures, PureIn, OwnIn, OneReading, Own

\* The registers of a device have cells.
LEMMA CellOfShare ==
  ASSUME Fits, NEW d \in Devices, NEW b \in InputBlocks, NEW i \in 0..(Regs[d][b] - 1)
  PROVE  Share(d, b) + i \in Cells
<1>1. b \in Blocks
  BY BlockOrder
<1>2. Share(d, b) \in Nat /\ Regs[d][b] \in Nat /\ Share(d, b) + Regs[d][b] <= Size /\ Size \in Nat
  BY <1>1, ShareFollows, MasterAssumption DEF Fits
<1> QED BY <1>2 DEF Cells

LEMMA InitPictures ==
  ASSUME Fits, Init
  PROVE  Pictures
<1>1. inBuf = [b \in InputBlocks |-> [k \in Cells |-> None]] /\ image = inBuf
      /\ poll.stage = "visit"
  BY DEF Init, At
<1> QED
  <2>1. ASSUME NEW d \in Devices, NEW b \in InputBlocks PROVE PureIn(inBuf, d, b)
    <3> SUFFICES ASSUME NEW i \in 0..(Regs[d][b] - 1), NEW j \in 0..(Regs[d][b] - 1),
                        OwnIn(inBuf, d, b, i), OwnIn(inBuf, d, b, j)
                 PROVE  inBuf[b][Share(d, b) + i].read = inBuf[b][Share(d, b) + j].read
      BY DEF PureIn
    <3>1. Share(d, b) + i \in Cells
      BY CellOfShare
    <3> QED BY <1>1, <3>1 DEF OwnIn
  <2> QED BY <1>1, <2>1 DEF Pictures, Stored, InPlace

\* A step that stores nothing, takes no picture and starts or ends no storing.
LEMMA PicturesElsewhere ==
  ASSUME Pictures, UNCHANGED <<inBuf, image>>,
         poll.stage # "storing", poll'.stage # "storing"
  PROVE  Pictures'
<1>1. \A d \in Devices, b \in InputBlocks : PureIn(inBuf, d, b) /\ PureIn(image, d, b)
  BY DEF Pictures, Stored, InPlace
<1>2. \A d \in Devices, b \in InputBlocks : PureIn(inBuf, d, b)' /\ PureIn(image, d, b)'
  BY <1>1 DEF PureIn, OwnIn
<1> QED BY <1>2 DEF Pictures, Stored, InPlace

\* The same for a step of another thread, whatever the polling thread is at.
LEMMA PicturesBeside ==
  ASSUME Pictures, UNCHANGED <<inBuf, poll, temp, index, pass, ioLock>>,
         \A d \in Devices, b \in InputBlocks : PureIn(image, d, b)'
  PROVE  Pictures'
<1>1. Done' = Done /\ Block' = Block
  BY DEF Done, Num, Block
<1>2. \A d \in Devices, b \in InputBlocks :
        (InPlace(d, b)' <=> InPlace(d, b)) /\ (Half(d, b)' <=> Half(d, b))
        /\ (PureIn(inBuf, d, b)' <=> PureIn(inBuf, d, b))
  BY <1>1 DEF InPlace, Half, PureIn, OwnIn
<1>3. Stored'
  BY <1>2 DEF Pictures, Stored
<1> QED BY <1>1, <1>3 DEF Pictures

LEMMA TakePictures ==
  ASSUME IInv, Places, Pictures, TakeLock
  PROVE  Pictures'
<1>1. /\ poll.stage \in {"store", "call"} /\ ioLock' = "poll"
      /\ temp' = IF Block \in InputBlocks THEN temp ELSE << >>
      /\ poll' = [poll EXCEPT !.stage = IF Block \in InputBlocks THEN "storing" ELSE "loading"]
      /\ UNCHANGED <<pass, inBuf, image, index>>
  BY DEF TakeLock, scanVars
<1>2. /\ poll'.stage = IF Block \in InputBlocks THEN "storing" ELSE "loading"
      /\ Block' = Block /\ Num' = Num
  BY <1>1 DEF IInv, PollType, Num, Block
<1>3. \A d \in Devices, b \in InputBlocks : PureIn(inBuf, d, b) /\ PureIn(image, d, b)
  BY <1>1 DEF Pictures, Stored, InPlace
<1>4. poll'.stage = "storing" => Done' = 0
  <2>1. poll.stage = "call" => Block \in OutputBlocks
    BY <1>1 DEF TakeLock
  <2>2. poll'.stage = "storing" => Len(temp') = Num /\ Num \in Nat
    BY <1>1, <1>2, <2>1, PlaceNumbers, BlockOrder DEF Places, Reading
  <2> QED BY <1>2, <2>2 DEF Done
<1>5. \A d \in Devices, b \in InputBlocks : PureIn(inBuf, d, b)' /\ PureIn(image, d, b)'
  BY <1>1, <1>3 DEF PureIn, OwnIn
<1>6. ASSUME NEW d \in Devices, NEW b \in InputBlocks, InPlace(d, b)' PROVE Half(d, b)'
  <2>1. Done' = 0
    BY <1>4, <1>6 DEF InPlace
  <2> QED BY <1>5, <2>1 DEF Half, PureIn
<1>7. Stored'
  BY <1>5, <1>6 DEF Stored
<1> QED BY <1>1, <1>2, <1>5, <1>7 DEF Pictures

\* What storing one value does to the shares of a block.
LEMMA StoredValue ==
  ASSUME Fits, IInv, Places, Pictures, StoreOne,
         NEW d \in Devices, NEW b \in InputBlocks, NEW i \in 0..(Regs[d][b] - 1)
  PROVE  LET k == Share(d, b) + i IN
         \/ inBuf'[b][k] = inBuf[b][k]
         \/ /\ d = poll.dev /\ b = Block /\ inBuf'[b][k].read = pass
            /\ i = Done /\ InPlace(d, b)
         \/ ~OwnIn(inBuf, d, b, i)'
<1> DEFINE k == Share(d, b) + i
           x == index[Block]
<1>1. /\ poll.stage = "storing" /\ temp # << >>
      /\ inBuf' = [inBuf EXCEPT ![Block][x] = Head(temp)]
  BY DEF StoreOne
<1>2. poll.dev \in Devices /\ Num \in Nat /\ Block \in InputBlocks
  BY <1>1, PlaceNumbers DEF Pictures
<1>3. k \in Cells
  BY CellOfShare
<1>4. /\ Head(temp).dev = poll.dev /\ Head(temp).reg = Done /\ Head(temp).read = pass
  <2>1. Len(temp) \in Nat \ {0} /\ Head(temp) = temp[1] /\ Len(temp) <= Num
        /\ temp[1] = [dev |-> poll.dev, reg |-> Num - Len(temp) + 1 - 1, read |-> pass]
    BY <1>1 DEF Places, Reading
  <2>2. Num - Len(temp) + 1 - 1 = Num - Len(temp)
    BY <1>2, <2>1
  <2> QED BY <1>1, <2>1, <2>2 DEF Done
<1>5. inBuf \in [InputBlocks -> [Cells -> {None} \cup [dev : Devices, reg : Nat, read : {0, 1}]]]
  BY DEF Pictures
<1>6. CASE b = Block /\ k = x
  <2>1. inBuf'[b][k] = Head(temp)
    BY <1>1, <1>2, <1>3, <1>5, <1>6
  <2>2. CASE d = poll.dev /\ i = Done
    BY <2>1, <2>2, <1>1, <1>4, <1>6 DEF InPlace
  <2>3. CASE ~(d = poll.dev /\ i = Done)
    BY <2>1, <2>3, <1>4 DEF OwnIn
  <2> QED BY <2>2, <2>3
<1>7. CASE ~(b = Block /\ k = x)
  BY <1>1, <1>2, <1>3, <1>5, <1>7
<1> QED BY <1>6, <1>7

LEMMA StorePictures ==
  ASSUME Fits, IInv, Places, Pictures, StoreOne
  PROVE  Pictures'
<1>1. /\ poll.stage = "storing" /\ temp # << >> /\ temp' = Tail(temp)
      /\ inBuf' = [inBuf EXCEPT ![Block][index[Block]] = Head(temp)]
      /\ index' = [index EXCEPT ![Block] = @ + 1]
      /\ UNCHANGED <<poll, pass, image, ioLock>>
  BY DEF StoreOne, scanVars
<1>2. /\ poll.dev \in Devices /\ Num \in Nat /\ Block' = Block /\ Num' = Num
      /\ Block \in InputBlocks /\ Block \in Blocks /\ index \in [Blocks -> Nat]
  BY <1>1, PlaceNumbers DEF Num, Block, Pictures, Places, Indices
<1>3. Done' = Done + 1 /\ Done \in Nat
  <2>1. temp \in Seq([dev : Devices, reg : Nat, read : {0, 1}]) /\ Len(temp) <= Num
    BY <1>1 DEF Places, Reading
  <2>2. Len(temp') = Len(temp) - 1 /\ Len(temp) \in Nat \ {0}
    BY <1>1, <2>1
  <2> QED BY <1>1, <1>2, <2>1, <2>2 DEF Done
<1>4. inBuf' \in [InputBlocks -> [Cells -> {None} \cup [dev : Devices, reg : Nat, read : {0, 1}]]]
  <2>1. Head(temp) \in [dev : Devices, reg : Nat, read : {0, 1}]
    <3> DEFINE R == [dev : Devices, reg : Nat, read : {0, 1}]
    <3>1. temp \in Seq(R) /\ temp # << >>
      BY <1>1 DEF Places, Reading
    <3> HIDE DEF R
    <3>2. Head(temp) \in R
      BY <3>1
    <3> QED BY <3>2 DEF R
  <2>2. inBuf \in [InputBlocks -> [Cells -> {None} \cup [dev : Devices, reg : Nat, read : {0, 1}]]]
    BY DEF Pictures
  <2> QED BY <1>1, <2>1, <2>2
<1>5. \A d \in Devices, b \in InputBlocks : PureIn(image, d, b)'
  BY <1>1 DEF Pictures, PureIn, OwnIn
<1>6. Stored'
  <2> SUFFICES ASSUME NEW d \in Devices, NEW b \in InputBlocks
               PROVE  IF InPlace(d, b)' THEN Half(d, b)' ELSE PureIn(inBuf, d, b)'
    BY DEF Stored
  <2>1. Share(d, b) \in Nat /\ b \in Blocks
    BY ShareFollows, BlockOrder
  <2>2. InPlace(d, b)' <=> InPlace(d, b)
    <3>1. b = Block => index'[b] = index[b] + 1 /\ index[b] \in Nat
      BY <1>1, <1>2
    <3> QED BY <3>1, <2>1, <1>1, <1>2, <1>3 DEF InPlace
  <2> DEFINE v(i) == inBuf[b][Share(d, b) + i]
             w(i) == inBuf'[b][Share(d, b) + i]
  <2>3. \A i \in 0..(Regs[d][b] - 1) :
          \/ w(i) = v(i)
          \/ d = poll.dev /\ b = Block /\ w(i).read = pass /\ i = Done /\ InPlace(d, b)
          \/ ~OwnIn(inBuf, d, b, i)'
    BY StoredValue
  <2>4. \A i \in 0..(Regs[d][b] - 1) : w(i) = v(i) => (OwnIn(inBuf, d, b, i)' <=> OwnIn(inBuf, d, b, i))
    BY DEF OwnIn
  <2>5. CASE InPlace(d, b)
    <3>1. Half(d, b)
      BY <2>5 DEF Pictures, Stored
    <3>2. \A i \in 0..(Regs[d][b] - 1) :
            i < Done + 1 /\ OwnIn(inBuf, d, b, i)' => w(i).read = pass
      <4> SUFFICES ASSUME NEW i \in 0..(Regs[d][b] - 1), i < Done + 1, OwnIn(inBuf, d, b, i)'
                   PROVE  w(i).read = pass
        OBVIOUS
      <4>1. CASE i < Done /\ w(i) = v(i)
        BY <4>1, <3>1, <2>4 DEF Half
      <4>2. CASE w(i) # v(i)
        BY <4>2, <2>3
      <4>3. CASE i = Done
        <5>1. w(i) = Head(temp) /\ Head(temp).read = pass
          <6>1. index[Block] = Share(d, b) + i /\ b = Block
            BY <2>5, <4>3 DEF InPlace
          <6>2. Share(d, b) + i \in Cells
            BY CellOfShare
          <6>3. w(i) = Head(temp)
            BY <1>1, <1>2, <6>1, <6>2 DEF Pictures
          <6>4. Head(temp) = temp[1] /\ 1 \in 1..Len(temp)
            BY <1>1 DEF Places, Reading
          <6>5. temp[1] = [dev |-> poll.dev, reg |-> Num - Len(temp) + 1 - 1, read |-> pass]
            BY <1>1, <6>4 DEF Places, Reading
          <6>6. temp[1].read = pass
            BY <6>5
          <6> QED BY <6>3, <6>4, <6>6
        <5> QED BY <5>1
      <4> QED BY <4>1, <4>2, <4>3, <1>3
    <3>3. \A i \in 0..(Regs[d][b] - 1) :
            i >= Done + 1 /\ OwnIn(inBuf, d, b, i)' => w(i) = v(i) /\ OwnIn(inBuf, d, b, i) /\ i >= Done
      BY <2>3, <2>4, <1>3
    <3>4. \A i, j \in 0..(Regs[d][b] - 1) :
            i >= Done + 1 /\ j >= Done + 1 /\ OwnIn(inBuf, d, b, i)' /\ OwnIn(inBuf, d, b, j)'
              => w(i).read = w(j).read
      BY <3>1, <3>3 DEF Half
    <3>5. Half(d, b)'
      BY <3>2, <3>4, <1>1, <1>3 DEF Half
    <3> QED BY <2>2, <2>5, <3>5
  <2>6. CASE ~InPlace(d, b)
    <3>1. PureIn(inBuf, d, b)
      BY <2>6 DEF Pictures, Stored
    <3>2. \A i \in 0..(Regs[d][b] - 1) :
            OwnIn(inBuf, d, b, i)' => w(i) = v(i) /\ OwnIn(inBuf, d, b, i)
      BY <2>3, <2>4, <2>6
    <3>3. PureIn(inBuf, d, b)'
      BY <3>1, <3>2 DEF PureIn
    <3> QED BY <2>2, <2>6, <3>3
  <2> QED BY <2>5, <2>6
<1> QED BY <1>1, <1>2, <1>4, <1>5, <1>6 DEF Pictures

\* All of a reading is in its share when the section ends.
LEMMA ReleasePictures ==
  ASSUME IInv, Places, Pictures, ReleaseLock
  PROVE  Pictures'
<1>1. UNCHANGED <<inBuf, image>>
  BY DEF ReleaseLock, scanVars
<1>2. CASE poll.stage = "storing"
  <2>1. poll' = After(poll.dev, poll.block) /\ temp = << >>
    BY <1>2 DEF ReleaseLock, SectionOver
  <2>2. poll.dev \in Devices /\ poll.block \in 1..4 /\ Num \in Nat
    BY <1>2, PlaceNumbers
  <2>3. poll'.stage # "storing"
    <3>1. poll'.stage \in {"visit", "call"}
      BY <2>1, <2>2, AfterType
    <3> QED BY <3>1
  <2>4. Done = Num
    BY <1>2, <2>1, <2>2 DEF Done
  <2>5. ASSUME NEW d \in Devices, NEW b \in InputBlocks PROVE PureIn(inBuf, d, b)
    <3>1. CASE InPlace(d, b)
      <4>1. Half(d, b) /\ Num = Regs[d][b]
        BY <3>1 DEF Pictures, Stored, InPlace, Num
      <4>2. \A i \in 0..(Regs[d][b] - 1) :
              OwnIn(inBuf, d, b, i) => inBuf[b][Share(d, b) + i].read = pass
        BY <2>2, <2>4, <4>1 DEF Half
      <4> QED BY <4>2 DEF PureIn
    <3>2. CASE ~InPlace(d, b)
      BY <3>2 DEF Pictures, Stored
    <3> QED BY <3>1, <3>2
  <2>6. \A d \in Devices, b \in InputBlocks : PureIn(inBuf, d, b)' /\ PureIn(image, d, b)'
    BY <1>1, <2>5 DEF Pictures, PureIn, OwnIn
  <2> QED BY <1>1, <2>3, <2>6 DEF Pictures, Stored, InPlace
<1>3. CASE poll.stage = "loading"
  <2>1. poll'.stage = "write"
    BY <1>3 DEF ReleaseLock, SectionOver, IInv, PollType
  <2> QED BY <1>1, <1>3, <2>1, PicturesElsewhere
<1> QED BY <1>2, <1>3 DEF ReleaseLock, SectionOver

\* Every step keeps the pictures.
LEMMA NextPictures ==
  ASSUME Fits, IInv, Places, Pictures, [Next]_vars
  PROVE  Pictures'
<1>0. (UNCHANGED image) => \A d \in Devices, b \in InputBlocks : PureIn(image, d, b)'
  BY DEF Pictures, PureIn, OwnIn
<1>1. ASSUME NEW d \in Devices, Change(d) PROVE Pictures'
  BY <1>0, <1>1, PicturesBeside DEF Change, scanVars
<1>2. CASE updateBuffersIn
  <2>1. image' = inBuf /\ ioLock = "free"
        /\ UNCHANGED <<inBuf, poll, temp, index, pass, ioLock>>
    BY <1>2 DEF updateBuffersIn
  <2>2. \A d \in Devices, b \in InputBlocks : PureIn(inBuf, d, b)
    BY <2>1 DEF Pictures, Stored, InPlace
  <2>3. \A d \in Devices, b \in InputBlocks : PureIn(image, d, b)'
    BY <2>1, <2>2 DEF PureIn, OwnIn
  <2> QED BY <2>1, <2>3, PicturesBeside
<1>3. CASE RunProgram
  BY <1>0, <1>3, PicturesBeside DEF RunProgram
<1>4. CASE updateBuffersOut
  BY <1>0, <1>4, PicturesBeside DEF updateBuffersOut
<1>5. CASE Visit
  BY <1>5, PicturesElsewhere DEF Visit, At, scanVars
<1>6. CASE EmptyBlock \/ ReadFails \/ WriteOk \/ WriteFails
  <2>1. /\ poll.stage \in {"call", "write"} /\ UNCHANGED <<inBuf, image>>
        /\ poll' = After(poll.dev, poll.block)
    BY <1>6 DEF EmptyBlock, ReadFails, WriteOk, WriteFails, CallFails, scanVars
  <2>2. poll.dev \in Devices /\ poll.block \in 1..4
    BY <2>1, PlaceNumbers
  <2>3. poll'.stage \in {"visit", "call"}
    BY <2>1, <2>2, AfterType
  <2> QED BY <2>1, <2>3, PicturesElsewhere
<1>7. CASE ReadOk
  BY <1>7, PicturesElsewhere DEF ReadOk, At, scanVars
<1>8. CASE TakeLock
  BY <1>8, TakePictures
<1>9. CASE StoreOne
  BY <1>9, StorePictures
<1>10. CASE LoadOne
  BY <1>10, PicturesElsewhere DEF LoadOne, scanVars
<1>11. CASE ReleaseLock
  BY <1>11, ReleasePictures
<1>12. CASE NextPass
  BY <1>12, PicturesElsewhere DEF NextPass, At, scanVars
<1>13. CASE UNCHANGED vars
  BY <1>0, <1>13, PicturesBeside DEF vars
<1> QED BY <1>1, <1>2, <1>3, <1>4, <1>5, <1>6, <1>7, <1>8, <1>9, <1>10, <1>11, <1>12,
          <1>13 DEF Next, Call, Between, Scan

-----------------------------------------------------------------------------
\* What the places say of the properties' states.
LEMMA PlacesSharesKept ==
  ASSUME IInv, Places
  PROVE  SharesKept
<1>1. ASSUME ~skipped, ~misread, poll.stage = "storing", temp # << >>
      PROVE  index[Block] = Share(poll.dev, Block) + Head(temp).reg
  <2>1. /\ Block \in Blocks /\ Pos[Block] = poll.block /\ poll.block \in 1..4
        /\ Num \in Nat /\ poll.dev \in Devices
    BY <1>1, PlaceNumbers
  <2>2. index[Block] = Share(poll.dev, Block) + (Num - Len(temp))
    BY <1>1, <2>1 DEF Places, Indices, InStep, Target, Done
  <2>3. Len(temp) \in Nat \ {0} /\ Head(temp) = temp[1]
        /\ temp[1] = [dev |-> poll.dev, reg |-> Num - Len(temp) + 1 - 1, read |-> pass]
    BY <1>1 DEF Places, Reading
  <2>4. Head(temp).reg = Num - Len(temp)
    BY <2>1, <2>3
  <2> QED BY <2>2, <2>4
<1>2. ASSUME ~skipped, poll.stage = "write"
      PROVE  \A j \in 1..Num : temp[j] \in {None} \cup
               [cell : {Share(poll.dev, Block) + j - 1}, scan : {0, 1}]
  BY <1>2 DEF Places, CopyOfShare, OfCell, IInv, Writing
<1> QED BY <1>1, <1>2 DEF SharesKept

\* All of it is inductive, once the registers fit into the buffers.
MasterInv == IInv /\ Places /\ Pictures

LEMMA MasterInduction ==
  ASSUME Fits
  PROVE  Spec => []MasterInv
<1>1. Init => MasterInv
  BY InitOneScan, InitPlaces, InitPictures DEF MasterInv
<1>2. MasterInv /\ [Next]_vars => MasterInv'
  <2> SUFFICES ASSUME MasterInv, [Next]_vars PROVE MasterInv'
    OBVIOUS
  <2>1. IInv /\ Places /\ Pictures
    BY DEF MasterInv
  <2>2. InRange
    BY <2>1, PlacesInRange DEF Places
  <2>3. IInv'
    BY <2>1, <2>2, NextOneScan
  <2>4. Places'
    BY <2>1, <2>2, <2>3, NextPlaces
  <2>5. Pictures'
    BY <2>1, NextPictures
  <2> QED BY <2>3, <2>4, <2>5 DEF MasterInv
<1> QED BY <1>1, <1>2, PTL DEF Spec

\* A request to a device carries the outputs of one scan only, whatever the
\* devices and their registers, the reachability of the devices and the pace of
\* the two threads: updateBuffersOut() and the loops of exchangeData() exclude
\* one another through ioLock, and the request is sent from a copy.
THEOREM MasterOneScan ==
  ASSUME Fits
  PROVE  Spec => []OneScan
<1>1. MasterInv => OneScan
  BY RequestOfOneScan DEF MasterInv
<1> QED BY <1>1, MasterInduction, PTL

\* The running indices of exchangeData() are in the share of the device at
\* hand, in every pass in which no device before it was passed over and no
\* input registers failed, for any layout: whatever else fails, and however the
\* scan interleaves, values go to and come from the device's own cells.
THEOREM MasterSharesKept ==
  ASSUME Fits
  PROVE  Spec => []SharesKept
<1>1. MasterInv => SharesKept
  BY PlacesSharesKept DEF MasterInv
<1> QED BY <1>1, MasterInduction, PTL

\* The values of a device that the program sees in their own cells come from
\* one reading, also after passes that displaced shares: a displaced value is
\* nobody's own, and updateBuffersIn() waits for ioLock.
THEOREM MasterOneReading ==
  ASSUME Fits
  PROVE  Spec => []OneReading
<1>1. MasterInv => OneReading
  BY PicturesOneReading DEF MasterInv
<1> QED BY <1>1, MasterInduction, PTL

\* No output is loaded from outside the buffers, also in passes that displaced
\* shares.
THEOREM MasterInRange ==
  ASSUME Fits
  PROVE  Spec => []InRange
<1>1. MasterInv => InRange
  BY PlacesInRange DEF MasterInv, Places
<1> QED BY <1>1, MasterInduction, PTL
=============================================================================
