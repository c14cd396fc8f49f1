---------------------------- MODULE ModbusMaster ----------------------------
(***************************************************************************)
(* The Modbus master hardware layer (core/hardware_layers/                 *)
(* modbus_master.cpp): the thread of exchangeData() polls the slave        *)
(* devices one after the other, and updateBuffersIn() and                  *)
(* updateBuffersOut() of the scan loop copy between its buffers and the    *)
(* process image.  Every device owns a share of four buffers, in the order *)
(* of the configuration, found by running indices.  Both threads access    *)
(* the buffers under ioLock only.  Each call of libmodbus either succeeds  *)
(* or returns -1; devices come and go.                                     *)
(*                                                                         *)
(* Blocks are the four parts of a device: discrete inputs (di), coils      *)
(* (co), input registers (ir), holding registers (hr).  A value read is    *)
(* tagged with its device, register and pass, a value to write with its    *)
(* cell of the image and the scan that computed it.                        *)
(***************************************************************************)
EXTENDS Integers, Sequences, FiniteSets

CONSTANTS
  NumDevices,  \* num_devices
  Regs,        \* Regs[d][b]: num_regs of block b of device d
  Size,        \* MAX_MB_IO
  MaxFaults    \* bound: changes of a device's reachability

Devices == 1..NumDevices
Order   == <<"di", "co", "ir", "hr">>
Blocks  == {"di", "co", "ir", "hr"}
InputBlocks  == {"di", "ir"}
OutputBlocks == {"co", "hr"}
Cells   == 0..(Size - 1)

ASSUME MasterAssumption ==
  /\ NumDevices \in Nat \ {0} /\ Size \in Nat
  /\ Regs \in [Devices -> [Blocks -> Nat]]

VARIABLES
  isConnected,  \* mb_devices[i].isConnected
  open,         \* whether the device's modbus context has a connection
  reachable,    \* the world: whether the device answers
  pass,         \* which pass over the devices this is, alternating
  inBuf,        \* bool_input_buf (di), int_input_buf (ir)
  outBuf,       \* bool_output_buf (co), int_output_buf (hr)
  image,        \* the inputs the program sees
  scanNo,       \* which scan's outputs are in the image, alternating
  written,      \* written[d][b]: the cells whose values the device last took over
  ioLock,       \* "free", or "poll": the polling thread is in a section
  scan,         \* where the scan loop is
  poll,         \* where the polling thread is: stage, device, block
  temp,         \* its tempBuff
  index,        \* its four running indices
  skipped,      \* history: a device was passed over in this pass
  misread,      \* history: input registers failed in this pass
  faults        \* changes of reachability so far

vars == <<isConnected, open, reachable, pass, inBuf, outBuf, image, scanNo,
          written, ioLock, scan, poll, temp, index, skipped, misread, faults>>
scanVars   == <<image, scanNo, scan>>
deviceVars == <<reachable, faults>>
historyVars == <<skipped, misread>>

None == [none |-> TRUE]

\* The cell of the first register of block b of device d: the devices before
\* it come first.
Share(d, b) ==
  LET sum[e \in 0..NumDevices] == IF e = 0 THEN 0 ELSE sum[e - 1] + Regs[e][b]
  IN  sum[d - 1]

At(stage, d, k) == [stage |-> stage, dev |-> d, block |-> k]
Block == Order[poll.block]
Num   == Regs[poll.dev][Block]

\* The end of block k: the next one, or the next device.
After(d, k) == IF k = 4 THEN At("visit", d + 1, 1) ELSE At("call", d, k + 1)

-----------------------------------------------------------------------------
\* parseConfig() leaves isConnected as malloc() returned it.
Init ==
  /\ isConnected \in [Devices -> BOOLEAN]
  /\ open = [d \in Devices |-> FALSE]
  /\ reachable \in [Devices -> BOOLEAN]
  /\ pass = 0
  /\ inBuf = [b \in InputBlocks |-> [k \in Cells |-> None]]
  /\ outBuf = [b \in OutputBlocks |-> [k \in Cells |-> None]]
  /\ image = inBuf
  /\ scanNo = 0
  /\ written = [d \in Devices |-> [b \in OutputBlocks |-> << >>]]
  /\ ioLock = "free"
  /\ scan = "in"
  /\ poll = At("visit", 1, 1)
  /\ temp = << >>
  /\ index = [b \in Blocks |-> 0]
  /\ skipped = FALSE /\ misread = FALSE
  /\ faults = 0

\* The world: a device starts or stops to answer.
Change(d) ==
  /\ faults < MaxFaults
  /\ reachable' = [reachable EXCEPT ![d] = ~@]
  /\ faults' = faults + 1
  /\ UNCHANGED <<isConnected, open, pass, inBuf, outBuf, written, ioLock, poll,
                 temp, index>>
  /\ UNCHANGED <<scanVars, historyVars>>

-----------------------------------------------------------------------------
\* The scan loop.  Each copy runs under bufferLock and ioLock and is one step;
\* bufferLock is of no concern to the polling thread.
updateBuffersIn ==
  /\ scan = "in" /\ ioLock = "free"
  /\ image' = inBuf
  /\ scan' = "run"
  /\ UNCHANGED <<isConnected, open, pass, inBuf, outBuf, scanNo, written, ioLock, poll,
                 temp, index>>
  /\ UNCHANGED <<deviceVars, historyVars>>

\* The program computes all its outputs anew.
RunProgram ==
  /\ scan = "run"
  /\ scanNo' = 1 - scanNo
  /\ scan' = "out"
  /\ UNCHANGED <<isConnected, open, pass, inBuf, outBuf, image, written, ioLock, poll,
                 temp, index>>
  /\ UNCHANGED <<deviceVars, historyVars>>

\* Faulty variant of updateBuffersOut: ioLock is not taken.
updateBuffersOutUnlocked ==
  /\ scan = "out"
  /\ outBuf' = [b \in OutputBlocks |-> [k \in Cells |-> [cell |-> k, scan |-> scanNo]]]
  /\ scan' = "in"
  /\ UNCHANGED <<isConnected, open, pass, inBuf, image, scanNo, written, ioLock, poll,
                 temp, index>>
  /\ UNCHANGED <<deviceVars, historyVars>>

updateBuffersOut ==
  /\ scan = "out" /\ ioLock = "free"
  /\ outBuf' = [b \in OutputBlocks |-> [k \in Cells |-> [cell |-> k, scan |-> scanNo]]]
  /\ scan' = "in"
  /\ UNCHANGED <<isConnected, open, pass, inBuf, image, scanNo, written, ioLock, poll,
                 temp, index>>
  /\ UNCHANGED <<deviceVars, historyVars>>

-----------------------------------------------------------------------------
\* exchangeData(): the device at hand, with an attempt to connect.
Visit ==
  LET d == poll.dev IN
  /\ poll.stage = "visit" /\ d \in Devices
  /\ IF isConnected[d] \/ reachable[d]
       THEN /\ isConnected' = [isConnected EXCEPT ![d] = TRUE]
            /\ open' = [open EXCEPT ![d] = @ \/ ~isConnected[d]]
            /\ poll' = At("call", d, 1)
            /\ UNCHANGED skipped
       ELSE /\ poll' = At("visit", d + 1, 1)     \* no index moves
            /\ skipped' = TRUE
            /\ UNCHANGED <<isConnected, open>>
  /\ UNCHANGED <<pass, inBuf, outBuf, written, ioLock, temp, index, misread>>
  /\ UNCHANGED <<scanVars, deviceVars>>

\* A block without registers is passed over.
EmptyBlock ==
  /\ poll.stage = "call" /\ Num = 0
  /\ poll' = After(poll.dev, poll.block)
  /\ UNCHANGED <<isConnected, open, pass, inBuf, outBuf, written, ioLock, temp, index>>
  /\ UNCHANGED <<scanVars, deviceVars, historyVars>>

\* modbus_read_input_bits() or modbus_read_input_registers() returns a reading.
ReadOk ==
  LET d == poll.dev IN
  /\ poll.stage = "call" /\ Num > 0 /\ Block \in InputBlocks
  /\ open[d] /\ reachable[d]
  /\ temp' = [j \in 1..Num |-> [dev |-> d, reg |-> j - 1, read |-> pass]]
  /\ poll' = At("store", d, poll.block)
  /\ UNCHANGED <<isConnected, open, pass, inBuf, outBuf, written, ioLock, index>>
  /\ UNCHANGED <<scanVars, deviceVars, historyVars>>

\* Faulty variant of CallFails: the device stays marked as connected.
CallFailsMarked(d) ==
  /\ ~(open[d] /\ reachable[d])
  /\ open' = [open EXCEPT ![d] = FALSE]
  /\ poll' = After(d, poll.block)
  /\ UNCHANGED isConnected

\* A call returns -1: modbus_close(), to be connected in the next pass.
CallFails(d) ==
  /\ ~(open[d] /\ reachable[d])
  /\ open' = [open EXCEPT ![d] = FALSE]
  /\ isConnected' = [isConnected EXCEPT ![d] = FALSE]
  /\ poll' = After(d, poll.block)

\* Faulty variant of ReadFails: no index moves when a reading fails.
ReadFailsInPlace ==
  /\ poll.stage = "call" /\ Num > 0 /\ Block \in InputBlocks
  /\ CallFails(poll.dev)
  /\ misread' = (misread \/ Block = "ir")
  /\ UNCHANGED <<pass, inBuf, outBuf, written, ioLock, temp, index, skipped>>
  /\ UNCHANGED <<scanVars, deviceVars>>

\* The index moved on is that of the discrete inputs in both branches.
ReadFails ==
  /\ poll.stage = "call" /\ Num > 0 /\ Block \in InputBlocks
  /\ CallFails(poll.dev)
  /\ index' = [index EXCEPT !["di"] = @ + Regs[poll.dev]["di"]]
  /\ misread' = (misread \/ Block = "ir")
  /\ UNCHANGED <<pass, inBuf, outBuf, written, ioLock, temp, skipped>>
  /\ UNCHANGED <<scanVars, deviceVars>>

\* Faulty variant of TakeLock: the section does not lock.
TakeNoLock ==
  /\ \/ poll.stage = "store"
     \/ poll.stage = "call" /\ Num > 0 /\ Block \in OutputBlocks
  /\ temp' = IF Block \in InputBlocks THEN temp ELSE << >>
  /\ poll' = [poll EXCEPT !.stage = IF Block \in InputBlocks THEN "storing" ELSE "loading"]
  /\ UNCHANGED <<isConnected, open, pass, inBuf, outBuf, written, index, ioLock>>
  /\ UNCHANGED <<scanVars, deviceVars, historyVars>>

\* A section on the buffers starts: the reading is stored, or the outputs of
\* the block are loaded into a fresh tempBuff.
TakeLock ==
  /\ \/ poll.stage = "store"
     \/ poll.stage = "call" /\ Num > 0 /\ Block \in OutputBlocks
  /\ ioLock = "free" /\ ioLock' = "poll"
  /\ temp' = IF Block \in InputBlocks THEN temp ELSE << >>
  /\ poll' = [poll EXCEPT !.stage = IF Block \in InputBlocks THEN "storing" ELSE "loading"]
  /\ UNCHANGED <<isConnected, open, pass, inBuf, outBuf, written, index>>
  /\ UNCHANGED <<scanVars, deviceVars, historyVars>>

\* One turn of the loop that stores a reading.
StoreOne ==
  /\ poll.stage = "storing" /\ temp # << >>
  /\ inBuf' = [inBuf EXCEPT ![Block][index[Block]] = Head(temp)]
  /\ index' = [index EXCEPT ![Block] = @ + 1]
  /\ temp' = Tail(temp)
  /\ UNCHANGED <<isConnected, open, pass, outBuf, written, ioLock, poll>>
  /\ UNCHANGED <<scanVars, deviceVars, historyVars>>

\* One turn of the loop that loads outputs.
LoadOne ==
  /\ poll.stage = "loading" /\ Len(temp) < Num
  /\ temp' = Append(temp, outBuf[Block][index[Block]])
  /\ index' = [index EXCEPT ![Block] = @ + 1]
  /\ UNCHANGED <<isConnected, open, pass, inBuf, outBuf, written, ioLock, poll>>
  /\ UNCHANGED <<scanVars, deviceVars, historyVars>>

SectionOver ==
  \/ poll.stage = "storing" /\ temp = << >>
  \/ poll.stage = "loading" /\ Len(temp) = Num

\* Faulty variant of ReleaseLock: outputs are sent with ioLock held.
ReleaseAfterWrite ==
  /\ SectionOver
  /\ ioLock' = IF poll.stage = "storing" THEN "free" ELSE ioLock
  /\ poll' = IF poll.stage = "storing" THEN After(poll.dev, poll.block)
                                       ELSE [poll EXCEPT !.stage = "write"]
  /\ UNCHANGED <<isConnected, open, pass, inBuf, outBuf, written, temp, index>>
  /\ UNCHANGED <<scanVars, deviceVars, historyVars>>

ReleaseLock ==
  /\ SectionOver
  /\ ioLock' = "free"
  /\ poll' = IF poll.stage = "storing" THEN After(poll.dev, poll.block)
                                       ELSE [poll EXCEPT !.stage = "write"]
  /\ UNCHANGED <<isConnected, open, pass, inBuf, outBuf, written, temp, index>>
  /\ UNCHANGED <<scanVars, deviceVars, historyVars>>

CellsOf(values) ==
  [j \in DOMAIN values |-> IF values[j] = None THEN None ELSE [cell |-> values[j].cell]]

\* modbus_write_bits() or modbus_write_registers() succeeds.
WriteOk ==
  LET d == poll.dev IN
  /\ poll.stage = "write" /\ open[d] /\ reachable[d]
  /\ written' = [written EXCEPT ![d][Block] = CellsOf(temp)]
  /\ temp' = << >>
  /\ poll' = After(d, poll.block)
  /\ UNCHANGED <<isConnected, open, pass, inBuf, outBuf, ioLock, index>>
  /\ UNCHANGED <<scanVars, deviceVars, historyVars>>

\* It fails; if only the answer was lost, the device has taken the values over.
WriteFails ==
  LET d == poll.dev IN
  /\ poll.stage = "write" /\ CallFails(d)
  /\ \/ UNCHANGED written
     \/ open[d] /\ written' = [written EXCEPT ![d][Block] = CellsOf(temp)]
  /\ temp' = << >>
  /\ UNCHANGED <<pass, inBuf, outBuf, ioLock, index>>
  /\ UNCHANGED <<scanVars, deviceVars, historyVars>>

\* The pass is over; after sleep_ms(30) the next one counts from 0.
NextPass ==
  /\ poll.stage = "visit" /\ poll.dev = NumDevices + 1
  /\ poll' = At("visit", 1, 1)
  /\ index' = [b \in Blocks |-> 0]
  /\ pass' = 1 - pass
  /\ skipped' = FALSE /\ misread' = FALSE
  /\ UNCHANGED <<isConnected, open, inBuf, outBuf, written, ioLock, temp>>
  /\ UNCHANGED <<scanVars, deviceVars>>

-----------------------------------------------------------------------------
\* The calls of libmodbus: they end only when an answer or a time-out comes.
Call == ReadOk \/ ReadFails \/ WriteOk \/ WriteFails

\* The polling thread between them.
Between == \/ Visit \/ EmptyBlock \/ TakeLock \/ StoreOne \/ LoadOne
           \/ ReleaseLock \/ NextPass

Scan == updateBuffersIn \/ RunProgram \/ updateBuffersOut

Next == Call \/ Between \/ Scan \/ \E d \in Devices : Change(d)

\* Both threads leave the lock alone for most of the time, the one in
\* sleep_ms(), the other between two scans: a thread that waits for it gets it.
Fairness == SF_vars(Scan) /\ SF_vars(Between)

CallsEnd == WF_vars(Call)

Spec == Init /\ [][Next]_vars /\ Fairness

-----------------------------------------------------------------------------
\* The registers of all devices fit into the buffers: what the theorems
\* assume, and the code does not check.
Fits == \A d \in Devices, b \in Blocks : Share(d, b) + Regs[d][b] <= Size

\* A device's registers go to and come from its own share of the buffers as
\* long as no device before it was passed over in this pass and no input
\* registers failed: a failure of discrete inputs, coils or holding registers
\* costs the other devices nothing.
SharesKept ==
  /\ ~skipped /\ ~misread /\ poll.stage = "storing" /\ temp # << >>
       => index[Block] = Share(poll.dev, Block) + Head(temp).reg
  /\ ~skipped /\ poll.stage = "write"
       => \A j \in 1..Num : temp[j] \in {None} \cup
            [cell : {Share(poll.dev, Block) + j - 1}, scan : {0, 1}]

\* A request to a device carries the outputs of one scan only.
OneScan ==
  poll.stage = "write" => \A i, j \in 1..Num : temp[i] # None /\ temp[j] # None
                                                => temp[i].scan = temp[j].scan

Own(d, b, j) ==
  LET v == image[b][Share(d, b) + j] IN v # None /\ v.dev = d /\ v.reg = j

\* The program sees the values of one reading of a device, never a mixture of
\* two, also after passes in which shares were displaced.
OneReading ==
  \A d \in Devices, b \in InputBlocks :
    \A i, j \in 0..(Regs[d][b] - 1) :
      Own(d, b, i) /\ Own(d, b, j)
        => image[b][Share(d, b) + i].read = image[b][Share(d, b) + j].read

\* A device that answers late or never does not hold up the scan.
ScanGoesOn == []<>(scan = "in") /\ []<>(scan = "out")

ImageOwn ==
  \A d \in Devices, b \in InputBlocks : \A j \in 0..(Regs[d][b] - 1) : Own(d, b, j)

CoilsOwn ==
  \A d \in Devices, b \in OutputBlocks :
    Regs[d][b] > 0 =>
      /\ Len(written[d][b]) = Regs[d][b]
      /\ \A j \in 1..Regs[d][b] :
           written[d][b][j] = [cell |-> Share(d, b) + j - 1]

\* Once all devices answer, and calls end, every device is connected again and
\* every value is back in its own share, in the image and in the devices.
SharesRecover ==
  CallsEnd => (<>[](\A d \in Devices : reachable[d]) => <>[](ImageOwn /\ CoilsOwn))
=============================================================================
