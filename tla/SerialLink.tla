----------------------------- MODULE SerialLink -----------------------------
(***************************************************************************)
(* The serial hardware layer (core/hardware_layers/arduino.cpp) once its   *)
(* port is found: the thread of exchangeData() sends the outputs to the IO *)
(* board and reads its inputs, updateBuffersIn() and updateBuffersOut() of *)
(* the scan loop copy between input_data, output_data and the process      *)
(* image, under ioLock.  A frame is 'S', the data with its 'S', 'E' and    *)
(* '\' escaped, and 'E'; read() cuts the stream of frames anywhere.        *)
(*                                                                         *)
(* The data of a frame are a payload and, as their last byte, the frame's  *)
(* number.                                                                 *)
(***************************************************************************)
EXTENDS Integers, Sequences, SequencesExt

CONSTANTS
  Payloads,   \* what the board's data start with: sequences of PayloadSize bytes
  PayloadSize,
  OutputSize, \* sizeof(struct OPLC_output)
  Outputs,    \* the output data of even and odd scans
  ReadSize,   \* sizeof(receiveBuffer)
  Losses,     \* what the line may lose of a frame: "none", "start", "end"
  MaxFrames,  \* bound: frames the board sends
  Settled     \* TRUE: a read ends where a frame ends

S == 83
E == 69
Escape == 92
Special == {S, E, Escape}

ASSUME LinkAssumption ==
  /\ PayloadSize \in Nat /\ OutputSize \in Nat /\ ReadSize \in Nat
  /\ Payloads \subseteq [1..PayloadSize -> Nat] /\ Outputs \in Seq([1..OutputSize -> Nat])
  /\ Len(Outputs) = 2
  /\ Losses \subseteq {"none", "start", "end"} /\ MaxFrames \in 0..(E - 1)
  /\ Settled \in BOOLEAN

VARIABLES
  frames,       \* the data of the frames the board has sent
  wire,         \* bytes under way to the controller; ends: the last of a frame
  intact,       \* whether the last frame lost nothing
  input_data, output_data,
  image,        \* the inputs the program sees
  scanNo,       \* which scan's outputs are in the image, alternating
  ioLock,       \* "free" or "thread"
  scan, thread, \* where the scan loop and the thread are
  temp,         \* the thread's local buffer
  sent          \* the bytes of the last write()

vars == <<frames, wire, intact, input_data, output_data, image, scanNo, ioLock,
          scan, thread, temp, sent>>
boardVars == <<frames, wire, intact>>
scanVars  == <<image, scanNo, scan>>

DataSize == PayloadSize + 1

-----------------------------------------------------------------------------
(* The coding. *)

\* Faulty variant of Escaped: the escape byte itself is not escaped.
EscapedButItself(b) == IF b \in {S, E} THEN <<Escape, b>> ELSE <<b>>

\* sendPacket()
Escaped(b) == IF b \in Special THEN <<Escape, b>> ELSE <<b>>
Body(data) ==
  LET done[i \in 0..Len(data)] == IF i = 0 THEN << >> ELSE done[i - 1] \o Escaped(data[i])
  IN  done[Len(data)]
Packet(data) == <<S>> \o Body(data) \o <<E>>

\* One turn of the loop of parseBuffer().  It unescapes in place: buf is
\* overwritten from its start on, by the next frame too.
Stored(s, b) == [s EXCEPT !.buf[s.index + 1] = b, !.index = @ + 1, !.escape = FALSE]

\* Faulty variant of Parsed: a start inside a frame is taken for data.
ParsedOnce(s, b) ==
  IF ~s.begin THEN [s EXCEPT !.begin = (b = S)]
  ELSE CASE s.escape /\ b \in Special    -> Stored(s, b)
         [] s.escape /\ b \notin Special -> [s EXCEPT !.begin = FALSE, !.escape = FALSE,
                                                      !.received = FALSE, !.index = 0]
         [] ~s.escape /\ b = Escape -> [s EXCEPT !.escape = TRUE]
         [] ~s.escape /\ b = E -> [s EXCEPT !.begin = FALSE, !.received = TRUE, !.index = 0]
         [] ~s.escape /\ b \notin {Escape, E} -> Stored(s, b)

Parsed(s, b) ==
  IF ~s.begin THEN [s EXCEPT !.begin = (b = S)]
  ELSE CASE s.escape /\ b \in Special    -> Stored(s, b)
         [] s.escape /\ b \notin Special -> [s EXCEPT !.begin = FALSE, !.escape = FALSE,
                                                      !.received = FALSE, !.index = 0]
         [] ~s.escape /\ b = Escape -> [s EXCEPT !.escape = TRUE]
         [] ~s.escape /\ b = E -> [s EXCEPT !.begin = FALSE, !.received = TRUE, !.index = 0]
         [] ~s.escape /\ b = S -> [s EXCEPT !.received = FALSE, !.index = 0]
         [] ~s.escape /\ b \notin Special -> Stored(s, b)

\* The loop; the one-element sets have TLC evaluate each turn once.
parseBuffer(buf) ==
  LET after[i \in 0..Len(buf)] ==
        IF i = 0 THEN [begin |-> FALSE, escape |-> FALSE, received |-> FALSE, index |-> 0,
                       buf |-> buf]
                 ELSE CHOOSE s \in {Parsed(r, buf[i]) : r \in {after[i - 1]}} : TRUE
  IN  after[Len(buf)]

\* The first size bytes of a buffer; what was never read into it is Junk.
Junk == 255
FirstBytes(buf, size) == [i \in 1..size |-> IF i <= Len(buf) THEN buf[i] ELSE Junk]

-----------------------------------------------------------------------------
Init ==
  /\ frames = << >> /\ wire = << >> /\ intact = TRUE
  /\ input_data = [i \in 1..DataSize |-> 0]
  /\ output_data = Outputs[1]
  /\ image = input_data
  /\ scanNo = 1
  /\ ioLock = "free"
  /\ scan = "in" /\ thread = "send"
  /\ temp = << >> /\ sent = Packet(output_data)

\* The board sends its inputs; the line may lose the frame's start or end.  A
\* frame without its start is passed over only if it has no escaped 'S'.
BoardSends(p, lost) ==
  LET data  == Append(p, Len(frames) + 1)
      bytes == IF lost = "start" THEN Tail(Packet(data))
               ELSE IF lost = "end" THEN Front(Packet(data)) ELSE Packet(data)
  IN  /\ Len(frames) < MaxFrames
      /\ lost = "start" => S \notin Range(p)
      /\ frames' = Append(frames, data)
      /\ wire' = wire \o [i \in 1..Len(bytes) |->
                            [byte |-> bytes[i], ends |-> i = Len(bytes) /\ lost # "end"]]
      /\ intact' = (lost = "none")
      /\ UNCHANGED <<input_data, output_data, ioLock, thread, temp, sent>>
      /\ UNCHANGED scanVars

-----------------------------------------------------------------------------
(* The scan loop.  Each copy runs under bufferLock and ioLock and is one step; *)
(* the thread has no business with bufferLock.                                *)

updateBuffersIn ==
  /\ scan = "in" /\ ioLock = "free"
  /\ image' = input_data
  /\ scan' = "run"
  /\ UNCHANGED <<input_data, output_data, scanNo, ioLock, thread, temp, sent>>
  /\ UNCHANGED boardVars

RunProgram ==
  /\ scan = "run"
  /\ scanNo' = 3 - scanNo
  /\ scan' = "out"
  /\ UNCHANGED <<input_data, output_data, image, ioLock, thread, temp, sent>>
  /\ UNCHANGED boardVars

updateBuffersOut ==
  /\ scan = "out" /\ ioLock = "free"
  /\ output_data' = Outputs[scanNo]
  /\ scan' = "in"
  /\ UNCHANGED <<input_data, image, scanNo, ioLock, thread, temp, sent>>
  /\ UNCHANGED boardVars

-----------------------------------------------------------------------------
(* exchangeData(): sendPacket(), receivePacket(), sleep_ms(30). *)

\* Faulty variant of TakeLock: the copies are not locked.
TakeNoLock ==
  /\ thread \in {"send", "received"}
  /\ thread' = IF thread = "send" THEN "copy out" ELSE "copy in"
  /\ UNCHANGED <<input_data, output_data, temp, sent, ioLock>>
  /\ UNCHANGED <<boardVars, scanVars>>

TakeLock ==
  /\ thread \in {"send", "received"}
  /\ ioLock = "free" /\ ioLock' = "thread"
  /\ thread' = IF thread = "send" THEN "copy out" ELSE "copy in"
  /\ UNCHANGED <<input_data, output_data, temp, sent>>
  /\ UNCHANGED <<boardVars, scanVars>>

\* memcpy() of output_data, byte by byte.
CopyOut ==
  /\ thread = "copy out" /\ Len(temp) < OutputSize
  /\ temp' = Append(temp, output_data[Len(temp) + 1])
  /\ UNCHANGED <<input_data, output_data, ioLock, thread, sent>>
  /\ UNCHANGED <<boardVars, scanVars>>

\* memcpy() to input_data, byte by byte; temp is what is left to copy.
CopyIn ==
  /\ thread = "copy in" /\ temp # << >>
  /\ input_data' = [input_data EXCEPT ![DataSize + 1 - Len(temp)] = Head(temp)]
  /\ temp' = Tail(temp)
  /\ UNCHANGED <<output_data, ioLock, thread, sent>>
  /\ UNCHANGED <<boardVars, scanVars>>

ReleaseLock ==
  /\ \/ thread = "copy out" /\ Len(temp) = OutputSize /\ thread' = "write"
     \/ thread = "copy in" /\ temp = << >> /\ thread' = "send"
  /\ ioLock' = "free"
  /\ UNCHANGED <<input_data, output_data, temp, sent>>
  /\ UNCHANGED <<boardVars, scanVars>>

WritePacket ==
  /\ thread = "write"
  /\ sent' = Packet(temp) /\ temp' = << >>
  /\ thread' = "read"
  /\ UNCHANGED <<input_data, output_data, ioLock>>
  /\ UNCHANGED <<boardVars, scanVars>>

Receive(bytes) ==
  LET result == parseBuffer(bytes) IN
  IF result.received
    THEN thread' = "received" /\ temp' = FirstBytes(result.buf, DataSize)
    ELSE thread' = "send" /\ UNCHANGED temp

\* Faulty variant of ReadSome: what was read is not taken off the line.
ReadPeek ==
  /\ thread = "read"
  /\ \E n \in 1..Len(wire) :
       /\ n <= ReadSize /\ (Settled => wire[n].ends)
       /\ Receive([i \in 1..n |-> wire[i].byte])
  /\ UNCHANGED <<boardVars, input_data, output_data, ioLock, sent>>
  /\ UNCHANGED scanVars

\* receivePacket(): read() returns the n bytes that have arrived.
ReadSome ==
  /\ thread = "read"
  /\ \E n \in 1..Len(wire) :
       /\ n <= ReadSize /\ (Settled => wire[n].ends)
       /\ Receive([i \in 1..n |-> wire[i].byte])
       /\ wire' = SubSeq(wire, n + 1, Len(wire))
  /\ UNCHANGED <<frames, intact, input_data, output_data, ioLock, sent>>
  /\ UNCHANGED scanVars

\* Nothing has arrived.
ReadNothing ==
  /\ thread = "read"
  /\ thread' = "send"
  /\ UNCHANGED <<input_data, output_data, ioLock, temp, sent>>
  /\ UNCHANGED <<boardVars, scanVars>>

exchangeData ==
  \/ TakeLock \/ CopyOut \/ CopyIn \/ ReleaseLock \/ WritePacket \/ ReadSome \/ ReadNothing

Scan == updateBuffersIn \/ RunProgram \/ updateBuffersOut

Next ==
  \/ \E p \in Payloads, lost \in Losses : BoardSends(p, lost)
  \/ exchangeData \/ Scan

\* Both threads leave the lock alone for most of the time, the one in
\* sleep_ms(), the other between two scans: a thread that waits for it gets it.
\* What is on the line arrives in the end.
Fairness == SF_vars(Scan) /\ SF_vars(exchangeData) /\ SF_vars(ReadSome)

Spec == Init /\ [][Next]_vars /\ Fairness

-----------------------------------------------------------------------------
Number(data) == data[DataSize]

\* The program's inputs are the data of one frame of the board, every byte of
\* them: never of two frames, of a part of one, or with an escape left in.
InputsOfOneFrame ==
  Number(image) # 0 => Number(image) \in DOMAIN frames /\ image = frames[Number(image)]

\* They never go back to those of an earlier frame, however frames and reads
\* fall together.
NeverBack == [][Number(image') >= Number(image)]_vars

\* What is written to the line decodes, by the rules of parseBuffer(), to the
\* outputs of a single scan.
OutputsOfOneScan ==
  LET result == parseBuffer(sent)
      data   == FirstBytes(result.buf, OutputSize)
  IN  result.received /\ data \in {Outputs[1], Outputs[2]}

\* The last frame of the board, if the line lost nothing of it, is what the
\* program sees in the end.
LastFrameArrives ==
  Len(frames) = MaxFrames /\ intact ~> Number(image) = MaxFrames /\ image = frames[MaxFrames]
=============================================================================
