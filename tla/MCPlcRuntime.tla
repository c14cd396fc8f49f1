---------------------------- MODULE MCPlcRuntime ----------------------------
(***************************************************************************)
(* PlcRuntime with one input, one output that the program drives and a     *)
(* 32-bit memory word seen by Modbus as two registers, h and l.            *)
(***************************************************************************)
EXTENDS PlcRuntime

Zeros == [c \in Cells |-> 0]

\* q shows a torn word, or else the input.
Program(img) == [c \in {"q"} |-> IF img["h"] # img["l"] THEN 1 ELSE img["i"]]

Request(o, S, v, b) == [op |-> o, cells |-> S, val |-> v, bad |-> b]
WriteWord == Request("write", {"h", "l"}, 1, FALSE)
ReadWord == Request("read", {"h", "l", "q"}, 0, FALSE)
WritePastEnd == Request("write", {"h"}, 0, TRUE)
TooShort == Request("reject", {}, 0, FALSE)

Latch == [op |-> "operate", cells |-> {"q"}, val |-> 1]
ClearWord == [op |-> "operate", cells |-> {"h"}, val |-> 0]
OutOfRange == [op |-> "leak", cells |-> {}, val |-> 0]

SafetyRequests == {WriteWord, ReadWord, WritePastEnd, TooShort}
ProgressRequests == {Request("write", {"h"}, 0, FALSE), TooShort}

\* For the liveness runs: one word, and a program that copies it to the output.
Copy(img) == [c \in {"q"} |-> img["h"]]

SafetyCommands == {Latch, OutOfRange}
LeakCommands == {OutOfRange}
CatchUpCommands == {ClearWord, [ClearWord EXCEPT !.val = 1]}
=============================================================================
