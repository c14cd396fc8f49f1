--------------------------- MODULE MCModbusMaster ---------------------------
(***************************************************************************)
(* ModbusMaster with two devices: the first has a discrete input and a     *)
(* coil, so that the shares of the second can be displaced; the second has *)
(* all four blocks, two of which can be torn.                              *)
(***************************************************************************)
EXTENDS ModbusMaster

MCRegs == <<[di |-> 1, co |-> 1, ir |-> 0, hr |-> 0],
            [di |-> 2, co |-> 1, ir |-> 1, hr |-> 2]>>

\* What the theorems about ModbusMaster assume of the devices.
ASSUME InstanceIsProved == Fits
=============================================================================
