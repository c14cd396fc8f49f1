--------------------------- MODULE MCModbusServer ---------------------------
(* ModbusServer with two or three clients and as many threads as descriptors. *)
EXTENDS ModbusServer, TLC

WorkerSymmetry == Permutations(Workers)
=============================================================================
