------------------------- MODULE MCFunctionBlocks -------------------------
(***************************************************************************)
(* FunctionBlocks with a second of 5 ns and a period of 3: a preset of 0   *)
(* expires in the next scan, 3 at a period exactly, 7 in between, more     *)
(* than a second later.                                                    *)
(***************************************************************************)
EXTENDS FunctionBlocks
=============================================================================
