---------------------------- MODULE MCSerialLink ----------------------------
(* SerialLink with payloads that hold every special byte, first, last, next  *)
(* to another and not at all.                                                *)
EXTENDS SerialLink

MCPayloads == {<<S, Escape>>, <<Escape, E>>, <<0, S>>, <<0, 0>>}
MCOutputs  == <<<<S, 7>>, <<Escape, E>>>>
=============================================================================
