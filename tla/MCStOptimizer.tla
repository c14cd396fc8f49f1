--------------------------- MODULE MCStOptimizer ----------------------------
(* StOptimizer for two conditions, one of them at two indents. *)
EXTENDS StOptimizer

If(cond, indent) == [kind |-> "IF", cond |-> cond, indent |-> indent]
MCIfLines == {If("a", 0), If("b", 0), If("a", 2)}
=============================================================================
