---------------------------- MODULE MCProcessMap ----------------------------
(***************************************************************************)
(* ProcessMap with two entries per array and two bits to a byte, in the    *)
(* layout of the declarations (gcc without optimisation, as the build      *)
(* scripts call it) and in the reverse one (gcc -O2).                      *)
(***************************************************************************)
EXTENDS ProcessMap

Bits == N * Row
Declared == [bool_input |-> 0, bool_output |-> Bits, byte_input |-> 2 * Bits,
             byte_output |-> 2 * Bits + N, int_input |-> 2 * Bits + 2 * N,
             int_output |-> 2 * Bits + 3 * N, int_memory |-> 2 * Bits + 4 * N,
             dint_memory |-> 2 * Bits + 5 * N, lint_memory |-> 2 * Bits + 6 * N]
Reversed == [lint_memory |-> 0, dint_memory |-> N, int_memory |-> 2 * N, int_output |-> 3 * N,
             int_input |-> 4 * N, byte_output |-> 5 * N, byte_input |-> 6 * N,
             bool_output |-> 7 * N, bool_input |-> 7 * N + Bits]
BothLayouts == {Declared, Reversed}

\* %QX0.0, %QW1, %MW0, %MD0 and %ML1
SomeOfEach == <<<<"bool_output", 0>>, <<"int_output", 1>>, <<"int_memory", 0>>,
                <<"dint_memory", 0>>, <<"lint_memory", 1>>>>

\* What the theorems about ProcessMap assume of the program and the layouts.
ASSUME InstanceIsProved == Inside /\ Neighbour
=============================================================================
