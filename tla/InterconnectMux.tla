---- MODULE InterconnectMux ----
(***************************************************************************)
(* The net-lists of the interconnect multiplexers, which choose the wire    *)
(* that drives a track of the fabric: a stack of transmission gates, a      *)
(* flip-flop of the scan chain for every gate, and a buffer.  In a stack    *)
(* neighbouring gates share a net, so gates and nets alternate along it.    *)
(*                                                                         *)
(* A net is named by its letter and number.  Wires, tabs and vias, and the  *)
(* rows the memories are placed in, are left out except as they decide      *)
(* which memory controls which gate.                                        *)
(***************************************************************************)
EXTENDS Cells, Sequences

CONSTANT num_inputs

XNet(i) == <<"X", i>>
SNet(i) == <<"S", i>>
ZNet(i) == <<"Z", i>>

\* Sky130TransmissionGateStack::BuildSequence: its i-th gate.
SequenceGate(sequence, i) ==
    [IN |-> sequence[2*i + 1], S |-> sequence[2*i + 2], OUT |-> sequence[2*i + 3]]

-----------------------------------------------------------------------------
(* Sky130InterconnectMux1: one output.  Two gates side by side share Z.     *)

Gates == 0..(num_inputs - 1)

\* BuildNetSequences: the sequence that starts at an even input.
NetSequence(i) ==
    IF i + 1 < num_inputs THEN <<XNet(i), SNet(i), ZNet(0), SNet(i + 1), XNet(i + 1)>>
                          ELSE <<XNet(i), SNet(i), ZNet(0)>>

\* The g-th gate of the stack: two in each sequence but perhaps the last.
StackGate(g) == SequenceGate(NetSequence(2 * (g \div 2)), g % 2)

num_ff_rows_top == num_inputs \div 2
num_ff_rows_bottom == num_inputs - num_ff_rows_top

\* DrawRoutes: the gate of the memory at place k of the scan order, which is the
\* memories below the stack and then those above.
GateNumber(k) ==
    IF k < num_ff_rows_bottom
        THEN 2 * (num_ff_rows_bottom - 1 - k)
        ELSE 2 * (num_inputs - 1 - k) + 1

\* The settled states: x are the inputs, Q and QI the outputs of the memories.  Q is
\* at the pfet of a gate, so a memory that stores 0 turns its gate on.
Mux1(x, Q, QI, z, P, OUT) ==
    LET Level(net) == IF net[1] = "X" THEN x[net[2]] ELSE z
    IN /\ \A k \in Gates, g \in Gates :
             StackGate(g).S = SNet(GateNumber(k)) =>
                 TransmissionGate(Level(StackGate(g).IN), Level(StackGate(g).OUT), QI[k], Q[k])
       /\ Buf(z, P, OUT)

-----------------------------------------------------------------------------
(* Sky130InterconnectMux2: two outputs, one stack.                          *)

Mux2Gates == 0..(2 * (num_inputs - 1) - 1)

\* BuildNetSequences: entry i of the only sequence.
Mux2Entry(i) ==
    IF i % 2 = 1
        THEN LET control_num == i \div 2
             IN <<"S", (control_num + 1) \div 2,
                  ((control_num \div 2) % 2) + ((control_num % 2) \div 2)>>
    ELSE IF i % 4 = 0 THEN XNet(i \div 4)
    ELSE ZNet((i \div 4) % 2)

Mux2Gate(c) ==
    [IN |-> Mux2Entry(2 * c), S |-> Mux2Entry(2 * c + 1), OUT |-> Mux2Entry(2 * c + 2)]

-----------------------------------------------------------------------------
\* AddMemoriesVertically: the place in the scan order of the memory in a row and a
\* column, of the num_rows rows that begin at first_row.
ScanPlace(first_row, num_rows, columns, alternate_scan, i, j) ==
    LET flip == alternate_scan # (num_rows % 2 = 0)
        reverse_scan_order == i % 2 = IF flip THEN 1 ELSE 0
    IN IF reverse_scan_order
           THEN (i - first_row + 1) * columns - (j + 1)
           ELSE (i - first_row) * columns + j
=====
