---- MODULE LutB ----
(***************************************************************************)
(* The net-list of tiles/lut_b.cc, a look-up table of four inputs: sixteen  *)
(* memories in two banks, two 8:1 multiplexers that read them, buffers for  *)
(* the select lines, and an output that is taken from the table or past it. *)
(*                                                                         *)
(* A memory is its place in the scan order.  A circuit is connected net by  *)
(* net as its wires are routed, and a net whose route fails stays           *)
(* unconnected: this is the circuit when every route was found.  Where      *)
(* things are placed is left out except for the rows of the memories, which *)
(* decide what reads them.  The outputs are those of a table without a      *)
(* third input to its output muxes.                                         *)
(***************************************************************************)
EXTENDS Cells, Sequences

CONSTANTS
    add_s2_input_mux,
    add_s3_input_mux,
    add_third_input_to_output_muxes

\* SetScanOrder: configuration of the registered output, the table, configuration of
\* the other; each of those has a second one, outermost, when muxes have a third input.
reg_output_mux_config == IF add_third_input_to_output_muxes THEN 1 ELSE 0
memories_(i) == reg_output_mux_config + 1 + i
comb_output_mux_config == memories_(15) + 1
scan_length ==
    comb_output_mux_config + IF add_third_input_to_output_muxes THEN 2 ELSE 1

-----------------------------------------------------------------------------
(* The instances of a row are in the order they were put there, memories    *)
(* first.                                                                   *)

\* banks_[0].instances()[row][0].  InsertRowZero puts a row below the others.
LeftInstance(row) ==
    LET before == IF add_third_input_to_output_muxes THEN row - 1 ELSE row
    IN CASE before = -1 -> 0                         \* aux_reg_output_mux_config_
         [] before = 0 -> reg_output_mux_config
         [] OTHER -> memories_(before - 1)           \* memory_rows 1 to 8

\* banks_[1].instances()[row][i], of the rows with memories of the table.
RightInstance(row, i) ==
    LET before == IF add_third_input_to_output_muxes THEN row - 1 ELSE row
    IN IF before = 8 THEN memories_(8 + i) ELSE memories_(17 - before)

\* RouteMuxInputs: the memory at input_<n> of mux m.
MuxInput(m, n) ==
    LET offset == IF add_third_input_to_output_muxes THEN 1 ELSE 0
    IN IF m = 0
       THEN <<LeftInstance(2), LeftInstance(1), LeftInstance(3), LeftInstance(4),
              RightInstance(4 + offset, 0), RightInstance(5 + offset, 0),
              RightInstance(3 + offset, 0), RightInstance(2 + offset, 0)>>[n + 1]
       ELSE <<RightInstance(7 + offset, 0), RightInstance(6 + offset, 0),
              RightInstance(8 + offset, 1), RightInstance(8 + offset, 0),
              LeftInstance(7), LeftInstance(8), LeftInstance(6), LeftInstance(5)>>[n + 1]

-----------------------------------------------------------------------------
\* The input of buffer k, from the port or from a mux between two (AddInputs).
Selected(port, a, mux, has_mux, A0, A1, sel, plain) ==
    IF has_mux THEN HdMux21(port[A0], port[A1], port[sel], a, mux.S_B, mux.X_B, mux.I)
               ELSE a = port[plain]

has_s3_mux == add_s3_input_mux /\ add_third_input_to_output_muxes

\* RouteRemainder: the select lines, each with its complement, of buffers 2, 1, 0 and 3.
SelectLines(port, n) ==
    /\ Selected(port, n.a2, n.s2_select_mux, add_s2_input_mux, "S2_A", "S2_B", "S2_S", "S2")
    /\ Selected(port, n.a3, n.s3_select_mux, has_s3_mux, "S3_A", "S3_B", "S3_S", "S3")
    /\ SplitBuffer(port["S0"], n.s_b[0], n.x0, n.s[0], TRUE, TRUE)
    /\ SplitBuffer(port["S1"], n.s_b[1], n.x1, n.s[1], TRUE, TRUE)
    /\ Buf(n.a2, n.s_b[2], n.s[2])
    /\ Buf(n.a3, n.p3, n.s3)

\* The table: stored is what each memory holds, n are the nets inside.
Table(port, stored, Z, n) ==
    /\ SelectLines(port, n)
    /\ \A m \in 0..1 :
           Mux([i \in 0..7 |-> stored[MuxInput(m, i)]], n.s, n.s_b, n.z[m], n.A[m], n.inner[m])
    /\ HdMux21(n.z[0], n.z[1], n.s3, Z, n.active_mux2.S_B, n.active_mux2.X_B, n.active_mux2.I)

\* RouteOutputs: MUX, and the D of the flip-flop whose output is Q.
Outputs(port, stored, Z, MUX, reg_flop_in, n) ==
    /\ HdMux21(Z, port["X"], stored[comb_output_mux_config], MUX,
               n.comb_output_mux.S_B, n.comb_output_mux.X_B, n.comb_output_mux.I)
    /\ HdMux21(Z, port["X"], stored[reg_output_mux_config], reg_flop_in,
               n.reg_output_mux.S_B, n.reg_output_mux.X_B, n.reg_output_mux.I)
=====
