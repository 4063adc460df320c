---- MODULE Cells ----
(***************************************************************************)
(* The cells that the generators in atoms/ compose tiles of, as their       *)
(* circuits connect transistors: a net is a bit, a transistor that conducts *)
(* makes two nets equal, and a cell is the relation between its nets once   *)
(* they have settled.  A net that nothing drives may be either bit; two     *)
(* supplies that are joined leave no settled state at all.                  *)
(*                                                                         *)
(* Widths, lengths and bodies of transistors, and the order in which nets   *)
(* settle, are left out.                                                    *)
(***************************************************************************)
EXTENDS Integers

Bit == {0, 1}
VPWR == 1
VGND == 0
Not(x) == 1 - x

\* The transistor models: the level at which each conducts, its gate, and the
\* two nets beside it.
nfet_01v8 == 1
pfet_01v8 == 0
Fet(model, g, d, s) == g = model => d = s
NFet(g, d, s) == Fet(nfet_01v8, g, d, s)
PFet(g, d, s) == Fet(pfet_01v8, g, d, s)

Inverter(a, y) == PFet(a, y, VPWR) /\ NFet(a, y, VGND)

-----------------------------------------------------------------------------
\* Sky130Buf: P is the complement on the way to X.
Buf(A, P, X) == Inverter(A, P) /\ Inverter(P, X)

\* Sky130SplitBuffer: P is not on the way to X; Xb, inside, is.
SplitBuffer(A, P, Xb, X, double_fet0, double_fet2) ==
    /\ Inverter(A, Xb)
    /\ Inverter(Xb, X) /\ (double_fet2 => Inverter(Xb, X))
    /\ Inverter(A, P) /\ (double_fet0 => Inverter(A, P))

\* Sky130Xor2.
Xor2(A, B, X, i) ==
    /\ NFet(B, i[0], VGND) /\ NFet(A, i[0], VGND)
    /\ PFet(B, i[1], i[0]) /\ PFet(A, VPWR, i[1])
    /\ PFet(A, VPWR, i[2]) /\ PFet(B, VPWR, i[2])
    /\ NFet(i[0], X, VGND) /\ PFet(i[0], i[2], X)
    /\ NFet(A, X, i[3])    /\ NFet(B, i[3], VGND)

\* Sky130HdMux21.
HdMux21(A0, A1, S, X, S_B, X_B, I) ==
    /\ Inverter(S, S_B) /\ Inverter(X_B, X)
    /\ PFet(S, I[0], VPWR)   /\ PFet(A0, X_B, I[0])
    /\ NFet(A1, X_B, I[1])   /\ NFet(S, I[1], VGND)
    /\ PFet(S_B, I[2], VPWR) /\ PFet(A1, X_B, I[2])
    /\ NFet(A0, X_B, I[3])   /\ NFet(S_B, I[3], VGND)

\* Sky130TransmissionGate, and that it joins its sides.
TransmissionGate(in, out, S, S_B) == PFet(S_B, out, in) /\ NFet(S, out, in)

-----------------------------------------------------------------------------
(* Sky130Mux, an 8:1 multiplexer: two quarters of nfets and two of pfets,   *)
(* each 4:1, and an output multiplexer between them.                        *)

\* GenerateMux2Circuit: x are the four inputs, y the output, A its own nets.
Quarter(model, x, S0, S0_B, S1, S1_B, y, A) ==
    /\ Fet(model, S0_B, A[0], x[2]) /\ Fet(model, S0, x[3], A[0])
    /\ Fet(model, S0_B, A[1], x[0]) /\ Fet(model, S0, x[1], A[1])
    /\ Fet(model, S1_B, y, A[1])    /\ Fet(model, S1, A[0], y)

\* GenerateOutput2To1MuxCircuit.
Output2To1Mux(x0, x0_b, x1, x1_b, s, s_b, y) ==
    /\ NFet(s_b, y, x0)  /\ NFet(s, x1, y)
    /\ PFet(s, y, x0_b)  /\ PFet(s_b, x1_b, y)

\* The nets inside are A[0..3] of the whole and the two of each quarter.
Mux(X, S, S_B, Z, A, inner) ==
    LET low == [i \in 0..3 |-> X[i]]
        high == [i \in 0..3 |-> X[i + 4]]
    IN /\ Quarter(nfet_01v8, low, S[0], S_B[0], S[1], S_B[1], A[0], inner["upper_left"])
       /\ Quarter(nfet_01v8, high, S[0], S_B[0], S[1], S_B[1], A[1], inner["lower_left"])
       /\ Quarter(pfet_01v8, low, S_B[0], S[0], S_B[1], S[1], A[2], inner["upper_right"])
       /\ Quarter(pfet_01v8, high, S_B[0], S[0], S_B[1], S[1], A[3], inner["lower_right"])
       /\ Output2To1Mux(A[0], A[2], A[1], A[3], S[2], S_B[2], Z)

-----------------------------------------------------------------------------
\* Sky130Carry1: one bit of a carry chain.  CONFIG_OUT, from a flip-flop, says
\* which of two signals is G.
Carry1(C_I, P, G_0, G_1, CONFIG_OUT, S, C_O, i_0, generate_select, carry_select, sum_xor) ==
    /\ HdMux21(G_0, G_1, CONFIG_OUT, i_0,
               generate_select.S_B, generate_select.X_B, generate_select.I)
    /\ HdMux21(C_I, i_0, P, C_O, carry_select.S_B, carry_select.X_B, carry_select.I)
    /\ Xor2(P, C_I, S, sum_xor)
-----------------------------------------------------------------------------
(* Sky130Dfxtp, the flip-flop that every configuration bit and register of  *)
(* a tile is: two latches, of which one is open while the clock is low and  *)
(* the other while it is high.  b and f are the nets at their entries.      *)

DfxtpNets == [a : Bit, b : Bit, c : Bit, e : Bit, f : Bit, h : Bit, i : Bit, j : Bit,
              Q : Bit, QI : Bit, CLKI : Bit, CLK_INT : Bit]

\* The clock: buffered inside, or as it comes with its complement from a buffer beside.
Clocks(input_clock_buffer, CLK, n) ==
    IF input_clock_buffer
        THEN Inverter(CLK, n.CLKI) /\ Inverter(n.CLKI, n.CLK_INT)
        ELSE n.CLKI = Not(CLK) /\ n.CLK_INT = CLK

\* The transistors 0 to 9 of either kind.
Latches(D, n) ==
    LET clk == n.CLK_INT
    IN /\ Inverter(D, n.a)
       /\ PFet(clk, n.b, n.a)    /\ NFet(n.CLKI, n.b, n.a)
       /\ PFet(n.c, n.j, VPWR)   /\ PFet(n.CLKI, n.b, n.j)
       /\ NFet(clk, n.b, n.e)    /\ NFet(n.c, n.e, VGND)
       /\ Inverter(n.b, n.c)
       /\ PFet(n.CLKI, n.f, n.c) /\ NFet(clk, n.f, n.c)
       /\ PFet(n.QI, n.h, VPWR)  /\ PFet(clk, n.f, n.h)
       /\ NFet(n.CLKI, n.f, n.i) /\ NFet(n.QI, n.i, VGND)
       /\ Inverter(n.f, n.QI)
       /\ Inverter(n.QI, n.Q)

Dfxtp(input_clock_buffer, D, CLK, n) ==
    n \in DfxtpNets /\ Clocks(input_clock_buffer, CLK, n) /\ Latches(D, n)

\* From n to m, the entry of the latch that is shut off keeps its charge.
Keeps(n, m) ==
    /\ m.CLK_INT = 1 => m.b = n.b
    /\ m.CLK_INT = 0 => m.f = n.f
=====
