---- MODULE GeneratorProofs ----
(***************************************************************************)
(* Theorems about what generators make. Of the circuits: what each cell     *)
(* computes, for every value of its inputs, on what a flip-flop settles,    *)
(* and what the tiles compose of their cells. Of the drawings: what shapes  *)
(* keep between them wherever they are, and what becomes of the shapes and  *)
(* ports of an instance.                                                    *)
(***************************************************************************)
EXTENDS ScanChain, InterconnectMux, LutB, Layouts, TLAPS, SequenceTheorems

-----------------------------------------------------------------------------
(* Cells.                                                                   *)

LEMMA Complement == ASSUME NEW x \in Bit PROVE Not(x) \in Bit /\ Not(x) # x /\ Not(Not(x)) = x
  BY DEF Bit, Not

LEMMA Inverts == ASSUME NEW a \in Bit, NEW y \in Bit
                 PROVE  Inverter(a, y) <=> y = Not(a)
  BY DEF Bit, Not, Inverter, PFet, NFet, Fet, nfet_01v8, pfet_01v8, VPWR, VGND

\* A buffer gives its input and, beside, the complement; both ways of building one agree.
THEOREM BuffersRepeat ==
    ASSUME NEW A \in Bit, NEW P \in Bit, NEW Xb \in Bit, NEW X \in Bit,
           NEW double_fet0 \in BOOLEAN, NEW double_fet2 \in BOOLEAN
    PROVE  /\ Buf(A, P, X) <=> P = Not(A) /\ X = A
           /\ SplitBuffer(A, P, Xb, X, double_fet0, double_fet2)
                  <=> P = Not(A) /\ Xb = Not(A) /\ X = A
  BY Inverts, Complement DEF Buf, SplitBuffer

\* An exclusive or of transistors settles on the exclusive or of its inputs, and on nothing else.
LEMMA XorSettles ==
    ASSUME NEW A \in Bit, NEW B \in Bit
    PROVE  /\ \A X \in Bit, i \in [0..3 -> Bit] :
                  Xor2(A, B, X, i) => X = IF A = B THEN 0 ELSE 1
           /\ \E X \in Bit, i \in [0..3 -> Bit] : Xor2(A, B, X, i)
  <1>1. ASSUME NEW X \in Bit, NEW i \in [0..3 -> Bit], Xor2(A, B, X, i)
        PROVE  X = IF A = B THEN 0 ELSE 1
    <2>1. i[0] \in Bit /\ i[1] \in Bit /\ i[2] \in Bit /\ i[3] \in Bit
      OBVIOUS
    <2> QED
      BY <1>1, <2>1 DEF Xor2, PFet, NFet, Fet, nfet_01v8, pfet_01v8, Bit, VPWR, VGND
  <1>2. \E X \in Bit, i \in [0..3 -> Bit] : Xor2(A, B, X, i)
    <2> DEFINE i0 == IF A = 0 /\ B = 0 THEN 1 ELSE 0
               X == IF A = B THEN 0 ELSE 1
               i == [k \in 0..3 |-> IF k = 0 THEN i0
                                    ELSE IF k = 1 THEN (IF A = 0 THEN 1 ELSE 0)
                                    ELSE IF k = 2 THEN (IF A = 1 /\ B = 1 THEN 0 ELSE 1)
                                    ELSE (IF B = 1 THEN 0 ELSE IF A = 1 THEN X ELSE 0)]
    <2>1. X \in Bit /\ i \in [0..3 -> Bit]
      BY DEF Bit
    <2>2. i[0] = i0 /\ i[1] = (IF A = 0 THEN 1 ELSE 0) /\ i[2] = (IF A = 1 /\ B = 1 THEN 0 ELSE 1)
          /\ i[3] = (IF B = 1 THEN 0 ELSE IF A = 1 THEN X ELSE 0)
      OBVIOUS
    <2> HIDE DEF i
    <2>3. Xor2(A, B, X, i)
      BY <2>2 DEF Xor2, PFet, NFet, Fet, nfet_01v8, pfet_01v8, Bit, VPWR, VGND
    <2> QED
      BY <2>1, <2>3
  <1> QED
    BY <1>1, <1>2

\* The 2:1 multiplexer settles on the input that S selects.
LEMMA HdMuxSettles ==
    ASSUME NEW A0 \in Bit, NEW A1 \in Bit, NEW S \in Bit
    PROVE  /\ \A X, S_B, X_B \in Bit, I \in [0..3 -> Bit] :
                  HdMux21(A0, A1, S, X, S_B, X_B, I) => X = IF S = 1 THEN A1 ELSE A0
           /\ \E X, S_B, X_B \in Bit, I \in [0..3 -> Bit] :
                  HdMux21(A0, A1, S, X, S_B, X_B, I)
  <1>1. ASSUME NEW X \in Bit, NEW S_B \in Bit, NEW X_B \in Bit, NEW I \in [0..3 -> Bit],
               HdMux21(A0, A1, S, X, S_B, X_B, I)
        PROVE  X = IF S = 1 THEN A1 ELSE A0
    <2>1. I[0] \in Bit /\ I[1] \in Bit /\ I[2] \in Bit /\ I[3] \in Bit
      OBVIOUS
    <2>2. S_B = Not(S) /\ X = Not(X_B)
      BY <1>1, Inverts DEF HdMux21
    <2> QED
      BY <1>1, <2>1, <2>2 DEF HdMux21, PFet, NFet, Fet, nfet_01v8, pfet_01v8, Bit, Not, VPWR, VGND
  <1>2. \E X, S_B, X_B \in Bit, I \in [0..3 -> Bit] : HdMux21(A0, A1, S, X, S_B, X_B, I)
    <2> DEFINE X == IF S = 1 THEN A1 ELSE A0
               I == [k \in 0..3 |-> IF k = 0 THEN (IF S = 0 THEN 1 ELSE Not(X))
                                    ELSE IF k = 1 THEN (IF S = 1 THEN 0 ELSE Not(X))
                                    ELSE IF k = 2 THEN (IF S = 1 THEN 1 ELSE Not(X))
                                    ELSE (IF S = 0 THEN 0 ELSE Not(X))]
    <2>1. X \in Bit /\ Not(X) \in Bit /\ Not(S) \in Bit /\ Not(Not(X)) = X
      BY Complement
    <2>2. I \in [0..3 -> Bit]
      BY <2>1 DEF Bit
    <2>3. /\ I[0] = (IF S = 0 THEN 1 ELSE Not(X)) /\ I[1] = (IF S = 1 THEN 0 ELSE Not(X))
          /\ I[2] = (IF S = 1 THEN 1 ELSE Not(X)) /\ I[3] = (IF S = 0 THEN 0 ELSE Not(X))
      OBVIOUS
    <2> HIDE DEF I
    <2>4. Inverter(S, Not(S)) /\ Inverter(Not(X), X)
      BY <2>1, Inverts
    <2>5. HdMux21(A0, A1, S, X, Not(S), Not(X), I)
      BY <2>3, <2>4 DEF HdMux21, PFet, NFet, Fet, nfet_01v8, pfet_01v8, Bit, Not, VPWR, VGND
    <2> QED
      BY <2>1, <2>2, <2>5
  <1> QED
    BY <1>1, <1>2

-----------------------------------------------------------------------------
\* A quarter of the 8:1 multiplexer gives its output the input that S1 and S0 select.
LEMMA QuarterSelects ==
    ASSUME NEW x \in [0..3 -> Bit], NEW S0 \in Bit, NEW S1 \in Bit, NEW y \in Bit,
           NEW A \in [0..1 -> Bit]
    PROVE  /\ Quarter(nfet_01v8, x, S0, Not(S0), S1, Not(S1), y, A) => y = x[S0 + 2 * S1]
           /\ Quarter(pfet_01v8, x, Not(S0), S0, Not(S1), S1, y, A) => y = x[S0 + 2 * S1]
  <1>1. x[0] \in Bit /\ x[1] \in Bit /\ x[2] \in Bit /\ x[3] \in Bit /\ A[0] \in Bit /\ A[1] \in Bit
    OBVIOUS
  <1>2. S0 + 2 * S1 = IF S1 = 0 THEN (IF S0 = 0 THEN 0 ELSE 1) ELSE (IF S0 = 0 THEN 2 ELSE 3)
    BY DEF Bit
  <1>3. x[S0 + 2 * S1] = IF S1 = 0 THEN (IF S0 = 0 THEN x[0] ELSE x[1])
                                  ELSE (IF S0 = 0 THEN x[2] ELSE x[3])
    BY <1>2
  <1> QED
    BY <1>1, <1>3 DEF Quarter, Fet, nfet_01v8, pfet_01v8, Not, Bit

\* And there is a state in which it has settled.
LEMMA QuarterSettles ==
    ASSUME NEW x \in [0..3 -> Bit], NEW S0 \in Bit, NEW S1 \in Bit
    PROVE  \E A \in [0..1 -> Bit] :
               /\ Quarter(nfet_01v8, x, S0, Not(S0), S1, Not(S1), x[S0 + 2 * S1], A)
               /\ Quarter(pfet_01v8, x, Not(S0), S0, Not(S1), S1, x[S0 + 2 * S1], A)
  <1> DEFINE A == [k \in 0..1 |-> IF k = 0 THEN (IF S0 = 0 THEN x[2] ELSE x[3])
                                           ELSE (IF S0 = 0 THEN x[0] ELSE x[1])]
  <1>1. x[0] \in Bit /\ x[1] \in Bit /\ x[2] \in Bit /\ x[3] \in Bit
    OBVIOUS
  <1>2. A \in [0..1 -> Bit]
    BY <1>1
  <1>3. A[0] = (IF S0 = 0 THEN x[2] ELSE x[3]) /\ A[1] = (IF S0 = 0 THEN x[0] ELSE x[1])
    OBVIOUS
  <1>4. S0 + 2 * S1 = IF S1 = 0 THEN (IF S0 = 0 THEN 0 ELSE 1) ELSE (IF S0 = 0 THEN 2 ELSE 3)
    BY DEF Bit
  <1>5. x[S0 + 2 * S1] = IF S1 = 0 THEN (IF S0 = 0 THEN x[0] ELSE x[1])
                                  ELSE (IF S0 = 0 THEN x[2] ELSE x[3])
    BY <1>4
  <1> HIDE DEF A
  <1>6. Quarter(nfet_01v8, x, S0, Not(S0), S1, Not(S1), x[S0 + 2 * S1], A)
    BY <1>1, <1>3, <1>5 DEF Quarter, Fet, nfet_01v8, Not, Bit
  <1>7. Quarter(pfet_01v8, x, Not(S0), S0, Not(S1), S1, x[S0 + 2 * S1], A)
    BY <1>1, <1>3, <1>5 DEF Quarter, Fet, pfet_01v8, Not, Bit
  <1> QED
    BY <1>2, <1>6, <1>7

Quarters == {"upper_left", "lower_left", "upper_right", "lower_right"}

\* The 8:1 multiplexer settles on the input of which S[2], S[1], S[0] is the number.
THEOREM MuxSelects ==
    ASSUME NEW X \in [0..7 -> Bit], NEW S \in [0..2 -> Bit], NEW S_B \in [0..2 -> Bit],
           S_B = [k \in 0..2 |-> Not(S[k])]
    PROVE  /\ \A Z \in Bit, A \in [0..3 -> Bit], inner \in [Quarters -> [0..1 -> Bit]] :
                  Mux(X, S, S_B, Z, A, inner) => Z = X[S[0] + 2 * S[1] + 4 * S[2]]
           /\ \E Z \in Bit, A \in [0..3 -> Bit], inner \in [Quarters -> [0..1 -> Bit]] :
                  Mux(X, S, S_B, Z, A, inner)
  <1> DEFINE low == [i \in 0..3 |-> X[i]]
             high == [i \in 0..3 |-> X[i + 4]]
             n == S[0] + 2 * S[1]
  <1>1. /\ S[0] \in Bit /\ S[1] \in Bit /\ S[2] \in Bit
        /\ S_B[0] = Not(S[0]) /\ S_B[1] = Not(S[1]) /\ S_B[2] = Not(S[2])
    OBVIOUS
  <1>2. n \in 0..3
    BY <1>1 DEF Bit
  <1>3. low \in [0..3 -> Bit] /\ high \in [0..3 -> Bit]
    OBVIOUS
  <1>4. low[n] = X[n] /\ high[n] = X[n + 4] /\ low[n] \in Bit /\ high[n] \in Bit
    BY <1>2
  <1>5. X[n + 4 * S[2]] = IF S[2] = 0 THEN low[n] ELSE high[n]
    <2>1. CASE S[2] = 0
      BY <2>1, <1>2, <1>4
    <2>2. CASE S[2] = 1
      BY <2>2, <1>2, <1>4
    <2> QED
      BY <1>1, <2>1, <2>2 DEF Bit
  <1> HIDE DEF low, high, n
  <1>6. ASSUME NEW Z \in Bit, NEW A \in [0..3 -> Bit], NEW inner \in [Quarters -> [0..1 -> Bit]],
               Mux(X, S, S_B, Z, A, inner)
        PROVE  Z = X[n + 4 * S[2]]
    <2>1. \A q \in Quarters : inner[q] \in [0..1 -> Bit]
      OBVIOUS
    <2>2. A[0] \in Bit /\ A[1] \in Bit /\ A[2] \in Bit /\ A[3] \in Bit
      OBVIOUS
    <2>3. /\ Quarter(nfet_01v8, low, S[0], Not(S[0]), S[1], Not(S[1]), A[0], inner["upper_left"])
          /\ Quarter(nfet_01v8, high, S[0], Not(S[0]), S[1], Not(S[1]), A[1], inner["lower_left"])
          /\ Quarter(pfet_01v8, low, Not(S[0]), S[0], Not(S[1]), S[1], A[2], inner["upper_right"])
          /\ Quarter(pfet_01v8, high, Not(S[0]), S[0], Not(S[1]), S[1], A[3], inner["lower_right"])
          /\ Output2To1Mux(A[0], A[2], A[1], A[3], S[2], Not(S[2]), Z)
      BY <1>1, <1>6 DEF Mux, low, high
    <2>4. A[0] = low[n] /\ A[1] = high[n] /\ A[2] = low[n] /\ A[3] = high[n]
      BY <1>1, <1>3, <2>1, <2>2, <2>3, QuarterSelects DEF n, Quarters
    <2>5. Z = IF S[2] = 0 THEN low[n] ELSE high[n]
      BY <1>1, <2>3, <2>4 DEF Output2To1Mux, NFet, PFet, Fet, nfet_01v8, pfet_01v8, Not, Bit
    <2> QED
      BY <2>5, <1>5
  <1>7. \E Z \in Bit, A \in [0..3 -> Bit], inner \in [Quarters -> [0..1 -> Bit]] :
            Mux(X, S, S_B, Z, A, inner)
    <2>1. PICK l \in [0..1 -> Bit] :
              /\ Quarter(nfet_01v8, low, S[0], Not(S[0]), S[1], Not(S[1]), low[n], l)
              /\ Quarter(pfet_01v8, low, Not(S[0]), S[0], Not(S[1]), S[1], low[n], l)
      BY <1>1, <1>3, QuarterSettles DEF n
    <2>2. PICK u \in [0..1 -> Bit] :
              /\ Quarter(nfet_01v8, high, S[0], Not(S[0]), S[1], Not(S[1]), high[n], u)
              /\ Quarter(pfet_01v8, high, Not(S[0]), S[0], Not(S[1]), S[1], high[n], u)
      BY <1>1, <1>3, QuarterSettles DEF n
    <2> DEFINE Z == IF S[2] = 0 THEN low[n] ELSE high[n]
               A == [k \in 0..3 |-> IF k \in {0, 2} THEN low[n] ELSE high[n]]
               inner == [q \in Quarters |->
                            IF q \in {"upper_left", "upper_right"} THEN l ELSE u]
    <2>3. Z \in Bit /\ A \in [0..3 -> Bit] /\ inner \in [Quarters -> [0..1 -> Bit]]
      BY <1>4
    <2>4. A[0] = low[n] /\ A[1] = high[n] /\ A[2] = low[n] /\ A[3] = high[n]
      OBVIOUS
    <2>5. /\ inner["upper_left"] = l /\ inner["upper_right"] = l
          /\ inner["lower_left"] = u /\ inner["lower_right"] = u
      BY DEF Quarters
    <2> HIDE DEF A, inner
    <2>6. Output2To1Mux(A[0], A[2], A[1], A[3], S[2], Not(S[2]), Z)
      BY <1>1, <2>4 DEF Output2To1Mux, NFet, PFet, Fet, nfet_01v8, pfet_01v8, Not, Bit
    <2>7. Mux(X, S, S_B, Z, A, inner)
      BY <1>1, <2>1, <2>2, <2>4, <2>5, <2>6 DEF Mux, low, high
    <2> QED
      BY <2>3, <2>7
  <1> QED
    BY <1>6, <1>7 DEF n

-----------------------------------------------------------------------------
(* The carry chain.  Muxes and the exclusive or in it have nets of their    *)
(* own, any that settle.                                                    *)
MuxNets == [S_B : Bit, X_B : Bit, I : [0..3 -> Bit]]
XorNets == [0..3 -> Bit]

LEMMA CarrySettles ==
    ASSUME NEW C_I \in Bit, NEW P \in Bit, NEW G_0 \in Bit, NEW G_1 \in Bit, NEW CONFIG_OUT \in Bit,
           NEW S \in Bit, NEW C_O \in Bit, NEW i_0 \in Bit,
           NEW g \in MuxNets, NEW k \in MuxNets, NEW x \in XorNets,
           Carry1(C_I, P, G_0, G_1, CONFIG_OUT, S, C_O, i_0, g, k, x)
    PROVE  /\ S = IF P = C_I THEN 0 ELSE 1
           /\ C_O = IF P = 1 THEN (IF CONFIG_OUT = 1 THEN G_1 ELSE G_0) ELSE C_I
  <1>1. /\ g.S_B \in Bit /\ g.X_B \in Bit /\ g.I \in [0..3 -> Bit]
        /\ k.S_B \in Bit /\ k.X_B \in Bit /\ k.I \in [0..3 -> Bit]
    BY DEF MuxNets
  <1>2. /\ HdMux21(G_0, G_1, CONFIG_OUT, i_0, g.S_B, g.X_B, g.I)
        /\ HdMux21(C_I, i_0, P, C_O, k.S_B, k.X_B, k.I)
        /\ Xor2(P, C_I, S, x)
    BY DEF Carry1
  <1>3. i_0 = IF CONFIG_OUT = 1 THEN G_1 ELSE G_0
    BY <1>1, <1>2, HdMuxSettles
  <1>4. C_O = IF P = 1 THEN i_0 ELSE C_I
    BY <1>1, <1>2, HdMuxSettles
  <1>5. S = IF P = C_I THEN 0 ELSE 1
    BY <1>2, XorSettles DEF XorNets
  <1> QED
    BY <1>3, <1>4, <1>5

\* With P where the operands agree, G the complement of one of them and carries
\* that are active low, the chain adds.
THEOREM CarryAdds ==
    ASSUME NEW a \in Bit, NEW b \in Bit, NEW c \in Bit,
           NEW P \in Bit, P = IF a = b THEN 1 ELSE 0,
           NEW G_0 \in Bit, NEW G_1 \in Bit, NEW CONFIG_OUT \in Bit,
           (IF CONFIG_OUT = 1 THEN G_1 ELSE G_0) = Not(a)
    PROVE  /\ \A S, C_O, i_0 \in Bit, g, k \in MuxNets, x \in XorNets :
                  Carry1(Not(c), P, G_0, G_1, CONFIG_OUT, S, C_O, i_0, g, k, x)
                      => a + b + c = S + 2 * Not(C_O)
           /\ \E S, C_O, i_0 \in Bit, g, k \in MuxNets, x \in XorNets :
                  Carry1(Not(c), P, G_0, G_1, CONFIG_OUT, S, C_O, i_0, g, k, x)
  <1>1. Not(c) \in Bit /\ Not(a) \in Bit
    BY Complement
  <1>2. ASSUME NEW S \in Bit, NEW C_O \in Bit, NEW i_0 \in Bit,
               NEW g \in MuxNets, NEW k \in MuxNets, NEW x \in XorNets,
               Carry1(Not(c), P, G_0, G_1, CONFIG_OUT, S, C_O, i_0, g, k, x)
        PROVE  a + b + c = S + 2 * Not(C_O)
    <2>1. /\ S = IF P = Not(c) THEN 0 ELSE 1
          /\ C_O = IF P = 1 THEN (IF CONFIG_OUT = 1 THEN G_1 ELSE G_0) ELSE Not(c)
      BY <1>1, <1>2, CarrySettles, ZenonT(30)
    <2>2. C_O = IF P = 1 THEN Not(a) ELSE Not(c)
      BY <2>1
    <2> QED
      BY <2>1, <2>2 DEF Bit, Not
  <1>3. \E S, C_O, i_0 \in Bit, g, k \in MuxNets, x \in XorNets :
            Carry1(Not(c), P, G_0, G_1, CONFIG_OUT, S, C_O, i_0, g, k, x)
    <2>1. PICK i_0, gs, gx \in Bit, gI \in [0..3 -> Bit] :
              HdMux21(G_0, G_1, CONFIG_OUT, i_0, gs, gx, gI)
      BY HdMuxSettles
    <2>2. PICK C_O, ks, kx \in Bit, kI \in [0..3 -> Bit] :
              HdMux21(Not(c), i_0, P, C_O, ks, kx, kI)
      BY <1>1, HdMuxSettles
    <2>3. PICK S \in Bit, x \in XorNets : Xor2(P, Not(c), S, x)
      BY <1>1, XorSettles DEF XorNets
    <2> DEFINE g == [S_B |-> gs, X_B |-> gx, I |-> gI]
               k == [S_B |-> ks, X_B |-> kx, I |-> kI]
    <2>4. /\ g \in MuxNets /\ g.S_B = gs /\ g.X_B = gx /\ g.I = gI
          /\ k \in MuxNets /\ k.S_B = ks /\ k.X_B = kx /\ k.I = kI
      BY DEF MuxNets
    <2> HIDE DEF g, k
    <2>5. Carry1(Not(c), P, G_0, G_1, CONFIG_OUT, S, C_O, i_0, g, k, x)
      BY <2>1, <2>2, <2>3, <2>4 DEF Carry1
    <2> QED
      BY <2>4, <2>5
  <1> QED
    BY <1>2, <1>3

\* The header of the cell calls P propagate and G generate.  With P where the
\* operands differ, whatever G is, the carry of two equal ones is not theirs: it is
\* the one that came in.
THEOREM PropagateDoesNotAdd ==
    ASSUME NEW a \in Bit, NEW b \in Bit, a = b, NEW c \in Bit, c # a,
           NEW G_0 \in Bit, NEW G_1 \in Bit, NEW CONFIG_OUT \in Bit,
           NEW S \in Bit, NEW C_O \in Bit, NEW i_0 \in Bit,
           NEW g \in MuxNets, NEW k \in MuxNets, NEW x \in XorNets,
           Carry1(c, 0, G_0, G_1, CONFIG_OUT, S, C_O, i_0, g, k, x)
    PROVE  C_O = c /\ a + b + c # S + 2 * C_O
  <1>1. 0 \in Bit /\ C_O = c /\ S = IF 0 = c THEN 0 ELSE 1
    BY CarrySettles DEF Bit
  <1> QED
    BY <1>1 DEF Bit

-----------------------------------------------------------------------------
(* The flip-flop.  Its state is the entry of each latch: the other nets     *)
(* follow from D, CLK and the entry that is shut.                           *)

LEMMA LatchesSettle ==
    ASSUME NEW buffered \in BOOLEAN, NEW d \in Bit, NEW clk \in Bit,
           NEW n, Dfxtp(buffered, d, clk, n)
    PROVE  /\ n.CLK_INT = clk /\ n.b \in Bit /\ n.f \in Bit /\ n.Q \in Bit
           /\ n.Q = n.f
           /\ clk = 0 => n.b = Not(d)
           /\ clk = 1 => n.f = Not(n.b)
  <1>1. /\ n.a \in Bit /\ n.b \in Bit /\ n.c \in Bit /\ n.e \in Bit /\ n.f \in Bit /\ n.h \in Bit
        /\ n.i \in Bit /\ n.j \in Bit /\ n.Q \in Bit /\ n.QI \in Bit /\ n.CLKI \in Bit
        /\ n.CLK_INT \in Bit
    BY DEF Dfxtp, DfxtpNets
  <1>2. n.CLKI = Not(clk) /\ n.CLK_INT = clk
    BY <1>1, Inverts, Complement DEF Dfxtp, Clocks
  <1>3. n.a = Not(d) /\ n.c = Not(n.b) /\ n.QI = Not(n.f) /\ n.Q = Not(n.QI)
    BY <1>1, Inverts DEF Dfxtp, Latches
  <1>4. n.Q = n.f
    BY <1>1, <1>3, Complement
  <1>5. clk = 0 => n.b = n.a
    BY <1>2 DEF Dfxtp, Latches, PFet, Fet, pfet_01v8
  <1>6. clk = 1 => n.f = n.c
    BY <1>2 DEF Dfxtp, Latches, NFet, Fet, nfet_01v8
  <1> QED
    BY <1>1, <1>2, <1>3, <1>4, <1>5, <1>6

\* The nets after D became d and CLK clk, of latches that held n.
After(d, clk, n) ==
    LET b == IF clk = 0 THEN Not(d) ELSE n.b
        f == IF clk = 0 THEN n.f ELSE Not(n.b)
    IN [a |-> Not(d), b |-> b, c |-> Not(b),
        e |-> IF clk = 1 THEN b ELSE 0,
        f |-> f, h |-> IF clk = 0 THEN f ELSE 1, i |-> IF clk = 0 THEN f ELSE 0,
        j |-> IF clk = 1 THEN b ELSE 1,
        Q |-> f, QI |-> Not(f), CLKI |-> Not(clk), CLK_INT |-> clk]

\* Whatever the latches held, the nets settle after any change of D or of CLK; what
\* Q becomes does not depend on what D becomes.
LEMMA FlipFlopSettles ==
    ASSUME NEW buffered \in BOOLEAN, NEW d \in Bit, NEW clk \in Bit, NEW n \in DfxtpNets
    PROVE  /\ After(d, clk, n) \in DfxtpNets
           /\ Dfxtp(buffered, d, clk, After(d, clk, n))
           /\ Keeps(n, After(d, clk, n))
           /\ After(d, clk, n).Q = IF clk = 0 THEN n.f ELSE Not(n.b)
  <1> DEFINE b == IF clk = 0 THEN Not(d) ELSE n.b
             f == IF clk = 0 THEN n.f ELSE Not(n.b)
             m == After(d, clk, n)
  <1>1. n.b \in Bit /\ n.f \in Bit
    BY DEF DfxtpNets
  <1>2. b \in Bit /\ f \in Bit /\ Not(b) \in Bit /\ Not(f) \in Bit /\ Not(d) \in Bit /\ Not(clk) \in Bit
    BY <1>1, Complement
  <1>3. m \in DfxtpNets
    BY <1>2 DEF DfxtpNets, Bit, After
  <1>4. Clocks(buffered, clk, m)
    BY <1>2, Inverts, Complement DEF Clocks, After
  <1>5. Latches(d, m)
    <2>1. Inverter(d, m.a) /\ Inverter(m.b, m.c) /\ Inverter(m.f, m.QI) /\ Inverter(m.QI, m.Q)
      BY <1>2, Inverts, Complement DEF After
    <2>2. /\ PFet(clk, m.b, m.a) /\ NFet(m.CLKI, m.b, m.a)
          /\ PFet(m.c, m.j, VPWR) /\ PFet(m.CLKI, m.b, m.j)
          /\ NFet(clk, m.b, m.e) /\ NFet(m.c, m.e, VGND)
      BY <1>1 DEF After, PFet, NFet, Fet, nfet_01v8, pfet_01v8, Not, Bit, VPWR, VGND
    <2>3. /\ PFet(m.CLKI, m.f, m.c) /\ NFet(clk, m.f, m.c)
          /\ PFet(m.QI, m.h, VPWR) /\ PFet(clk, m.f, m.h)
          /\ NFet(m.CLKI, m.f, m.i) /\ NFet(m.QI, m.i, VGND)
      BY <1>1 DEF After, PFet, NFet, Fet, nfet_01v8, pfet_01v8, Not, Bit, VPWR, VGND
    <2>4. m.CLK_INT = clk
      BY DEF After
    <2> QED
      BY <2>1, <2>2, <2>3, <2>4 DEF Latches
  <1>6. Keeps(n, m)
    BY DEF Keeps, Bit, After
  <1> QED
    BY <1>3, <1>4, <1>5, <1>6 DEF Dfxtp, After

-----------------------------------------------------------------------------

(* The scan chain.  The state of a flip-flop is the entry of each latch:    *)
(* the other nets follow from D, CLK and the entry that is shut.            *)

Sound ==
    /\ SCAN_IN \in Bit /\ CLK \in Bit
    /\ memories \in [Memories -> DfxtpNets]
    /\ Settled(SCAN_IN, CLK, memories)
    /\ sent \in Seq(Bit)

\* What a step does to each memory.
LEMMA MemoryStep ==
    ASSUME input_clock_buffer \in BOOLEAN, NumMemories \in Nat, Sound, Next, NEW k \in Memories
    PROVE  /\ DataOf(k, SCAN_IN, memories) \in Bit /\ DataOf(k, SCAN_IN', memories') \in Bit
           /\ memories[k].Q \in Bit /\ memories'[k].Q \in Bit
           /\ CLK = 0 /\ CLK' = 1 => memories'[k].Q = DataOf(k, SCAN_IN, memories)
           /\ ~(CLK = 0 /\ CLK' = 1) => memories'[k].Q = memories[k].Q
  <1>1. /\ SCAN_IN' \in Bit /\ CLK' \in Bit /\ memories' \in [Memories -> DfxtpNets]
        /\ Settled(SCAN_IN', CLK', memories')
        /\ \A l \in Memories : Keeps(memories[l], memories'[l])
        /\ SCAN_IN \in Bit /\ CLK \in Bit /\ memories \in [Memories -> DfxtpNets]
        /\ Settled(SCAN_IN, CLK, memories)
    BY Complement DEF Sound, Next, NewData, ClockEdge, Settle
  <1>2. \A l \in Memories : memories[l].Q \in Bit /\ memories'[l].Q \in Bit
    BY <1>1 DEF DfxtpNets
  <1>3. /\ DataOf(k, SCAN_IN, memories) \in Bit /\ DataOf(k, SCAN_IN', memories') \in Bit
    <2>1. k = 0 \/ k - 1 \in Memories
      BY DEF Memories
    <2> QED
      BY <1>1, <1>2, <2>1 DEF DataOf
  <1> DEFINE n == memories[k]
             m == memories'[k]
             d == DataOf(k, SCAN_IN, memories)
  <1>4. /\ n.CLK_INT = CLK /\ n.b \in Bit /\ n.f \in Bit /\ n.Q = n.f
        /\ CLK = 0 => n.b = Not(d)
        /\ CLK = 1 => n.f = Not(n.b)
    <2>1. Dfxtp(input_clock_buffer, d, CLK, n)
      BY <1>1 DEF Settled
    <2> QED
      BY <1>1, <1>3, <2>1, LatchesSettle
  <1>5. /\ m.CLK_INT = CLK' /\ m.b \in Bit /\ m.f \in Bit /\ m.Q = m.f
        /\ CLK' = 1 => m.f = Not(m.b)
    <2>1. Dfxtp(input_clock_buffer, DataOf(k, SCAN_IN', memories'), CLK', m)
      BY <1>1 DEF Settled
    <2> QED
      BY <1>1, <1>3, <2>1, LatchesSettle
  <1>6. Keeps(n, m)
    BY <1>1
  <1>7. CLK = 0 /\ CLK' = 1 => m.Q = d
    BY <1>3, <1>4, <1>5, <1>6, Complement DEF Keeps
  <1>8. ~(CLK = 0 /\ CLK' = 1) => m.Q = n.Q
    BY <1>1, <1>4, <1>5, <1>6 DEF Keeps, Bit
  <1> QED
    BY <1>2, <1>3, <1>7, <1>8

LEMMA ChainStep ==
    ASSUME input_clock_buffer \in BOOLEAN, NumMemories \in Nat, Sound, [Next]_vars
    PROVE  Sound'
  <1>1. CASE NewData
    BY <1>1, Complement DEF Sound, NewData, Settle
  <1>2. CASE ClockEdge
    <2>1. sent' \in Seq(Bit)
      BY <1>2 DEF Sound, ClockEdge
    <2> QED
      BY <1>2, <2>1, Complement DEF Sound, ClockEdge, Settle
  <1>3. CASE UNCHANGED vars
    BY <1>3 DEF Sound, vars, Settled, Memories, DataOf
  <1> QED
    BY <1>1, <1>2, <1>3 DEF Next

LEMMA ChainIsSound ==
    ASSUME input_clock_buffer \in BOOLEAN, NumMemories \in Nat
    PROVE  Spec => []Sound
  <1>1. Init => Sound
    BY DEF Init, Sound
  <1>2. Sound /\ [Next]_vars => Sound'
    BY ChainStep
  <1> QED
    BY <1>1, <1>2, PTL DEF Spec

\* The chain settles after any change of SCAN_IN or of the clock.
THEOREM ChainSettles ==
    ASSUME input_clock_buffer \in BOOLEAN, NumMemories \in Nat, Sound,
           NEW scan_in \in Bit, NEW clk \in Bit
    PROVE  \E after \in [Memories -> DfxtpNets] :
               /\ Settled(scan_in, clk, after)
               /\ \A k \in Memories : Keeps(memories[k], after[k])
  <1> DEFINE q == [k \in Memories |-> IF clk = 0 THEN memories[k].f ELSE Not(memories[k].b)]
             d == [k \in Memories |-> IF k = 0 THEN scan_in ELSE q[k - 1]]
             after == [k \in Memories |-> After(d[k], clk, memories[k])]
  <1>1. \A k \in Memories : memories[k] \in DfxtpNets
    BY DEF Sound
  <1>2. \A k \in Memories : q[k] \in Bit
    BY <1>1, Complement DEF DfxtpNets
  <1>3. \A k \in Memories : k = 0 \/ k - 1 \in Memories
    BY DEF Memories
  <1>4. \A k \in Memories : d[k] \in Bit
    BY <1>2, <1>3
  <1>5. \A k \in Memories : /\ after[k] \in DfxtpNets
                             /\ Dfxtp(input_clock_buffer, d[k], clk, after[k])
                             /\ Keeps(memories[k], after[k])
                             /\ after[k].Q = q[k]
    <2> SUFFICES ASSUME NEW k \in Memories
                 PROVE  /\ after[k] \in DfxtpNets
                        /\ Dfxtp(input_clock_buffer, d[k], clk, after[k])
                        /\ Keeps(memories[k], after[k])
                        /\ after[k].Q = q[k]
      OBVIOUS
    <2>1. after[k] = After(d[k], clk, memories[k]) /\ d[k] \in Bit /\ memories[k] \in DfxtpNets
      BY <1>1, <1>4
    <2>2. q[k] = IF clk = 0 THEN memories[k].f ELSE Not(memories[k].b)
      OBVIOUS
    <2> HIDE DEF after, d, q
    <2>3. /\ After(d[k], clk, memories[k]) \in DfxtpNets
          /\ Dfxtp(input_clock_buffer, d[k], clk, After(d[k], clk, memories[k]))
          /\ Keeps(memories[k], After(d[k], clk, memories[k]))
          /\ After(d[k], clk, memories[k]).Q = IF clk = 0 THEN memories[k].f ELSE Not(memories[k].b)
      BY <2>1, FlipFlopSettles
    <2> QED
      BY <2>1, <2>2, <2>3
  <1>6. after \in [Memories -> DfxtpNets]
    BY <1>5
  <1>7. \A k \in Memories : DataOf(k, scan_in, after) = d[k]
    <2> SUFFICES ASSUME NEW k \in Memories PROVE DataOf(k, scan_in, after) = d[k]
      OBVIOUS
    <2>1. d[k] = IF k = 0 THEN scan_in ELSE q[k - 1]
      OBVIOUS
    <2> HIDE DEF after, d, q
    <2> QED
      BY <1>3, <1>5, <2>1 DEF DataOf
  <1> HIDE DEF after, d, q
  <1> QED
    BY <1>5, <1>6, <1>7 DEF Settled

\* Every memory of the chain is a register on the output of the one before it: at
\* a rising edge it takes what that held before the edge, although that changes with
\* the same edge.
THEOREM MemoriesAreRegisters ==
    ASSUME input_clock_buffer \in BOOLEAN, NumMemories \in Nat, NEW k \in Memories
    PROVE  Spec => R(k)!Spec
  <1>1. Sound => DataOf(k, SCAN_IN, memories) \in Bit /\ memories[k].Q \in Bit
    <2>1. k = 0 \/ k - 1 \in Memories
      BY DEF Memories
    <2> QED
      BY <2>1 DEF Sound, DataOf, DfxtpNets
  <1>2. Sound => R(k)!Init
    BY <1>1 DEF R!Init, Sound, Bit
  <1>3. ASSUME Sound, [Next]_vars PROVE [R(k)!Next]_(R(k)!vars)
    <2>1. CASE UNCHANGED vars
      BY <2>1 DEF vars, R!vars, DataOf
    <2>2. CASE Next
      <3>1. /\ DataOf(k, SCAN_IN, memories) \in Bit /\ DataOf(k, SCAN_IN', memories') \in Bit
            /\ CLK = 0 /\ CLK' = 1 => memories'[k].Q = DataOf(k, SCAN_IN, memories)
            /\ ~(CLK = 0 /\ CLK' = 1) => memories'[k].Q = memories[k].Q
        BY <1>3, <2>2, MemoryStep
      <3>2. ~(CLK = 0 /\ CLK' = 1) /\ (k # 0 \/ SCAN_IN' = SCAN_IN) =>
                DataOf(k, SCAN_IN', memories') = DataOf(k, SCAN_IN, memories)
        <4>1. k = 0 \/ k - 1 \in Memories
          BY DEF Memories
        <4> QED
          BY <1>3, <2>2, <4>1, MemoryStep DEF DataOf
      <3>3. CASE NewData
        <4>1. CLK' = CLK /\ SCAN_IN' = 1 - SCAN_IN
          BY <3>3 DEF NewData, Not
        <4>2. k = 0 => DataOf(k, SCAN_IN', memories') = 1 - DataOf(k, SCAN_IN, memories)
          BY <4>1 DEF DataOf
        <4> QED
          BY <3>1, <3>2, <4>1, <4>2 DEF R!Next, R!NewData, R!vars
      <3>4. CASE ClockEdge
        <4>1. CLK \in Bit /\ CLK' = 1 - CLK /\ SCAN_IN' = SCAN_IN
          BY <1>3, <3>4 DEF ClockEdge, Not, Sound
        <4>2. CASE CLK = 0
          BY <3>1, <4>1, <4>2 DEF R!Next, R!Rise, Bit
        <4>3. CASE CLK = 1
          BY <3>1, <3>2, <4>1, <4>3 DEF R!Next, R!Fall
        <4> QED
          BY <4>1, <4>2, <4>3 DEF Bit
      <3> QED
        BY <2>2, <3>3, <3>4 DEF Next
    <2> QED
      BY <1>3, <2>1, <2>2
  <1> QED
    BY <1>2, <1>3, ChainIsSound, PTL DEF Spec, R!Spec

\* Whatever word is clocked in, a memory holds the bit that was sent as many edges
\* ago as it is places down the chain.
THEOREM ChainHoldsTheWord ==
    ASSUME input_clock_buffer \in BOOLEAN, NumMemories \in Nat
    PROVE  Spec => []HoldsTheWord
  <1>1. Init => HoldsTheWord
    BY DEF Init, HoldsTheWord, Memories
  <1>2. ASSUME Sound, HoldsTheWord, [Next]_vars PROVE HoldsTheWord'
    <2>1. CASE UNCHANGED vars
      BY <1>2, <2>1 DEF vars, HoldsTheWord
    <2>2. CASE Next /\ CLK = 0 /\ CLK' = 1
      <3>1. sent' = Append(sent, SCAN_IN) /\ SCAN_IN \in Bit /\ sent \in Seq(Bit)
        BY <1>2, <2>2 DEF Next, NewData, ClockEdge, Sound
      <3>2. Len(sent') = Len(sent) + 1 /\ Len(sent) \in Nat
        BY <3>1
      <3> SUFFICES ASSUME NEW k \in Memories, k < Len(sent')
                   PROVE  memories'[k].Q = sent'[Len(sent') - k]
        BY DEF HoldsTheWord
      <3>3. memories'[k].Q = DataOf(k, SCAN_IN, memories)
        BY <1>2, <2>2, MemoryStep
      <3>4. CASE k = 0
        BY <3>1, <3>2, <3>3, <3>4 DEF DataOf
      <3>5. CASE k # 0
        <4>1. k - 1 \in Memories /\ k - 1 < Len(sent) /\ k \in Nat
          BY <3>2, <3>5 DEF Memories
        <4>2. memories[k - 1].Q = sent[Len(sent) - (k - 1)]
          BY <1>2, <4>1 DEF HoldsTheWord
        <4>3. Len(sent) - (k - 1) = Len(sent') - k /\ Len(sent) - (k - 1) \in 1..Len(sent)
          BY <3>2, <3>5, <4>1
        <4>4. sent'[Len(sent') - k] = sent[Len(sent) - (k - 1)]
          BY <3>1, <4>3
        <4> QED
          BY <3>3, <3>5, <4>2, <4>4 DEF DataOf
      <3> QED
        BY <3>4, <3>5
    <2>3. CASE Next /\ ~(CLK = 0 /\ CLK' = 1)
      <3>1. sent' = sent
        BY <1>2, <2>3, Complement DEF Next, NewData, ClockEdge, Sound, Bit, Not
      <3>2. \A k \in Memories : memories'[k].Q = memories[k].Q
        BY <1>2, <2>3, MemoryStep
      <3> QED
        BY <1>2, <3>1, <3>2 DEF HoldsTheWord
    <2> QED
      BY <1>2, <2>1, <2>2, <2>3
  <1> QED
    BY <1>1, <1>2, ChainIsSound, PTL DEF Spec

-----------------------------------------------------------------------------
(* The interconnect multiplexers.                                           *)

\* Gate g of the stack of Mux1 is between input g and Z, under control g.
LEMMA StackGates ==
    ASSUME num_inputs \in Nat, NEW g \in Gates
    PROVE  /\ StackGate(g).S = SNet(g)
           /\ \/ StackGate(g).IN = XNet(g) /\ StackGate(g).OUT = ZNet(0)
              \/ StackGate(g).IN = ZNet(0) /\ StackGate(g).OUT = XNet(g)
  <1>1. CASE g % 2 = 0
    <2>1. 2 * (g \div 2) = g
      BY <1>1 DEF Gates
    <2>2. StackGate(g) = [IN |-> NetSequence(g)[1], S |-> NetSequence(g)[2], OUT |-> NetSequence(g)[3]]
      BY <1>1, <2>1 DEF StackGate, SequenceGate
    <2> QED
      BY <2>2 DEF NetSequence
  <1>2. CASE g % 2 = 1
    <2>1. 2 * (g \div 2) = g - 1 /\ g - 1 + 1 < num_inputs /\ g - 1 + 1 = g
      BY <1>2 DEF Gates
    <2>2. NetSequence(g - 1) = <<XNet(g - 1), SNet(g - 1), ZNet(0), SNet(g), XNet(g)>>
      BY <2>1 DEF NetSequence
    <2>3. StackGate(g) = [IN |-> NetSequence(g - 1)[3], S |-> NetSequence(g - 1)[4],
                          OUT |-> NetSequence(g - 1)[5]]
      BY <1>2, <2>1 DEF StackGate, SequenceGate
    <2> QED
      BY <2>2, <2>3
  <1> QED
    BY <1>1, <1>2 DEF Gates

\* The memories, in scan order, and the gates are one to one.
THEOREM EveryGateHasOneMemory ==
    ASSUME num_inputs \in Nat
    PROVE  /\ \A k \in Gates : GateNumber(k) \in Gates
           /\ \A k, l \in Gates : GateNumber(k) = GateNumber(l) => k = l
           /\ \A g \in Gates : \E k \in Gates : GateNumber(k) = g
  <1>1. /\ num_ff_rows_bottom \in Nat
        /\ num_inputs = 2 * num_ff_rows_bottom \/ num_inputs = 2 * num_ff_rows_bottom - 1
    BY DEF num_ff_rows_bottom, num_ff_rows_top
  <1>2. \A k \in Gates : GateNumber(k) \in Gates
    BY <1>1 DEF GateNumber, Gates
  <1>3. \A k, l \in Gates : GateNumber(k) = GateNumber(l) => k = l
    BY <1>1 DEF GateNumber, Gates
  <1>4. ASSUME NEW g \in Gates PROVE \E k \in Gates : GateNumber(k) = g
    <2> DEFINE h == g \div 2
    <2>0. h \in Nat /\ (g = 2 * h \/ g = 2 * h + 1)
      BY DEF Gates
    <2> HIDE DEF h
    <2>1. CASE g = 2 * h
      <3>1. num_ff_rows_bottom - 1 - h \in Gates /\ num_ff_rows_bottom - 1 - h < num_ff_rows_bottom
        BY <1>1, <2>0, <2>1 DEF Gates
      <3> QED
        BY <1>1, <2>0, <2>1, <3>1 DEF GateNumber
    <2>2. CASE g = 2 * h + 1
      <3>1. num_inputs - 1 - h \in Gates /\ ~(num_inputs - 1 - h < num_ff_rows_bottom)
        BY <1>1, <2>0, <2>2 DEF Gates
      <3> QED
        BY <1>1, <2>0, <2>2, <3>1 DEF GateNumber
    <2> QED
      BY <2>0, <2>1, <2>2
  <1> QED
    BY <1>2, <1>3, <1>4

\* A gate joins its input to Z when its memory stores 0 and not when it stores 1.
LEMMA MuxJoins ==
    ASSUME num_inputs \in Nat, NEW x \in [Gates -> Bit], NEW Q \in [Gates -> Bit],
           NEW QI \in [Gates -> Bit], \A k \in Gates : QI[k] = Not(Q[k]),
           NEW z \in Bit, NEW P \in Bit, NEW OUT \in Bit
    PROVE  Mux1(x, Q, QI, z, P, OUT) <=>
               /\ \A k \in Gates : Q[k] = 0 => x[GateNumber(k)] = z
               /\ P = Not(z) /\ OUT = z
  <1> DEFINE Level(net) == IF net[1] = "X" THEN x[net[2]] ELSE z
             Joined(k, g) == TransmissionGate(Level(StackGate(g).IN), Level(StackGate(g).OUT), QI[k], Q[k])
  <1>1. \A k, g \in Gates : StackGate(g).S = SNet(GateNumber(k)) <=> g = GateNumber(k)
    BY StackGates, EveryGateHasOneMemory DEF SNet
  <1>2. ASSUME NEW k \in Gates, NEW g \in Gates PROVE Joined(k, g) <=> (Q[k] = 0 => x[g] = z)
    <2>1. Level(XNet(g)) = x[g] /\ Level(ZNet(0)) = z
      BY DEF XNet, ZNet
    <2>2. x[g] \in Bit /\ Q[k] \in Bit /\ QI[k] = Not(Q[k])
      OBVIOUS
    <2> HIDE DEF Level
    <2>3. \/ Level(StackGate(g).IN) = x[g] /\ Level(StackGate(g).OUT) = z
          \/ Level(StackGate(g).IN) = z /\ Level(StackGate(g).OUT) = x[g]
      BY <2>1, StackGates
    <2> QED
      BY <2>2, <2>3 DEF TransmissionGate, PFet, NFet, Fet, nfet_01v8, pfet_01v8, Not, Bit
  <1>3. Mux1(x, Q, QI, z, P, OUT) <=>
            /\ \A k \in Gates, g \in Gates : StackGate(g).S = SNet(GateNumber(k)) => Joined(k, g)
            /\ Buf(z, P, OUT)
    BY DEF Mux1
  <1> HIDE DEF Joined
  <1>4. Buf(z, P, OUT) <=> P = Not(z) /\ OUT = z
    BY Inverts, Complement DEF Buf
  <1> QED
    BY <1>1, <1>2, <1>3, <1>4, EveryGateHasOneMemory

\* When one memory stores 0, the output is the input of its gate, whatever is at the
\* others.  When none does the output may be anything, and when two do, for inputs
\* that differ, nothing settles: the supplies are joined through the stack.
THEOREM Mux1Selects ==
    ASSUME num_inputs \in Nat, NEW x \in [Gates -> Bit], NEW Q \in [Gates -> Bit],
           NEW QI \in [Gates -> Bit], \A k \in Gates : QI[k] = Not(Q[k])
    PROVE  /\ \A chosen \in Gates : (\A k \in Gates : Q[k] = 0 <=> k = chosen) =>
                  /\ \A z, P, OUT \in Bit : Mux1(x, Q, QI, z, P, OUT) => OUT = x[GateNumber(chosen)]
                  /\ \E z, P, OUT \in Bit : Mux1(x, Q, QI, z, P, OUT)
           /\ (\A k \in Gates : Q[k] = 1) =>
                  \A OUT \in Bit : \E z, P \in Bit : Mux1(x, Q, QI, z, P, OUT)
           /\ \A k, l \in Gates :
                  Q[k] = 0 /\ Q[l] = 0 /\ x[GateNumber(k)] # x[GateNumber(l)] =>
                      \A z, P, OUT \in Bit : ~Mux1(x, Q, QI, z, P, OUT)
  <1>1. \A z, P, OUT \in Bit : Mux1(x, Q, QI, z, P, OUT) <=>
            /\ \A k \in Gates : Q[k] = 0 => x[GateNumber(k)] = z
            /\ P = Not(z) /\ OUT = z
    BY MuxJoins
  <1>2. ASSUME NEW chosen \in Gates, \A k \in Gates : Q[k] = 0 <=> k = chosen
        PROVE  /\ \A z, P, OUT \in Bit : Mux1(x, Q, QI, z, P, OUT) => OUT = x[GateNumber(chosen)]
               /\ \E z, P, OUT \in Bit : Mux1(x, Q, QI, z, P, OUT)
    <2>1. x[GateNumber(chosen)] \in Bit /\ Not(x[GateNumber(chosen)]) \in Bit
      BY EveryGateHasOneMemory, Complement
    <2>2. Mux1(x, Q, QI, x[GateNumber(chosen)], Not(x[GateNumber(chosen)]), x[GateNumber(chosen)])
      BY <1>1, <1>2, <2>1
    <2> QED
      BY <1>1, <1>2, <2>1, <2>2
  <1>3. ASSUME \A k \in Gates : Q[k] = 1, NEW OUT \in Bit
        PROVE  \E z, P \in Bit : Mux1(x, Q, QI, z, P, OUT)
    <2>1. Not(OUT) \in Bit
      BY Complement
    <2>2. Mux1(x, Q, QI, OUT, Not(OUT), OUT)
      BY <1>1, <1>3, <2>1
    <2> QED
      BY <2>1, <2>2
  <1> QED
    BY <1>1, <1>2, <1>3

\* Clocked in with one 0 in the last num_inputs bits, sent k edges ago, the multiplexer
\* gives the input of the gate of the k-th memory.
SelectsWhatWasSent ==
    \A x \in [Gates -> Bit], chosen \in Gates, z, P, OUT \in Bit :
        /\ Len(sent) >= num_inputs
        /\ \A k \in Gates : sent[Len(sent) - k] = 0 <=> k = chosen
        /\ Mux1(x, [k \in Gates |-> memories[k].Q], [k \in Gates |-> memories[k].QI], z, P, OUT)
        => OUT = x[GateNumber(chosen)]

THEOREM WordSelectsInput ==
    ASSUME input_clock_buffer \in BOOLEAN, num_inputs \in Nat, NumMemories = num_inputs
    PROVE  Spec => []SelectsWhatWasSent
  <1>1. ASSUME Sound, HoldsTheWord PROVE SelectsWhatWasSent
    <2>1. Memories = Gates
      BY DEF Memories, Gates
    <2> DEFINE Q == [k \in Gates |-> memories[k].Q]
               QI == [k \in Gates |-> memories[k].QI]
    <2>2. \A k \in Gates : memories[k] \in DfxtpNets /\ memories[k].Q \in Bit /\ memories[k].QI \in Bit
      BY <1>1, <2>1 DEF Sound, DfxtpNets
    <2>3. \A k \in Gates : memories[k].QI = Not(memories[k].Q)
      <3> SUFFICES ASSUME NEW k \in Gates PROVE memories[k].QI = Not(memories[k].Q)
        OBVIOUS
      <3>1. Inverter(memories[k].QI, memories[k].Q)
        BY <1>1, <2>1 DEF Sound, Settled, Dfxtp, Latches
      <3> QED
        BY <2>2, <3>1, Inverts, Complement
    <2>4. Q \in [Gates -> Bit] /\ QI \in [Gates -> Bit] /\ \A k \in Gates : QI[k] = Not(Q[k])
      BY <2>2, <2>3
    <2> SUFFICES ASSUME NEW x \in [Gates -> Bit], NEW chosen \in Gates,
                        NEW z \in Bit, NEW P \in Bit, NEW OUT \in Bit,
                        Len(sent) >= num_inputs,
                        \A k \in Gates : sent[Len(sent) - k] = 0 <=> k = chosen,
                        Mux1(x, Q, QI, z, P, OUT)
                 PROVE  OUT = x[GateNumber(chosen)]
      BY DEF SelectsWhatWasSent
    <2>5. \A k \in Gates : k < Len(sent)
      BY <1>1 DEF Gates, Sound
    <2>6. \A k \in Gates : Q[k] = sent[Len(sent) - k]
      BY <1>1, <2>1, <2>5 DEF HoldsTheWord
    <2>7. \A k \in Gates : Q[k] = 0 <=> k = chosen
      BY <2>6
    <2> HIDE DEF Q, QI
    <2> QED
      BY <2>4, <2>7, Mux1Selects
  <1>2. NumMemories \in Nat
    OBVIOUS
  <1> QED
    BY <1>1, <1>2, ChainIsSound, ChainHoldsTheWord, PTL

\* In the stack of the two-output multiplexer, gate c is between one input and one
\* output, which the name of its control tells.
LEMMA Mux2Joins ==
    ASSUME num_inputs \in Nat, NEW c \in Mux2Gates
    PROVE  LET i == (c + 1) \div 2
               o == (c \div 2) % 2
           IN /\ Mux2Gate(c).S = <<"S", i, o>>
              /\ \/ Mux2Gate(c).IN = XNet(i) /\ Mux2Gate(c).OUT = ZNet(o)
                 \/ Mux2Gate(c).IN = ZNet(o) /\ Mux2Gate(c).OUT = XNet(i)
  <1> DEFINE h == c \div 2
  <1>1. c \in Nat /\ h \in Nat /\ (c = 2 * h \/ c = 2 * h + 1)
    BY DEF Mux2Gates
  <1> HIDE DEF h
  <1>2. (2 * c + 1) % 2 = 1 /\ (2 * c + 1) \div 2 = c
    BY <1>1
  <1>3. CASE c = 2 * h
    <2>1. /\ (c + 1) \div 2 = h /\ c \div 2 = h /\ (c % 2) \div 2 = 0
          /\ (2 * c) % 2 # 1 /\ (2 * c) % 4 = 0 /\ (2 * c) \div 4 = h
          /\ (2 * c + 2) % 2 # 1 /\ (2 * c + 2) % 4 # 0 /\ (2 * c + 2) \div 4 = h
          /\ (h % 2) + 0 = h % 2
      BY <1>1, <1>3
    <2> QED
      BY <1>2, <2>1 DEF Mux2Gate, Mux2Entry
  <1>4. CASE c = 2 * h + 1
    <2>1. /\ (c + 1) \div 2 = h + 1 /\ c \div 2 = h /\ (c % 2) \div 2 = 0
          /\ (2 * c) % 2 # 1 /\ (2 * c) % 4 # 0 /\ (2 * c) \div 4 = h
          /\ (2 * c + 2) % 2 # 1 /\ (2 * c + 2) % 4 = 0 /\ (2 * c + 2) \div 4 = h + 1
          /\ (h % 2) + 0 = h % 2
      BY <1>1, <1>4
    <2> QED
      BY <1>2, <2>1 DEF Mux2Gate, Mux2Entry
  <1> QED
    BY <1>1, <1>3, <1>4

\* Every input but the first and the last has a gate to either output, no two gates
\* join the same pair, and every gate has its own control.
THEOREM Mux2ReachesBoth ==
    ASSUME num_inputs \in Nat, num_inputs > 1
    PROVE  /\ \A i \in 1..(num_inputs - 2), o \in 0..1 :
                  \E c \in Mux2Gates : Mux2Gate(c).S = <<"S", i, o>>
           /\ \A c, d \in Mux2Gates : Mux2Gate(c).S = Mux2Gate(d).S => c = d
  <1>1. ASSUME NEW i \in 1..(num_inputs - 2), NEW o \in 0..1
        PROVE  \E c \in Mux2Gates : Mux2Gate(c).S = <<"S", i, o>>
    <2> DEFINE c == IF o = i % 2 THEN 2 * i ELSE 2 * i - 1
    <2>1. c \in Mux2Gates /\ (c + 1) \div 2 = i /\ (c \div 2) % 2 = o
      <3>1. CASE o = i % 2
        BY <3>1 DEF Mux2Gates
      <3>2. CASE o # i % 2
        <4>1. (2 * i - 1) \div 2 = i - 1 /\ (2 * i - 1 + 1) \div 2 = i /\ (i - 1) % 2 = o
          BY <3>2
        <4> QED
          BY <3>2, <4>1 DEF Mux2Gates
      <3> QED
        BY <3>1, <3>2
    <2> QED
      BY <2>1, Mux2Joins
  <1>2. ASSUME NEW c \in Mux2Gates, NEW d \in Mux2Gates, Mux2Gate(c).S = Mux2Gate(d).S
        PROVE  c = d
    <2>1. (c + 1) \div 2 = (d + 1) \div 2 /\ (c \div 2) % 2 = (d \div 2) % 2
      BY <1>2, Mux2Joins
    <2> QED
      BY <2>1 DEF Mux2Gates
  <1> QED
    BY <1>1, <1>2

\* Memories that follow one another in the scan order are beside one another: the
\* order runs along a row and returns along the next.
THEOREM ScanOrderFolds ==
    ASSUME NEW first_row \in Nat, NEW num_rows \in Nat, NEW columns \in Nat, columns > 0,
           NEW alternate_scan \in BOOLEAN,
           NEW i \in Nat, i >= first_row, NEW j \in 0..(columns - 1)
    PROVE  LET Place(r, c) == ScanPlace(first_row, num_rows, columns, alternate_scan, r, c)
           IN \/ \E next \in {j - 1, j + 1} :
                    next \in 0..(columns - 1) /\ Place(i, next) = Place(i, j) + 1
              \/ Place(i + 1, j) = Place(i, j) + 1
  <1> DEFINE flip == alternate_scan # (num_rows % 2 = 0)
             odd == IF flip THEN 1 ELSE 0
             Place(r, c) == ScanPlace(first_row, num_rows, columns, alternate_scan, r, c)
             base == (i - first_row) * columns
  <1>1. base \in Int /\ (i - first_row + 1) * columns = base + columns
        /\ (i + 1 - first_row) * columns = base + columns
        /\ (i + 1 - first_row + 1) * columns = base + columns + columns
    OBVIOUS
  <1>2. i % 2 = odd <=> (i + 1) % 2 # odd
    OBVIOUS
  <1>3. \A c \in 0..(columns - 1) :
            Place(i, c) = IF i % 2 = odd THEN (i - first_row + 1) * columns - (c + 1) ELSE base + c
    BY DEF ScanPlace
  <1>4. Place(i + 1, j) = IF (i + 1) % 2 = odd THEN (i + 1 - first_row + 1) * columns - (j + 1)
                                              ELSE (i + 1 - first_row) * columns + j
    BY DEF ScanPlace
  <1> HIDE DEF base, odd, Place
  <1>5. CASE i % 2 = odd /\ j > 0
    <2>1. j - 1 \in 0..(columns - 1) /\ Place(i, j - 1) = Place(i, j) + 1
      BY <1>1, <1>3, <1>5
    <2> QED
      BY <2>1 DEF Place
  <1>6. CASE i % 2 # odd /\ j < columns - 1
    <2>1. j + 1 \in 0..(columns - 1) /\ Place(i, j + 1) = Place(i, j) + 1
      BY <1>1, <1>3, <1>6
    <2> QED
      BY <2>1 DEF Place
  <1>7. CASE i % 2 = odd /\ j = 0
    <2>1. Place(i + 1, j) = Place(i, j) + 1
      BY <1>1, <1>2, <1>3, <1>4, <1>7
    <2> QED
      BY <2>1 DEF Place
  <1>8. CASE i % 2 # odd /\ j = columns - 1
    <2>1. Place(i + 1, j) = Place(i, j) + 1
      BY <1>1, <1>2, <1>3, <1>4, <1>8
    <2> QED
      BY <2>1 DEF Place
  <1> QED
    BY <1>5, <1>6, <1>7, <1>8

-----------------------------------------------------------------------------
(* The look-up table.                                                       *)

LutPorts == {"S0", "S1", "S2", "S2_A", "S2_B", "S2_S", "S3", "S3_A", "S3_B", "S3_S", "X"}
LutNets == [a2 : Bit, a3 : Bit, s2_select_mux : MuxNets, s3_select_mux : MuxNets,
            x0 : Bit, x1 : Bit, p3 : Bit, s3 : Bit, s : [0..2 -> Bit], s_b : [0..2 -> Bit],
            z : [0..1 -> Bit], A : [0..1 -> [0..3 -> Bit]],
            inner : [0..1 -> [Quarters -> [0..1 -> Bit]]],
            active_mux2 : MuxNets, comb_output_mux : MuxNets, reg_output_mux : MuxNets]

\* What select line k carries.
SelectLine(port, k) ==
    LET Muxed(A0, A1, sel) == IF port[sel] = 1 THEN port[A1] ELSE port[A0]
    IN CASE k = 0 -> port["S0"]
         [] k = 1 -> port["S1"]
         [] k = 2 -> IF add_s2_input_mux THEN Muxed("S2_A", "S2_B", "S2_S") ELSE port["S2"]
         [] k = 3 -> IF has_s3_mux THEN Muxed("S3_A", "S3_B", "S3_S") ELSE port["S3"]

\* The memory that a word on the select lines reads.
Addressed(port) ==
    MuxInput(SelectLine(port, 3), SelectLine(port, 0) + 2 * SelectLine(port, 1) + 4 * SelectLine(port, 2))

LEMMA NormalInputs ==
    ASSUME add_third_input_to_output_muxes = FALSE
    PROVE  /\ MuxInput(0, 0) = memories_(1) /\ MuxInput(0, 1) = memories_(0)
           /\ MuxInput(0, 2) = memories_(2) /\ MuxInput(0, 3) = memories_(3)
           /\ MuxInput(0, 4) = memories_(13) /\ MuxInput(0, 5) = memories_(12)
           /\ MuxInput(0, 6) = memories_(14) /\ MuxInput(0, 7) = memories_(15)
           /\ MuxInput(1, 0) = memories_(10) /\ MuxInput(1, 1) = memories_(11)
           /\ MuxInput(1, 2) = memories_(9) /\ MuxInput(1, 3) = memories_(8)
           /\ MuxInput(1, 4) = memories_(6) /\ MuxInput(1, 5) = memories_(7)
           /\ MuxInput(1, 6) = memories_(5) /\ MuxInput(1, 7) = memories_(4)
  BY DEF MuxInput, LeftInstance, RightInstance, memories_, reg_output_mux_config

LEMMA ThirdInputs ==
    ASSUME add_third_input_to_output_muxes = TRUE
    PROVE  /\ MuxInput(0, 0) = memories_(0) /\ MuxInput(0, 1) = reg_output_mux_config
           /\ MuxInput(0, 2) = memories_(1) /\ MuxInput(0, 3) = memories_(2)
           /\ MuxInput(0, 4) = memories_(13) /\ MuxInput(0, 5) = memories_(12)
           /\ MuxInput(0, 6) = memories_(14) /\ MuxInput(0, 7) = memories_(15)
           /\ MuxInput(1, 0) = memories_(10) /\ MuxInput(1, 1) = memories_(11)
           /\ MuxInput(1, 2) = memories_(9) /\ MuxInput(1, 3) = memories_(8)
           /\ MuxInput(1, 4) = memories_(5) /\ MuxInput(1, 5) = memories_(6)
           /\ MuxInput(1, 6) = memories_(4) /\ MuxInput(1, 7) = memories_(3)
  BY DEF MuxInput, LeftInstance, RightInstance, memories_, reg_output_mux_config

\* Without a third input to the output muxes, every memory of the table is at one
\* input of one multiplexer, and nothing else is.
THEOREM EveryMemoryIsRead ==
    ASSUME add_third_input_to_output_muxes = FALSE
    PROVE  /\ \A i \in 0..15 : \E m \in 0..1, j \in 0..7 : MuxInput(m, j) = memories_(i)
           /\ \A m \in 0..1, j \in 0..7 : \E i \in 0..15 : MuxInput(m, j) = memories_(i)
           /\ \A m, l \in 0..1, j, k \in 0..7 :
                  MuxInput(m, j) = MuxInput(l, k) => m = l /\ j = k
  <1>1. \A i \in 0..15 : memories_(i) = i + 1
    BY DEF memories_, reg_output_mux_config
  <1>2. \A m \in 0..1, j \in 0..7 :
            \/ m = 0 /\ j = 0 /\ MuxInput(m, j) = 2
            \/ m = 0 /\ j = 1 /\ MuxInput(m, j) = 1
            \/ m = 0 /\ j = 2 /\ MuxInput(m, j) = 3
            \/ m = 0 /\ j = 3 /\ MuxInput(m, j) = 4
            \/ m = 0 /\ j = 4 /\ MuxInput(m, j) = 14
            \/ m = 0 /\ j = 5 /\ MuxInput(m, j) = 13
            \/ m = 0 /\ j = 6 /\ MuxInput(m, j) = 15
            \/ m = 0 /\ j = 7 /\ MuxInput(m, j) = 16
            \/ m = 1 /\ j = 0 /\ MuxInput(m, j) = 11
            \/ m = 1 /\ j = 1 /\ MuxInput(m, j) = 12
            \/ m = 1 /\ j = 2 /\ MuxInput(m, j) = 10
            \/ m = 1 /\ j = 3 /\ MuxInput(m, j) = 9
            \/ m = 1 /\ j = 4 /\ MuxInput(m, j) = 7
            \/ m = 1 /\ j = 5 /\ MuxInput(m, j) = 8
            \/ m = 1 /\ j = 6 /\ MuxInput(m, j) = 6
            \/ m = 1 /\ j = 7 /\ MuxInput(m, j) = 5
    <2>0. /\ MuxInput(0, 0) = 2 /\ MuxInput(0, 1) = 1 /\ MuxInput(0, 2) = 3 /\ MuxInput(0, 3) = 4
          /\ MuxInput(0, 4) = 14 /\ MuxInput(0, 5) = 13 /\ MuxInput(0, 6) = 15 /\ MuxInput(0, 7) = 16
          /\ MuxInput(1, 0) = 11 /\ MuxInput(1, 1) = 12 /\ MuxInput(1, 2) = 10 /\ MuxInput(1, 3) = 9
          /\ MuxInput(1, 4) = 7 /\ MuxInput(1, 5) = 8 /\ MuxInput(1, 6) = 6 /\ MuxInput(1, 7) = 5
      BY DEF MuxInput, LeftInstance, RightInstance, memories_, reg_output_mux_config
    <2> TAKE m \in 0..1, j \in 0..7
    <2>1. \/ m = 0 \/ m = 1
      OBVIOUS
    <2>2. \/ j = 0 \/ j = 1 \/ j = 2 \/ j = 3 \/ j = 4 \/ j = 5 \/ j = 6 \/ j = 7
      OBVIOUS
    <2>3. CASE m = 0
      BY <2>0, <2>2, <2>3
    <2>4. CASE m = 1
      BY <2>0, <2>2, <2>4
    <2> QED
      BY <2>1, <2>3, <2>4
  <1>3. \A i \in 0..15 : \E m \in 0..1, j \in 0..7 : MuxInput(m, j) = memories_(i)
    <2> SUFFICES ASSUME NEW i \in 0..15 PROVE \E m \in 0..1, j \in 0..7 : MuxInput(m, j) = memories_(i)
      OBVIOUS
    <2>1. \/ i = 0 \/ i = 1 \/ i = 2 \/ i = 3 \/ i = 4 \/ i = 5 \/ i = 6 \/ i = 7
          \/ i = 8 \/ i = 9 \/ i = 10 \/ i = 11 \/ i = 12 \/ i = 13 \/ i = 14 \/ i = 15
      OBVIOUS
    <2>2. /\ 0 \in 0..1 /\ 1 \in 0..1 /\ 0 \in 0..7 /\ 1 \in 0..7 /\ 2 \in 0..7 /\ 3 \in 0..7
          /\ 4 \in 0..7 /\ 5 \in 0..7 /\ 6 \in 0..7 /\ 7 \in 0..7
      OBVIOUS
    <2> QED
      BY <2>1, <2>2, NormalInputs, Zenon
  <1>4. \A m \in 0..1, j \in 0..7 : \E i \in 0..15 : MuxInput(m, j) = memories_(i)
    <2> SUFFICES ASSUME NEW m \in 0..1, NEW j \in 0..7
                 PROVE  MuxInput(m, j) - 1 \in 0..15 /\ MuxInput(m, j) - 1 + 1 = MuxInput(m, j)
      BY <1>1
    <2> QED
      BY <1>2
  <1>5. \A m, l \in 0..1, j, k \in 0..7 : MuxInput(m, j) = MuxInput(l, k) => m = l /\ j = k
    <2> SUFFICES ASSUME NEW m \in 0..1, NEW l \in 0..1, NEW j \in 0..7, NEW k \in 0..7,
                        MuxInput(m, j) = MuxInput(l, k)
                 PROVE  m = l /\ j = k
      OBVIOUS
    <2> QED
      BY <1>2
  <1> QED
    BY <1>3, <1>4, <1>5

\* With a third input, the left bank has one more row and is read as if it had not:
\* one address reads the configuration of an output mux and one memory is never read.
THEOREM ThirdInputLosesAMemory ==
    ASSUME add_third_input_to_output_muxes = TRUE
    PROVE  /\ MuxInput(0, 1) = reg_output_mux_config
           /\ \A m \in 0..1, j \in 0..7 : MuxInput(m, j) # memories_(7)
  <1>1. reg_output_mux_config = 1 /\ \A i \in 0..15 : memories_(i) = i + 2
    BY DEF memories_, reg_output_mux_config
  <1> QED
    BY <1>1, ThirdInputs

LEMMA InputsAreStored ==
    ASSUME add_third_input_to_output_muxes \in BOOLEAN
    PROVE  /\ scan_length \in Nat /\ reg_output_mux_config \in 0..(scan_length - 1)
           /\ comb_output_mux_config \in 0..(scan_length - 1)
           /\ \A m \in 0..1, j \in 0..7 : MuxInput(m, j) \in 0..(scan_length - 1)
  <1>1. CASE add_third_input_to_output_muxes = FALSE
    <2>1. /\ scan_length = 18 /\ comb_output_mux_config = 17 /\ reg_output_mux_config = 0
          /\ \A i \in 0..15 : memories_(i) = i + 1
      BY <1>1 DEF memories_, reg_output_mux_config, comb_output_mux_config, scan_length
    <2>2. \A m \in 0..1, j \in 0..7 : \E i \in 0..15 : MuxInput(m, j) = i + 1
      <3> SUFFICES ASSUME NEW m \in 0..1, NEW j \in 0..7 PROVE \E i \in 0..15 : MuxInput(m, j) = i + 1
        OBVIOUS
      <3>1. PICK i \in 0..15 : MuxInput(m, j) = memories_(i)
        BY <1>1, EveryMemoryIsRead
      <3> QED
        BY <2>1, <3>1
    <2> QED
      BY <2>1, <2>2
  <1>2. CASE add_third_input_to_output_muxes = TRUE
    <2>1. /\ scan_length = 20 /\ comb_output_mux_config = 18 /\ reg_output_mux_config = 1
          /\ \A i \in 0..15 : memories_(i) = i + 2
      BY <1>2 DEF memories_, reg_output_mux_config, comb_output_mux_config, scan_length
    <2> QED
      BY <1>2, <2>1, ThirdInputs
  <1> QED
    BY <1>1, <1>2

\* A 2:1 multiplexer with its nets in a record.
LEMMA NamedMuxSettles ==
    ASSUME NEW A0 \in Bit, NEW A1 \in Bit, NEW s \in Bit
    PROVE  /\ \A a \in Bit, mux \in MuxNets :
                  HdMux21(A0, A1, s, a, mux.S_B, mux.X_B, mux.I) => a = IF s = 1 THEN A1 ELSE A0
           /\ \E a \in Bit, mux \in MuxNets : HdMux21(A0, A1, s, a, mux.S_B, mux.X_B, mux.I)
  <1>1. \A mux \in MuxNets : mux.S_B \in Bit /\ mux.X_B \in Bit /\ mux.I \in [0..3 -> Bit]
    BY DEF MuxNets
  <1>2. PICK a, S_B, X_B \in Bit, I \in [0..3 -> Bit] : HdMux21(A0, A1, s, a, S_B, X_B, I)
    BY HdMuxSettles
  <1> DEFINE mux == [S_B |-> S_B, X_B |-> X_B, I |-> I]
  <1>3. mux \in MuxNets /\ mux.S_B = S_B /\ mux.X_B = X_B /\ mux.I = I
    BY DEF MuxNets
  <1> HIDE DEF mux
  <1>4. HdMux21(A0, A1, s, a, mux.S_B, mux.X_B, mux.I)
    BY <1>2, <1>3
  <1> QED
    BY <1>1, <1>3, <1>4, HdMuxSettles

\* The buffers give every select line and its complement.
LEMMA LinesSettle ==
    ASSUME add_s2_input_mux \in BOOLEAN, has_s3_mux \in BOOLEAN, NEW port \in [LutPorts -> Bit]
    PROVE  /\ \A k \in 0..3 : SelectLine(port, k) \in Bit
           /\ \A n \in LutNets : SelectLines(port, n) =>
                  /\ n.s3 = SelectLine(port, 3)
                  /\ \A k \in 0..2 : n.s[k] = SelectLine(port, k) /\ n.s_b[k] = Not(n.s[k])
           /\ \E s2_select_mux, s3_select_mux \in MuxNets : \A n \in LutNets :
                  /\ n.s2_select_mux = s2_select_mux /\ n.s3_select_mux = s3_select_mux
                  /\ n.a2 = SelectLine(port, 2) /\ n.a3 = SelectLine(port, 3)
                  /\ n.x0 = Not(SelectLine(port, 0)) /\ n.x1 = Not(SelectLine(port, 1))
                  /\ n.p3 = Not(SelectLine(port, 3)) /\ n.s3 = SelectLine(port, 3)
                  /\ \A k \in 0..2 : n.s[k] = SelectLine(port, k) /\ n.s_b[k] = Not(SelectLine(port, k))
                  => SelectLines(port, n)
  <1>1. /\ "S0" \in LutPorts /\ "S1" \in LutPorts /\ "S2" \in LutPorts /\ "S2_A" \in LutPorts
        /\ "S2_B" \in LutPorts /\ "S2_S" \in LutPorts /\ "S3" \in LutPorts /\ "S3_A" \in LutPorts
        /\ "S3_B" \in LutPorts /\ "S3_S" \in LutPorts
        /\ port["S2"] \in Bit /\ port["S2_A"] \in Bit /\ port["S2_B"] \in Bit /\ port["S2_S"] \in Bit
        /\ port["S3"] \in Bit /\ port["S3_A"] \in Bit /\ port["S3_B"] \in Bit /\ port["S3_S"] \in Bit
    BY DEF LutPorts
  <1>2. /\ SelectLine(port, 2) = IF add_s2_input_mux THEN (IF port["S2_S"] = 1 THEN port["S2_B"] ELSE port["S2_A"])
                                              ELSE port["S2"]
        /\ SelectLine(port, 3) = IF has_s3_mux THEN (IF port["S3_S"] = 1 THEN port["S3_B"] ELSE port["S3_A"])
                                        ELSE port["S3"]
        /\ SelectLine(port, 0) = port["S0"] /\ SelectLine(port, 1) = port["S1"]
    BY DEF SelectLine
  <1>3. /\ SelectLine(port, 2) \in Bit
        /\ \A a \in Bit, mux \in MuxNets :
               Selected(port, a, mux, add_s2_input_mux, "S2_A", "S2_B", "S2_S", "S2") => a = SelectLine(port, 2)
        /\ \E mux \in MuxNets :
               Selected(port, SelectLine(port, 2), mux, add_s2_input_mux, "S2_A", "S2_B", "S2_S", "S2")
    <2>1. CASE add_s2_input_mux
      <3>1. SelectLine(port, 2) = IF port["S2_S"] = 1 THEN port["S2_B"] ELSE port["S2_A"]
        BY <1>2, <2>1
      <3>2. /\ \A a \in Bit, mux \in MuxNets :
                   HdMux21(port["S2_A"], port["S2_B"], port["S2_S"], a, mux.S_B, mux.X_B, mux.I)
                       => a = SelectLine(port, 2)
            /\ \E a \in Bit, mux \in MuxNets :
                   HdMux21(port["S2_A"], port["S2_B"], port["S2_S"], a, mux.S_B, mux.X_B, mux.I)
        BY <1>1, <3>1, NamedMuxSettles
      <3>3. SelectLine(port, 2) \in Bit
        BY <1>1, <3>1
      <3> QED
        BY <2>1, <3>2, <3>3 DEF Selected
    <2>2. CASE ~add_s2_input_mux
      <3>1. \E mux : mux \in MuxNets
        BY <1>1, NamedMuxSettles
      <3> QED
        BY <1>1, <1>2, <2>2, <3>1 DEF Selected
    <2> QED
      BY <2>1, <2>2
  <1>4. /\ SelectLine(port, 3) \in Bit
        /\ \A a \in Bit, mux \in MuxNets :
               Selected(port, a, mux, has_s3_mux, "S3_A", "S3_B", "S3_S", "S3") => a = SelectLine(port, 3)
        /\ \E mux \in MuxNets :
               Selected(port, SelectLine(port, 3), mux, has_s3_mux, "S3_A", "S3_B", "S3_S", "S3")
    <2>1. CASE has_s3_mux
      <3>1. SelectLine(port, 3) = IF port["S3_S"] = 1 THEN port["S3_B"] ELSE port["S3_A"]
        BY <1>2, <2>1
      <3>2. /\ \A a \in Bit, mux \in MuxNets :
                   HdMux21(port["S3_A"], port["S3_B"], port["S3_S"], a, mux.S_B, mux.X_B, mux.I)
                       => a = SelectLine(port, 3)
            /\ \E a \in Bit, mux \in MuxNets :
                   HdMux21(port["S3_A"], port["S3_B"], port["S3_S"], a, mux.S_B, mux.X_B, mux.I)
        BY <1>1, <3>1, NamedMuxSettles
      <3>3. SelectLine(port, 3) \in Bit
        BY <1>1, <3>1
      <3> QED
        BY <2>1, <3>2, <3>3 DEF Selected
    <2>2. CASE ~has_s3_mux
      <3>1. \E mux : mux \in MuxNets
        BY <1>1, NamedMuxSettles
      <3> QED
        BY <1>1, <1>2, <2>2, <3>1 DEF Selected
    <2> QED
      BY <2>1, <2>2
  <1>5. SelectLine(port, 0) \in Bit /\ SelectLine(port, 1) \in Bit
    BY <1>1, <1>2
  <1>6. \A k \in 0..3 : SelectLine(port, k) \in Bit
    <2> TAKE k \in 0..3
    <2>1. k = 0 \/ k = 1 \/ k = 2 \/ k = 3
      OBVIOUS
    <2> QED
      BY <1>3, <1>4, <1>5, <2>1
  <1>7. \A n \in LutNets :
            /\ n.a2 \in Bit /\ n.a3 \in Bit /\ n.x0 \in Bit /\ n.x1 \in Bit /\ n.p3 \in Bit
            /\ n.s3 \in Bit /\ n.s2_select_mux \in MuxNets /\ n.s3_select_mux \in MuxNets
            /\ n.s[0] \in Bit /\ n.s[1] \in Bit /\ n.s[2] \in Bit
            /\ n.s_b[0] \in Bit /\ n.s_b[1] \in Bit /\ n.s_b[2] \in Bit
    <2> SUFFICES ASSUME NEW n \in LutNets
                 PROVE  /\ n.a2 \in Bit /\ n.a3 \in Bit /\ n.x0 \in Bit /\ n.x1 \in Bit /\ n.p3 \in Bit
                        /\ n.s3 \in Bit /\ n.s2_select_mux \in MuxNets /\ n.s3_select_mux \in MuxNets
                        /\ n.s[0] \in Bit /\ n.s[1] \in Bit /\ n.s[2] \in Bit
                        /\ n.s_b[0] \in Bit /\ n.s_b[1] \in Bit /\ n.s_b[2] \in Bit
      OBVIOUS
    <2>1. n.s \in [0..2 -> Bit] /\ n.s_b \in [0..2 -> Bit]
      BY DEF LutNets
    <2> QED
      BY <2>1 DEF LutNets
  <1>8. ASSUME NEW n \in LutNets
        PROVE  SelectLines(port, n) <=>
                   /\ Selected(port, n.a2, n.s2_select_mux, add_s2_input_mux, "S2_A", "S2_B", "S2_S", "S2")
                   /\ Selected(port, n.a3, n.s3_select_mux, has_s3_mux, "S3_A", "S3_B", "S3_S", "S3")
                   /\ n.s_b[0] = Not(SelectLine(port, 0)) /\ n.x0 = Not(SelectLine(port, 0)) /\ n.s[0] = SelectLine(port, 0)
                   /\ n.s_b[1] = Not(SelectLine(port, 1)) /\ n.x1 = Not(SelectLine(port, 1)) /\ n.s[1] = SelectLine(port, 1)
                   /\ n.s_b[2] = Not(n.a2) /\ n.s[2] = n.a2
                   /\ n.p3 = Not(n.a3) /\ n.s3 = n.a3
    <2>1. /\ SplitBuffer(port["S0"], n.s_b[0], n.x0, n.s[0], TRUE, TRUE) <=>
                 n.s_b[0] = Not(SelectLine(port, 0)) /\ n.x0 = Not(SelectLine(port, 0)) /\ n.s[0] = SelectLine(port, 0)
          /\ SplitBuffer(port["S1"], n.s_b[1], n.x1, n.s[1], TRUE, TRUE) <=>
                 n.s_b[1] = Not(SelectLine(port, 1)) /\ n.x1 = Not(SelectLine(port, 1)) /\ n.s[1] = SelectLine(port, 1)
      <3>1. /\ SelectLine(port, 0) \in Bit /\ n.s_b[0] \in Bit /\ n.x0 \in Bit /\ n.s[0] \in Bit
            /\ SelectLine(port, 1) \in Bit /\ n.s_b[1] \in Bit /\ n.x1 \in Bit /\ n.s[1] \in Bit
        BY <1>5, <1>7
      <3> QED
        BY <1>2, <3>1, Inverts, Complement DEF SplitBuffer
    <2>2. /\ Buf(n.a2, n.s_b[2], n.s[2]) <=> n.s_b[2] = Not(n.a2) /\ n.s[2] = n.a2
          /\ Buf(n.a3, n.p3, n.s3) <=> n.p3 = Not(n.a3) /\ n.s3 = n.a3
      BY <1>7, BuffersRepeat
    <2> QED
      BY <2>1, <2>2 DEF SelectLines
  <1>9. ASSUME NEW n \in LutNets, SelectLines(port, n)
        PROVE  /\ n.s3 = SelectLine(port, 3)
               /\ \A k \in 0..2 : n.s[k] = SelectLine(port, k) /\ n.s_b[k] = Not(n.s[k])
    <2>1. n.a2 = SelectLine(port, 2) /\ n.a3 = SelectLine(port, 3)
      BY <1>3, <1>4, <1>7, <1>8, <1>9
    <2>2. \A k \in 0..2 : k = 0 \/ k = 1 \/ k = 2
      OBVIOUS
    <2> QED
      BY <1>8, <1>9, <2>1, <2>2
  <1>10. PICK m2 \in MuxNets :
            Selected(port, SelectLine(port, 2), m2, add_s2_input_mux, "S2_A", "S2_B", "S2_S", "S2")
    BY <1>3
  <1>11. PICK m3 \in MuxNets :
            Selected(port, SelectLine(port, 3), m3, has_s3_mux, "S3_A", "S3_B", "S3_S", "S3")
    BY <1>4
  <1>12. ASSUME NEW n \in LutNets,
                n.s2_select_mux = m2, n.s3_select_mux = m3,
                n.a2 = SelectLine(port, 2), n.a3 = SelectLine(port, 3),
                n.x0 = Not(SelectLine(port, 0)), n.x1 = Not(SelectLine(port, 1)),
                n.p3 = Not(SelectLine(port, 3)), n.s3 = SelectLine(port, 3),
                \A k \in 0..2 : n.s[k] = SelectLine(port, k) /\ n.s_b[k] = Not(SelectLine(port, k))
         PROVE  SelectLines(port, n)
    <2>1. 0 \in 0..2 /\ 1 \in 0..2 /\ 2 \in 0..2
      OBVIOUS
    <2> QED
      BY <1>8, <1>10, <1>11, <1>12, <2>1
  <1> QED
    BY <1>6, <1>9, <1>10, <1>11, <1>12

\* The table gives the bit that is stored where the select lines address, for every
\* value of them and of the memories, and settles.
THEOREM TableReads ==
    ASSUME add_s2_input_mux \in BOOLEAN, has_s3_mux \in BOOLEAN,
           add_third_input_to_output_muxes \in BOOLEAN,
           NEW port \in [LutPorts -> Bit], NEW stored \in [0..(scan_length - 1) -> Bit]
    PROVE  /\ \A out \in Bit, n \in LutNets :
                  Table(port, stored, out, n) => out = stored[Addressed(port)]
           /\ \E out \in Bit, n \in LutNets : Table(port, stored, out, n)
  <1> DEFINE input(m) == [i \in 0..7 |-> stored[MuxInput(m, i)]]
             address == SelectLine(port, 0) + 2 * SelectLine(port, 1) + 4 * SelectLine(port, 2)
  <1>1. input(0) \in [0..7 -> Bit] /\ input(1) \in [0..7 -> Bit]
    BY InputsAreStored
  <1>2. /\ SelectLine(port, 0) \in Bit /\ SelectLine(port, 1) \in Bit
        /\ SelectLine(port, 2) \in Bit /\ SelectLine(port, 3) \in Bit
    BY LinesSettle
  <1>3. address \in 0..7
    BY <1>2 DEF Bit
  <1>4. /\ input(0)[address] = stored[MuxInput(0, address)] /\ input(1)[address] = stored[MuxInput(1, address)]
        /\ input(0)[address] \in Bit /\ input(1)[address] \in Bit
    BY <1>1, <1>3
  <1>5. stored[Addressed(port)] = IF SelectLine(port, 3) = 1 THEN input(1)[address] ELSE input(0)[address]
    BY <1>2, <1>4 DEF Addressed, Bit
  <1> HIDE DEF input, address
  <1>6. ASSUME NEW out \in Bit, NEW n \in LutNets, Table(port, stored, out, n)
        PROVE  out = stored[Addressed(port)]
    <2>1. /\ n.s3 \in Bit /\ n.s \in [0..2 -> Bit] /\ n.s_b \in [0..2 -> Bit]
          /\ n.z \in [0..1 -> Bit] /\ n.A \in [0..1 -> [0..3 -> Bit]]
          /\ n.inner \in [0..1 -> [Quarters -> [0..1 -> Bit]]]
          /\ n.active_mux2 \in MuxNets
      BY DEF LutNets
    <2>2. /\ SelectLines(port, n)
          /\ \A m \in 0..1 : Mux(input(m), n.s, n.s_b, n.z[m], n.A[m], n.inner[m])
          /\ HdMux21(n.z[0], n.z[1], n.s3, out, n.active_mux2.S_B, n.active_mux2.X_B, n.active_mux2.I)
      BY <1>6 DEF Table, input
    <2>3. /\ n.s3 = SelectLine(port, 3)
          /\ n.s[0] = SelectLine(port, 0) /\ n.s[1] = SelectLine(port, 1) /\ n.s[2] = SelectLine(port, 2)
          /\ n.s_b = [k \in 0..2 |-> Not(n.s[k])]
      BY <2>1, <2>2, LinesSettle
    <2>4. ASSUME NEW m \in 0..1 PROVE n.z[m] = input(m)[address]
      <3>1. /\ n.z[m] \in Bit /\ n.A[m] \in [0..3 -> Bit]
            /\ n.inner[m] \in [Quarters -> [0..1 -> Bit]] /\ input(m) \in [0..7 -> Bit]
        BY <1>1, <2>1
      <3>2. n.z[m] = input(m)[n.s[0] + 2 * n.s[1] + 4 * n.s[2]]
        BY <2>1, <2>2, <2>3, <3>1, MuxSelects
      <3> QED
        BY <2>3, <3>2 DEF address
    <2>5. n.z[0] \in Bit /\ n.z[1] \in Bit /\ n.z[0] = input(0)[address] /\ n.z[1] = input(1)[address]
      BY <2>1, <2>4
    <2>6. out = IF n.s3 = 1 THEN n.z[1] ELSE n.z[0]
      BY <2>1, <2>2, <2>5, NamedMuxSettles
    <2> QED
      BY <1>5, <2>3, <2>5, <2>6
  <1>7. \E out \in Bit, n \in LutNets : Table(port, stored, out, n)
    <2> DEFINE s == [k \in 0..2 |-> SelectLine(port, k)]
               s_b == [k \in 0..2 |-> Not(s[k])]
    <2>1. s \in [0..2 -> Bit] /\ s_b \in [0..2 -> Bit]
      BY LinesSettle, Complement
    <2>2. \A k \in 0..2 : s[k] = SelectLine(port, k) /\ s_b[k] = Not(SelectLine(port, k))
      OBVIOUS
    <2>3. s_b = [k \in 0..2 |-> Not(s[k])]
      OBVIOUS
    <2> HIDE DEF s, s_b
    <2>4. PICK z0 \in Bit, A0 \in [0..3 -> Bit], inner0 \in [Quarters -> [0..1 -> Bit]] :
              Mux(input(0), s, s_b, z0, A0, inner0)
      BY <1>1, <2>1, <2>3, MuxSelects
    <2>5. PICK z1 \in Bit, A1 \in [0..3 -> Bit], inner1 \in [Quarters -> [0..1 -> Bit]] :
              Mux(input(1), s, s_b, z1, A1, inner1)
      BY <1>1, <2>1, <2>3, MuxSelects
    <2>6. PICK out, S_B, X_B \in Bit, I \in [0..3 -> Bit] :
              HdMux21(z0, z1, SelectLine(port, 3), out, S_B, X_B, I)
      BY <1>2, HdMuxSettles
    <2>7. PICK m2, m3 \in MuxNets : \A n \in LutNets :
              /\ n.s2_select_mux = m2 /\ n.s3_select_mux = m3
              /\ n.a2 = SelectLine(port, 2) /\ n.a3 = SelectLine(port, 3)
              /\ n.x0 = Not(SelectLine(port, 0)) /\ n.x1 = Not(SelectLine(port, 1))
              /\ n.p3 = Not(SelectLine(port, 3)) /\ n.s3 = SelectLine(port, 3)
              /\ \A k \in 0..2 : n.s[k] = SelectLine(port, k) /\ n.s_b[k] = Not(SelectLine(port, k))
              => SelectLines(port, n)
      BY LinesSettle
    <2> DEFINE active == [S_B |-> S_B, X_B |-> X_B, I |-> I]
               z == [m \in 0..1 |-> IF m = 0 THEN z0 ELSE z1]
               A == [m \in 0..1 |-> IF m = 0 THEN A0 ELSE A1]
               inner == [m \in 0..1 |-> IF m = 0 THEN inner0 ELSE inner1]
    <2>8. active \in MuxNets /\ active.S_B = S_B /\ active.X_B = X_B /\ active.I = I
      BY DEF MuxNets
    <2>9. /\ z \in [0..1 -> Bit] /\ A \in [0..1 -> [0..3 -> Bit]]
          /\ inner \in [0..1 -> [Quarters -> [0..1 -> Bit]]]
          /\ z[0] = z0 /\ z[1] = z1 /\ A[0] = A0 /\ A[1] = A1 /\ inner[0] = inner0 /\ inner[1] = inner1
      OBVIOUS
    <2> HIDE DEF active, z, A, inner
    <2> DEFINE n == [a2 |-> SelectLine(port, 2), a3 |-> SelectLine(port, 3),
                     s2_select_mux |-> m2, s3_select_mux |-> m3,
                     x0 |-> Not(SelectLine(port, 0)), x1 |-> Not(SelectLine(port, 1)),
                     p3 |-> Not(SelectLine(port, 3)), s3 |-> SelectLine(port, 3), s |-> s, s_b |-> s_b,
                     z |-> z, A |-> A, inner |-> inner, active_mux2 |-> active,
                     comb_output_mux |-> active, reg_output_mux |-> active]
    <2>10. n \in LutNets
      BY <1>2, <2>1, <2>8, <2>9, Complement DEF LutNets
    <2>11. SelectLines(port, n)
      BY <2>2, <2>7, <2>10
    <2>12. \A m \in 0..1 : Mux(input(m), s, s_b, z[m], A[m], inner[m])
      <3> TAKE m \in 0..1
      <3>1. m = 0 \/ m = 1
        OBVIOUS
      <3> QED
        BY <2>4, <2>5, <2>9, <3>1
    <2>13. Table(port, stored, out, n)
      BY <2>6, <2>8, <2>9, <2>11, <2>12 DEF Table, input
    <2> QED
      BY <2>10, <2>13
  <1> QED
    BY <1>6, <1>7

\* Each output is the table or what is at port X, as one memory says; the one that is
\* registered has its own.
THEOREM OutputsChoose ==
    ASSUME add_third_input_to_output_muxes = FALSE,
           NEW port \in [LutPorts -> Bit], NEW stored \in [0..(scan_length - 1) -> Bit],
           NEW out \in Bit, NEW n \in LutNets, NEW MUX \in Bit, NEW reg_flop_in \in Bit,
           Outputs(port, stored, out, MUX, reg_flop_in, n)
    PROVE  /\ MUX = IF stored[comb_output_mux_config] = 1 THEN port["X"] ELSE out
           /\ reg_flop_in = IF stored[reg_output_mux_config] = 1 THEN port["X"] ELSE out
  <1>1. /\ stored[comb_output_mux_config] \in Bit /\ stored[reg_output_mux_config] \in Bit
        /\ port["X"] \in Bit
    BY InputsAreStored DEF LutPorts
  <1>2. n.comb_output_mux \in MuxNets /\ n.reg_output_mux \in MuxNets
    BY DEF LutNets
  <1>3. /\ HdMux21(out, port["X"], stored[comb_output_mux_config], MUX,
                   n.comb_output_mux.S_B, n.comb_output_mux.X_B, n.comb_output_mux.I)
        /\ HdMux21(out, port["X"], stored[reg_output_mux_config], reg_flop_in,
                   n.reg_output_mux.S_B, n.reg_output_mux.X_B, n.reg_output_mux.I)
    BY DEF Outputs
  <1> QED
    BY <1>1, <1>2, <1>3, NamedMuxSettles

\* With every memory reached, the table gives the bit of the word that was sent which
\* the select lines address, and the outputs choose by its first or its last bits.
TableIsTheWord ==
    \A port \in [LutPorts -> Bit], out, MUX, reg_flop_in \in Bit, n \in LutNets :
        LET stored == [k \in Memories |-> memories[k].Q]
            word(k) == sent[Len(sent) - k]
        IN /\ Len(sent) >= scan_length
           /\ Table(port, stored, out, n)
           /\ Outputs(port, stored, out, MUX, reg_flop_in, n)
           => /\ out = word(Addressed(port))
              /\ MUX = IF word(comb_output_mux_config) = 1 THEN port["X"] ELSE out
              /\ reg_flop_in = IF word(reg_output_mux_config) = 1 THEN port["X"] ELSE out

THEOREM WordProgramsTheTable ==
    ASSUME input_clock_buffer \in BOOLEAN, add_s2_input_mux \in BOOLEAN,
           add_third_input_to_output_muxes = FALSE, NumMemories = scan_length
    PROVE  Spec => []TableIsTheWord
  <1>1. has_s3_mux \in BOOLEAN
    BY DEF has_s3_mux
  <1>2. NumMemories \in Nat /\ scan_length \in Nat
    BY InputsAreStored
  <1>3. ASSUME Sound, HoldsTheWord PROVE TableIsTheWord
    <2> DEFINE stored == [k \in Memories |-> memories[k].Q]
               word(k) == sent[Len(sent) - k]
    <2>1. Memories = 0..(scan_length - 1)
      BY DEF Memories
    <2>2. stored \in [0..(scan_length - 1) -> Bit]
      <3>1. \A k \in Memories : memories[k].Q \in Bit
        BY <1>3 DEF Sound, DfxtpNets
      <3> QED
        BY <2>1, <3>1
    <2> SUFFICES ASSUME NEW port \in [LutPorts -> Bit], NEW out \in Bit, NEW MUX \in Bit,
                        NEW reg_flop_in \in Bit, NEW n \in LutNets,
                        Len(sent) >= scan_length, Table(port, stored, out, n),
                        Outputs(port, stored, out, MUX, reg_flop_in, n)
                 PROVE  /\ out = word(Addressed(port))
                        /\ MUX = IF word(comb_output_mux_config) = 1 THEN port["X"] ELSE out
                        /\ reg_flop_in = IF word(reg_output_mux_config) = 1 THEN port["X"] ELSE out
      BY DEF TableIsTheWord
    <2>3. Len(sent) \in Nat /\ scan_length \in Nat
      BY <1>2, <1>3 DEF Sound
    <2>4. ASSUME NEW k \in 0..(scan_length - 1) PROVE stored[k] = word(k)
      BY <1>3, <2>1, <2>3 DEF HoldsTheWord
    <2>5. Addressed(port) \in 0..(scan_length - 1)
      <3>1. SelectLine(port, 0) \in Bit /\ SelectLine(port, 1) \in Bit /\ SelectLine(port, 2) \in Bit /\ SelectLine(port, 3) \in Bit
        BY <1>1, LinesSettle
      <3>2. SelectLine(port, 0) + 2 * SelectLine(port, 1) + 4 * SelectLine(port, 2) \in 0..7 /\ SelectLine(port, 3) \in 0..1
        BY <3>1 DEF Bit
      <3> QED
        BY <3>2, InputsAreStored DEF Addressed
    <2>6. stored[Addressed(port)] = word(Addressed(port))
      BY <2>4, <2>5
    <2>7. /\ stored[comb_output_mux_config] = word(comb_output_mux_config)
          /\ stored[reg_output_mux_config] = word(reg_output_mux_config)
      BY <2>4, InputsAreStored
    <2> HIDE DEF stored, word
    <2>8. out = stored[Addressed(port)]
      BY <1>1, <2>2, TableReads
    <2>9. /\ MUX = IF stored[comb_output_mux_config] = 1 THEN port["X"] ELSE out
          /\ reg_flop_in = IF stored[reg_output_mux_config] = 1 THEN port["X"] ELSE out
      BY <2>2, OutputsChoose
    <2> QED
      BY <2>6, <2>7, <2>8, <2>9
  <1> QED
    BY <1>2, <1>3, ChainIsSound, ChainHoldsTheWord, PTL

-----------------------------------------------------------------------------
(* Boxes: what they contain and how far they are apart; rounded ones.       *)

Points == [x : Int, y : Int]
Boxes == {r \in [lower_left : Points, upper_right : Points] :
              r.lower_left.x <= r.upper_right.x /\ r.lower_left.y <= r.upper_right.y}

LEMMA LeastIs == ASSUME NEW S \in SUBSET Int, NEW m \in S, \A y \in S : m <= y PROVE Min(S) = m
  <1>1. Min(S) \in S /\ \A y \in S : Min(S) <= y
    BY ZenonT(20) DEF Min
  <1>2. Min(S) <= m /\ m <= Min(S) /\ Min(S) \in Int /\ m \in Int
    BY <1>1
  <1> QED  BY <1>2

LEMMA GreatestIs == ASSUME NEW S \in SUBSET Int, NEW m \in S, \A y \in S : m >= y PROVE Max(S) = m
  <1>1. Max(S) \in S /\ \A y \in S : Max(S) >= y
    BY ZenonT(20) DEF Max
  <1>2. Max(S) >= m /\ m >= Max(S) /\ Max(S) \in Int /\ m \in Int
    BY <1>1
  <1> QED  BY <1>2

LEMMA OfTwo == ASSUME NEW a \in Int, NEW b \in Int
               PROVE  /\ Min({a, b}) = IF a <= b THEN a ELSE b
                      /\ Max({a, b}) = IF a >= b THEN a ELSE b
  <1>1. CASE a <= b
    <2>1. Min({a, b}) = a /\ Max({a, b}) = b
      BY <1>1, LeastIs, GreatestIs
    <2> QED  BY <1>1, <2>1
  <1>2. CASE b < a
    <2>1. Min({a, b}) = b /\ Max({a, b}) = a
      BY <1>2, LeastIs, GreatestIs
    <2> QED  BY <1>2, <2>1
  <1> QED  BY <1>1, <1>2

LEMMA BoundsAre ==
    ASSUME NEW S \in SUBSET Points, NEW a \in Int, NEW b \in Int, NEW c \in Int, NEW d \in Int,
           \A p \in S : a <= p.x /\ p.x <= c /\ b <= p.y /\ p.y <= d,
           \E p \in S : p.x = a, \E p \in S : p.y = b, \E p \in S : p.x = c, \E p \in S : p.y = d
    PROVE  BoundsOf(S) = Rectangle(Point(a, b), Point(c, d))
  <1> DEFINE X == {p.x : p \in S}
             Y == {p.y : p \in S}
  <1>1. X \in SUBSET Int /\ Y \in SUBSET Int
    BY DEF Points
  <1>2. a \in X /\ c \in X /\ b \in Y /\ d \in Y
    OBVIOUS
  <1>3. Min(X) = a
    <2>1. \A y \in X : a <= y
      OBVIOUS
    <2> HIDE DEF X
    <2> QED  BY <1>1, <1>2, <2>1, LeastIs
  <1>4. Max(X) = c
    <2>1. \A y \in X : c >= y
      BY <1>1
    <2> HIDE DEF X
    <2> QED  BY <1>1, <1>2, <2>1, GreatestIs
  <1>5. Min(Y) = b
    <2>1. \A y \in Y : b <= y
      OBVIOUS
    <2> HIDE DEF Y
    <2> QED  BY <1>1, <1>2, <2>1, LeastIs
  <1>6. Max(Y) = d
    <2>1. \A y \in Y : d >= y
      BY <1>1
    <2> HIDE DEF Y
    <2> QED  BY <1>1, <1>2, <2>1, GreatestIs
  <1> QED  BY <1>3, <1>4, <1>5, <1>6 DEF BoundsOf

LEMMA RotatedBox ==
    ASSUME NEW r \in Boxes, NEW turns \in Int
    PROVE  RotateRectangle(r, turns) =
               CASE turns % 4 = 0 -> r
                 [] turns % 4 = 1 -> Rectangle(Point(-r.upper_right.y, r.lower_left.x),
                                               Point(-r.lower_left.y, r.upper_right.x))
                 [] turns % 4 = 2 -> Rectangle(Point(-r.upper_right.x, -r.upper_right.y),
                                               Point(-r.lower_left.x, -r.lower_left.y))
                 [] turns % 4 = 3 -> Rectangle(Point(r.lower_left.y, -r.upper_right.x),
                                               Point(r.upper_right.y, -r.lower_left.x))
  <1> DEFINE a == r.lower_left.x
             b == r.lower_left.y
             c == r.upper_right.x
             d == r.upper_right.y
             S == {RotatePoint(Minus(p, Origin), turns) : p \in Corners(r)}
  <1>1. a \in Int /\ b \in Int /\ c \in Int /\ d \in Int /\ a <= c /\ b <= d
        /\ r = Rectangle(Point(a, b), Point(c, d))
    BY DEF Boxes, Points, Rectangle, Point
  <1>2. S = {RotatePoint(Point(a, b), turns), RotatePoint(Point(a, d), turns),
             RotatePoint(Point(c, d), turns), RotatePoint(Point(c, b), turns)}
    <2>1. Corners(r) = {Point(a, b), Point(a, d), Point(c, d), Point(c, b)}
      BY <1>1 DEF Corners, UpperLeft, LowerRight, Rectangle, Point
    <2>2. \A x, y \in Int : Minus(Point(x, y), Origin) = Point(x, y)
      BY DEF Minus, Origin, Point
    <2>3. S = {RotatePoint(Minus(p, Origin), turns) : p \in {Point(a, b), Point(a, d), Point(c, d), Point(c, b)}}
      BY <2>1
    <2>4. @ = {RotatePoint(Minus(Point(a, b), Origin), turns), RotatePoint(Minus(Point(a, d), Origin), turns),
               RotatePoint(Minus(Point(c, d), Origin), turns), RotatePoint(Minus(Point(c, b), Origin), turns)}
      OBVIOUS
    <2> QED  BY <1>1, <2>2, <2>3, <2>4
  <1>3. RotateRectangle(r, turns) = TranslateRectangle(BoundsOf(S), Origin)
    BY DEF RotateRectangle, BoundingBoxIfRotated
  <1>4. \A w, x, y, z \in Int : TranslateRectangle(Rectangle(Point(w, x), Point(y, z)), Origin)
                                    = Rectangle(Point(w, x), Point(y, z))
    BY DEF TranslateRectangle, Rectangle, Point, Plus, Origin
  <1> HIDE DEF a, b, c, d, S
  <1>5. CASE turns % 4 = 0
    <2>1. S = {Point(a, b), Point(a, d), Point(c, d), Point(c, b)}
      BY <1>2, <1>5 DEF RotatePoint
    <2>2. BoundsOf(S) = Rectangle(Point(a, b), Point(c, d))
      BY <1>1, <2>1, BoundsAre DEF Points, Point
    <2>3. RotateRectangle(r, turns) = r
      BY <1>1, <1>3, <1>4, <2>2
    <2> QED  BY <1>5, <2>3
  <1>6. CASE turns % 4 = 1
    <2>1. S = {Point(-b, a), Point(-d, a), Point(-d, c), Point(-b, c)}
      BY <1>2, <1>6 DEF RotatePoint, Point
    <2>2. BoundsOf(S) = Rectangle(Point(-d, a), Point(-b, c))
      BY <1>1, <2>1, BoundsAre DEF Points, Point
    <2>3. RotateRectangle(r, turns) = Rectangle(Point(-d, a), Point(-b, c))
      BY <1>1, <1>3, <1>4, <2>2
    <2> QED  BY <1>6, <2>3 DEF a, b, c, d
  <1>7. CASE turns % 4 = 2
    <2>1. S = {Point(-a, -b), Point(-a, -d), Point(-c, -d), Point(-c, -b)}
      BY <1>2, <1>7 DEF RotatePoint, Point
    <2>2. BoundsOf(S) = Rectangle(Point(-c, -d), Point(-a, -b))
      BY <1>1, <2>1, BoundsAre DEF Points, Point
    <2>3. RotateRectangle(r, turns) = Rectangle(Point(-c, -d), Point(-a, -b))
      BY <1>1, <1>3, <1>4, <2>2
    <2> QED  BY <1>7, <2>3 DEF a, b, c, d
  <1>8. CASE turns % 4 = 3
    <2>1. S = {Point(b, -a), Point(d, -a), Point(d, -c), Point(b, -c)}
      BY <1>2, <1>8 DEF RotatePoint, Point
    <2>2. BoundsOf(S) = Rectangle(Point(b, -c), Point(d, -a))
      BY <1>1, <2>1, BoundsAre DEF Points, Point
    <2>3. RotateRectangle(r, turns) = Rectangle(Point(b, -c), Point(d, -a))
      BY <1>1, <1>3, <1>4, <2>2
    <2> QED  BY <1>8, <2>3 DEF a, b, c, d
  <1> QED
    <2>1. turns % 4 \in 0..3
      OBVIOUS
    <2> QED  BY <1>5, <1>6, <1>7, <1>8, <2>1

\* What is done to a rectangle is done to every point of it, and to no other.
THEOREM BoxesCarryTheirPoints ==
    ASSUME NEW r \in Boxes, NEW p \in Points, NEW offset \in Points, NEW turns \in Int
    PROVE  /\ RectangleIntersects(RotateRectangle(r, turns), RotatePoint(p, turns)) <=> RectangleIntersects(r, p)
           /\ RectangleIntersects(MirrorRectangleY(r), MirrorPointY(p)) <=> RectangleIntersects(r, p)
           /\ RectangleIntersects(MirrorRectangleX(r), MirrorPointX(p)) <=> RectangleIntersects(r, p)
           /\ RectangleIntersects(TranslateRectangle(r, offset), Plus(p, offset)) <=> RectangleIntersects(r, p)
           /\ RotateRectangle(r, turns) \in Boxes
  <1>1. r.lower_left.x \in Int /\ r.lower_left.y \in Int /\ r.upper_right.x \in Int /\ r.upper_right.y \in Int
        /\ p.x \in Int /\ p.y \in Int /\ offset.x \in Int /\ offset.y \in Int
        /\ r.lower_left.x <= r.upper_right.x /\ r.lower_left.y <= r.upper_right.y
    BY DEF Boxes, Points
  <1>2. /\ RectangleIntersects(MirrorRectangleY(r), MirrorPointY(p)) <=> RectangleIntersects(r, p)
        /\ RectangleIntersects(MirrorRectangleX(r), MirrorPointX(p)) <=> RectangleIntersects(r, p)
        /\ RectangleIntersects(TranslateRectangle(r, offset), Plus(p, offset)) <=> RectangleIntersects(r, p)
    BY <1>1 DEF RectangleIntersects, MirrorRectangleX, MirrorRectangleY, MirrorPointX, MirrorPointY,
                TranslateRectangle, Rectangle, Point, Plus
  <1>3. /\ RectangleIntersects(RotateRectangle(r, turns), RotatePoint(p, turns)) <=> RectangleIntersects(r, p)
        /\ RotateRectangle(r, turns) \in Boxes
    <2>0. turns % 4 \in 0..3
      OBVIOUS
    <2>1. CASE turns % 4 = 0
      BY <2>1, <1>1, RotatedBox DEF RectangleIntersects, RotatePoint
    <2>2. CASE turns % 4 = 1
      BY <2>2, <1>1, RotatedBox DEF RectangleIntersects, RotatePoint, Rectangle, Point, Boxes, Points
    <2>3. CASE turns % 4 = 2
      BY <2>3, <1>1, RotatedBox DEF RectangleIntersects, RotatePoint, Rectangle, Point, Boxes, Points
    <2>4. CASE turns % 4 = 3
      BY <2>4, <1>1, RotatedBox DEF RectangleIntersects, RotatePoint, Rectangle, Point, Boxes, Points
    <2> QED  BY <2>0, <2>1, <2>2, <2>3, <2>4
  <1> QED  BY <1>2, <1>3

-----------------------------------------------------------------------------
\* How far two intervals are apart.
Gap(low, high, other_low, other_high) ==
    IF other_low > high THEN other_low - high ELSE IF low > other_high THEN low - other_high ELSE 0
GapX(r, other) == Gap(r.lower_left.x, r.upper_right.x, other.lower_left.x, other.upper_right.x)
GapY(r, other) == Gap(r.lower_left.y, r.upper_right.y, other.lower_left.y, other.upper_right.y)

LEMMA CoordinatesOf ==
    ASSUME NEW r \in Boxes
    PROVE  /\ r.lower_left.x \in Int /\ r.lower_left.y \in Int
           /\ r.upper_right.x \in Int /\ r.upper_right.y \in Int
           /\ r.lower_left.x <= r.upper_right.x /\ r.lower_left.y <= r.upper_right.y
           /\ r = Rectangle(r.lower_left, r.upper_right)
           /\ r.lower_left = Point(r.lower_left.x, r.lower_left.y)
           /\ r.upper_right = Point(r.upper_right.x, r.upper_right.y)
  BY DEF Boxes, Points, Rectangle, Point

LEMMA Squares ==
    ASSUME NEW a \in Int, NEW b \in Int
    PROVE  /\ Square(a) \in Nat
           /\ Square(a) = 0 <=> a = 0
           /\ Square(-a) = Square(a)
           /\ 0 <= a /\ (a <= b \/ a <= -b) => Square(a) <= Square(b)
           /\ 0 <= a /\ (a < b \/ a < -b) => Square(a) < Square(b)
  <1>1. Square(a) \in Int
    BY DEF Square
  <1>2. Square(a) >= 0
    <2>1. CASE a >= 0
      BY <2>1 DEF Square
    <2>2. CASE a < 0
      BY <2>2 DEF Square
    <2> QED  BY <2>1, <2>2
  <1>3. Square(a) = 0 <=> a = 0
    BY DEF Square
  <1>4. Square(-a) = Square(a) /\ Square(-b) = Square(b)
    BY DEF Square
  <1>5. ASSUME NEW x \in Int, NEW y \in Int, 0 <= x
        PROVE  (x <= y => Square(x) <= Square(y)) /\ (x < y => Square(x) < Square(y))
    <2>1. ASSUME x <= y PROVE x * x <= y * y
      <3>1. y * y - x * x = (y - x) * (y + x)
        OBVIOUS
      <3>2. y - x >= 0 /\ y + x >= 0
        BY <1>5, <2>1
      <3>3. \A m, n \in Int : m >= 0 /\ n >= 0 => m * n >= 0
        OBVIOUS
      <3>4. (y - x) * (y + x) >= 0
        BY <3>2, <3>3
      <3>5. x * x \in Int /\ y * y \in Int
        OBVIOUS
      <3> QED  BY <3>1, <3>4, <3>5
    <2>2. ASSUME x < y PROVE x * x < y * y
      <3>1. y * y - x * x = (y - x) * (y + x)
        OBVIOUS
      <3>2. y - x > 0 /\ y + x > 0
        BY <1>5, <2>2
      <3>3. \A m, n \in Int : m > 0 /\ n > 0 => m * n > 0
        OBVIOUS
      <3>4. (y - x) * (y + x) > 0
        BY <3>2, <3>3
      <3>5. x * x \in Int /\ y * y \in Int
        OBVIOUS
      <3> QED  BY <3>1, <3>4, <3>5
    <2> QED  BY <2>1, <2>2 DEF Square
  <1>6. -b \in Int
    OBVIOUS
  <1> QED  BY <1>1, <1>2, <1>3, <1>4, <1>5, <1>6

LEMMA DistanceByGaps ==
    ASSUME NEW r \in Boxes, NEW other \in Boxes
    PROVE  ClosestDistanceSquared(r, other) = Square(GapX(r, other)) + Square(GapY(r, other))
  <1> DEFINE a == r.lower_left.x
             b == r.lower_left.y
             c == r.upper_right.x
             d == r.upper_right.y
             e == other.lower_left.x
             f == other.lower_left.y
             g == other.upper_right.x
             h == other.upper_right.y
  <1>1. a \in Int /\ b \in Int /\ c \in Int /\ d \in Int /\ a <= c /\ b <= d
        /\ e \in Int /\ f \in Int /\ g \in Int /\ h \in Int /\ e <= g /\ f <= h
    BY CoordinatesOf
  <1>2. \A x \in Int : Square(x) \in Int /\ Square(-x) = Square(x) /\ Square(0) = 0
    BY Squares
  <1>3. RectanglesOverlap(r, other) <=> g >= a /\ h >= b /\ c >= e /\ d >= f
    BY DEF RectanglesOverlap
  <1>4. /\ L2Squared(r.upper_right, other.lower_left) = Square(c - e) + Square(d - f)
        /\ L2Squared(LowerRight(r), UpperLeft(other)) = Square(c - e) + Square(b - h)
        /\ L2Squared(r.lower_left, other.upper_right) = Square(a - g) + Square(b - h)
        /\ L2Squared(UpperLeft(r), LowerRight(other)) = Square(a - g) + Square(d - f)
    BY DEF L2Squared, LowerRight, UpperLeft, Point
  <1>5. GapX(r, other) = Gap(a, c, e, g) /\ GapY(r, other) = Gap(b, d, f, h)
    BY DEF GapX, GapY
  <1>6. ClosestDistanceSquared(r, other) =
            CASE RectanglesOverlap(r, other) -> 0
              [] d < f /\ c < e -> L2Squared(r.upper_right, other.lower_left)
              [] b > h /\ c < e -> L2Squared(LowerRight(r), UpperLeft(other))
              [] b > h /\ a > g -> L2Squared(r.lower_left, other.upper_right)
              [] d < f /\ a > g -> L2Squared(UpperLeft(r), LowerRight(other))
              [] c < e /\ ~(d < f) /\ ~(b > h) -> Square(c - e)
              [] b > h /\ ~(a > g) /\ ~(c < e) -> Square(b - h)
              [] a > g /\ ~(d < f) /\ ~(b > h) -> Square(a - g)
              [] d < f /\ ~(a > g) /\ ~(c < e) -> Square(d - f)
    BY DEF ClosestDistanceSquared
  <1>7. /\ Square(c - e) = Square(e - c) /\ Square(d - f) = Square(f - d)
        /\ Square(c - e) \in Int /\ Square(d - f) \in Int /\ Square(a - g) \in Int /\ Square(b - h) \in Int
    <2>1. c - e = -(e - c) /\ d - f = -(f - d) /\ e - c \in Int /\ f - d \in Int
          /\ a - g \in Int /\ b - h \in Int /\ c - e \in Int /\ d - f \in Int
      BY <1>1
    <2> QED  BY <1>2, <2>1
  <1> HIDE DEF a, b, c, d, e, f, g, h
  <1> QED
    BY <1>1, <1>2, <1>3, <1>4, <1>5, <1>6, <1>7 DEF Gap

\* The distance of two rectangles is that of the closest of their points, from either side;
\* it is zero when they overlap and then only.
THEOREM DistanceIsOfTheClosest ==
    ASSUME NEW r \in Boxes, NEW other \in Boxes
    PROVE  LET D == ClosestDistanceSquared(r, other)
           IN  /\ \A p, q \in Points : RectangleIntersects(r, p) /\ RectangleIntersects(other, q)
                                           => D <= L2Squared(p, q)
               /\ \E p, q \in Points : RectangleIntersects(r, p) /\ RectangleIntersects(other, q)
                                           /\ D = L2Squared(p, q)
               /\ D = ClosestDistanceSquared(other, r)
               /\ D = 0 <=> RectanglesOverlap(r, other)
  <1> DEFINE a == r.lower_left.x
             b == r.lower_left.y
             c == r.upper_right.x
             d == r.upper_right.y
             e == other.lower_left.x
             f == other.lower_left.y
             g == other.upper_right.x
             h == other.upper_right.y
             X == GapX(r, other)
             Y == GapY(r, other)
  <1>1. a \in Int /\ b \in Int /\ c \in Int /\ d \in Int /\ a <= c /\ b <= d
        /\ e \in Int /\ f \in Int /\ g \in Int /\ h \in Int /\ e <= g /\ f <= h
    BY CoordinatesOf
  <1>2. ClosestDistanceSquared(r, other) = Square(X) + Square(Y)
    BY DistanceByGaps
  <1>3. X = Gap(a, c, e, g) /\ Y = Gap(b, d, f, h)
    BY DEF GapX, GapY
  <1>4. X \in Nat /\ Y \in Nat
    BY <1>1, <1>3 DEF Gap
  <1>5. ASSUME NEW p \in Points, NEW q \in Points,
               RectangleIntersects(r, p), RectangleIntersects(other, q)
        PROVE  ClosestDistanceSquared(r, other) <= L2Squared(p, q)
    <2>1. p.x \in Int /\ p.y \in Int /\ q.x \in Int /\ q.y \in Int
      BY DEF Points
    <2>2. a <= p.x /\ p.x <= c /\ b <= p.y /\ p.y <= d /\ e <= q.x /\ q.x <= g /\ f <= q.y /\ q.y <= h
      BY <1>5 DEF RectangleIntersects
    <2>3. /\ X <= p.x - q.x \/ X <= -(p.x - q.x)
          /\ Y <= p.y - q.y \/ Y <= -(p.y - q.y)
      BY <1>1, <1>3, <2>1, <2>2 DEF Gap
    <2>4. p.x - q.x \in Int /\ p.y - q.y \in Int
      BY <2>1
    <2>5. Square(X) <= Square(p.x - q.x) /\ Square(Y) <= Square(p.y - q.y)
      BY <1>4, <2>3, <2>4, Squares
    <2>6. Square(X) \in Int /\ Square(Y) \in Int /\ Square(p.x - q.x) \in Int /\ Square(p.y - q.y) \in Int
      BY <1>4, <2>4, Squares
    <2> QED  BY <1>2, <2>5, <2>6 DEF L2Squared
  <1>6. \E p, q \in Points : /\ RectangleIntersects(r, p) /\ RectangleIntersects(other, q)
                             /\ ClosestDistanceSquared(r, other) = L2Squared(p, q)
    <2> DEFINE px == IF a > g THEN a ELSE IF e > c THEN c ELSE IF a >= e THEN a ELSE e
               qx == IF a > g THEN g ELSE IF e > c THEN e ELSE IF a >= e THEN a ELSE e
               py == IF b > h THEN b ELSE IF f > d THEN d ELSE IF b >= f THEN b ELSE f
               qy == IF b > h THEN h ELSE IF f > d THEN f ELSE IF b >= f THEN b ELSE f
               p == Point(px, py)
               q == Point(qx, qy)
    <2>1. /\ px \in Int /\ a <= px /\ px <= c /\ qx \in Int /\ e <= qx /\ qx <= g
          /\ py \in Int /\ b <= py /\ py <= d /\ qy \in Int /\ f <= qy /\ qy <= h
      BY <1>1
    <2>2. (px - qx = X \/ px - qx = -X) /\ (py - qy = Y \/ py - qy = -Y)
      BY <1>1, <1>3 DEF Gap
    <2>3. Square(px - qx) = Square(X) /\ Square(py - qy) = Square(Y)
      BY <1>4, <2>2, Squares
    <2> HIDE DEF px, qx, py, qy
    <2>4. p \in Points /\ q \in Points /\ p.x = px /\ p.y = py /\ q.x = qx /\ q.y = qy
      BY <2>1 DEF Points, Point
    <2>5. RectangleIntersects(r, p) /\ RectangleIntersects(other, q)
      BY <2>1, <2>4 DEF RectangleIntersects
    <2>6. ClosestDistanceSquared(r, other) = L2Squared(p, q)
      BY <1>2, <2>3, <2>4 DEF L2Squared
    <2> QED  BY <2>4, <2>5, <2>6
  <1>7. ClosestDistanceSquared(r, other) = ClosestDistanceSquared(other, r)
    <2>1. X = GapX(other, r) /\ Y = GapY(other, r)
      BY <1>1 DEF GapX, GapY, Gap
    <2> QED  BY <1>2, <2>1, DistanceByGaps
  <1>8. ClosestDistanceSquared(r, other) = 0 <=> RectanglesOverlap(r, other)
    <2>1. Square(X) \in Nat /\ Square(Y) \in Nat /\ (Square(X) = 0 <=> X = 0) /\ (Square(Y) = 0 <=> Y = 0)
      BY <1>4, Squares
    <2>2. X = 0 /\ Y = 0 <=> g >= a /\ h >= b /\ c >= e /\ d >= f
      BY <1>1, <1>3 DEF Gap
    <2>3. RectanglesOverlap(r, other) <=> X = 0 /\ Y = 0
      BY <2>2 DEF RectanglesOverlap
    <2> QED  BY <1>2, <2>1, <2>3
  <1> QED  BY <1>5, <1>6, <1>7, <1>8

LEMMA PaddedBox ==
    ASSUME NEW r \in Boxes, NEW n \in Nat
    PROVE  WithPadding(r, n) = Rectangle(Point(r.lower_left.x - n, r.lower_left.y - n),
                                         Point(r.upper_right.x + n, r.upper_right.y + n))
  <1> DEFINE a == r.lower_left.x - n
             b == r.lower_left.y - n
             c == r.upper_right.x + n
             d == r.upper_right.y + n
             S == {Point(a, b), Point(c, d)}
  <1>1. a \in Int /\ b \in Int /\ c \in Int /\ d \in Int /\ a <= c /\ b <= d
    BY CoordinatesOf
  <1>2. WithPadding(r, n) = BoundsOf(S)
    BY DEF WithPadding, WithPaddings, OrderBoundingPoints, Minus, Plus, Point
  <1> HIDE DEF a, b, c, d
  <1>3. S \in SUBSET Points
    BY <1>1 DEF Points, Point
  <1>4. /\ \A p \in S : a <= p.x /\ p.x <= c /\ b <= p.y /\ p.y <= d
        /\ \E p \in S : p.x = a
        /\ \E p \in S : p.y = b
        /\ \E p \in S : p.x = c
        /\ \E p \in S : p.y = d
    BY <1>1 DEF Point
  <1>5. BoundsOf(S) = Rectangle(Point(a, b), Point(c, d))
    <2> HIDE DEF S
    <2> QED  BY <1>1, <1>3, <1>4, BoundsAre
  <1> QED  BY <1>2, <1>5 DEF a, b, c, d

\* What does not touch the keep-out of a rectangle is at least the separation away from it,
\* corners included; and the keep-out is no larger than that along the axes.
THEOREM KeepoutsKeepApart ==
    ASSUME NEW r \in Boxes, NEW other \in Boxes, NEW s \in Nat \ {0}
    PROVE  /\ ~RectanglesOverlap(WithKeepout(r, s), other) => Square(s) <= ClosestDistanceSquared(r, other)
           /\ RectanglesOverlap(WithKeepout(r, s), other) => GapX(r, other) < s /\ GapY(r, other) < s
  <1> DEFINE a == r.lower_left.x
             b == r.lower_left.y
             c == r.upper_right.x
             d == r.upper_right.y
             e == other.lower_left.x
             f == other.lower_left.y
             g == other.upper_right.x
             h == other.upper_right.y
             X == GapX(r, other)
             Y == GapY(r, other)
  <1>1. a \in Int /\ b \in Int /\ c \in Int /\ d \in Int /\ a <= c /\ b <= d
        /\ e \in Int /\ f \in Int /\ g \in Int /\ h \in Int /\ e <= g /\ f <= h
    BY CoordinatesOf
  <1>2. ClosestDistanceSquared(r, other) = Square(X) + Square(Y)
    BY DistanceByGaps
  <1>3. X = Gap(a, c, e, g) /\ Y = Gap(b, d, f, h)
    BY DEF GapX, GapY
  <1>4. WithKeepout(r, s) = Rectangle(Point(a - (s - 1), b - (s - 1)), Point(c + (s - 1), d + (s - 1)))
    <2>1. s - 1 \in Nat
      OBVIOUS
    <2> QED  BY <2>1, PaddedBox DEF WithKeepout
  <1>5. RectanglesOverlap(WithKeepout(r, s), other)
            <=> g >= a - (s - 1) /\ h >= b - (s - 1) /\ c + (s - 1) >= e /\ d + (s - 1) >= f
    BY <1>4 DEF RectanglesOverlap, Rectangle, Point
  <1> HIDE DEF a, b, c, d, e, f, g, h, X, Y
  <1>6. RectanglesOverlap(WithKeepout(r, s), other) <=> X < s /\ Y < s
    BY <1>1, <1>3, <1>5 DEF Gap
  <1>7. X \in Nat /\ Y \in Nat
    BY <1>1, <1>3 DEF Gap
  <1>8. /\ Square(X) \in Nat /\ Square(Y) \in Nat /\ Square(s) \in Nat
        /\ s <= X => Square(s) <= Square(X)
        /\ s <= Y => Square(s) <= Square(Y)
    BY <1>7, Squares
  <1> QED
    <2>1. ASSUME ~(X < s /\ Y < s) PROVE Square(s) <= Square(X) + Square(Y)
      BY <1>7, <1>8, <2>1
    <2> QED  BY <1>2, <1>6, <2>1 DEF X, Y

LEMMA ExpandedBounds ==
    ASSUME NEW r \in Boxes, NEW other \in Boxes
    PROVE  LET Least(x, y) == IF x <= y THEN x ELSE y
               Greatest(x, y) == IF x >= y THEN x ELSE y
               box == ExpandBounds(r, other)
           IN  /\ box \in [lower_left : Points, upper_right : Points]
               /\ box.lower_left.x = Least(other.lower_left.x, r.lower_left.x)
               /\ box.lower_left.y = Least(other.lower_left.y, r.lower_left.y)
               /\ box.upper_right.x = Greatest(other.upper_right.x, r.upper_right.x)
               /\ box.upper_right.y = Greatest(other.upper_right.y, r.upper_right.y)
  <1> DEFINE Records == [lower_left : [x : Int, y : Int], upper_right : [x : Int, y : Int]]
             down == ExpandDownToDocver(other, r)
             up == ExpandUpToCover(down, r)
             a == r.lower_left.x
             b == r.lower_left.y
             c == r.upper_right.x
             d == r.upper_right.y
  <1>1. a \in Int /\ b \in Int /\ c \in Int /\ d \in Int
    BY CoordinatesOf
  <1>2. other \in Records
    BY DEF Boxes, Points
  <1>3. /\ other.lower_left.x \in Int /\ other.lower_left.y \in Int
        /\ other.upper_right.x \in Int /\ other.upper_right.y \in Int
    BY CoordinatesOf
  <1> HIDE DEF a, b, c, d, down, up
  <1>4. \A m, n \in Int : Min({m, n}) \in Int /\ Max({m, n}) \in Int
    BY OfTwo
  <1>5. /\ down \in Records
        /\ down.lower_left.x = other.lower_left.x
        /\ down.lower_left.y = Min({other.lower_left.y, b})
        /\ down.upper_right.x = other.upper_right.x
        /\ down.upper_right.y = other.upper_right.y
    <2>1. Min({other.lower_left.y, b}) \in Int
      BY <1>1, <1>3, <1>4
    <2> QED  BY <1>2, <2>1 DEF ExpandDownToDocver, down, b
  <1>6. /\ up \in Records
        /\ up.lower_left.x = other.lower_left.x
        /\ up.lower_left.y = Min({other.lower_left.y, b})
        /\ up.upper_right.x = other.upper_right.x
        /\ up.upper_right.y = Max({other.upper_right.y, d})
    <2>1. Max({other.upper_right.y, d}) \in Int
      BY <1>1, <1>3, <1>4
    <2> QED  BY <1>5, <2>1 DEF ExpandUpToCover, up, d
  <1>7. LET box == ExpandHorizontallyToCover(up, r)
        IN  /\ box \in Records
            /\ box.lower_left.x = Min({other.lower_left.x, a})
            /\ box.lower_left.y = Min({other.lower_left.y, b})
            /\ box.upper_right.x = Max({other.upper_right.x, c})
            /\ box.upper_right.y = Max({other.upper_right.y, d})
    <2>1. Min({other.lower_left.x, a}) \in Int /\ Max({other.upper_right.x, c}) \in Int
      BY <1>1, <1>3, <1>4
    <2> QED  BY <1>6, <2>1 DEF ExpandHorizontallyToCover, a, c
  <1>8. \A m, n \in Int : /\ Min({m, n}) = IF m <= n THEN m ELSE n
                         /\ Max({m, n}) = IF m >= n THEN m ELSE n
    BY OfTwo
  <1>9. /\ Min({other.lower_left.x, a}) = IF other.lower_left.x <= a THEN other.lower_left.x ELSE a
        /\ Min({other.lower_left.y, b}) = IF other.lower_left.y <= b THEN other.lower_left.y ELSE b
        /\ Max({other.upper_right.x, c}) = IF other.upper_right.x >= c THEN other.upper_right.x ELSE c
        /\ Max({other.upper_right.y, d}) = IF other.upper_right.y >= d THEN other.upper_right.y ELSE d
    BY <1>1, <1>3, <1>8
  <1> QED  BY <1>7, <1>9 DEF ExpandBounds, Points, a, b, c, d, up, down

\* The overlap of two rectangles holds the points of both, and bounds that are expanded by
\* a rectangle are the least that hold both.
THEOREM OverlapAndBounds ==
    ASSUME NEW r \in Boxes, NEW other \in Boxes
    PROVE  /\ \A p \in Points : RectangleIntersects(r, p) /\ RectangleIntersects(other, p)
                  <=> RectanglesOverlap(r, other) /\ RectangleIntersects(OverlapWith(r, other), p)
           /\ ExpandBounds(r, other) \in Boxes
           /\ \A b \in Boxes : EntirelyContains(b, ExpandBounds(r, other))
                                   <=> EntirelyContains(b, r) /\ EntirelyContains(b, other)
  <1> DEFINE a == r.lower_left.x
             b == r.lower_left.y
             c == r.upper_right.x
             d == r.upper_right.y
             e == other.lower_left.x
             f == other.lower_left.y
             g == other.upper_right.x
             h == other.upper_right.y
             least(x, y) == IF x <= y THEN x ELSE y
             greatest(x, y) == IF x >= y THEN x ELSE y
  <1>1. a \in Int /\ b \in Int /\ c \in Int /\ d \in Int /\ a <= c /\ b <= d
        /\ e \in Int /\ f \in Int /\ g \in Int /\ h \in Int /\ e <= g /\ f <= h
    BY CoordinatesOf
  <1>2. /\ ExpandBounds(r, other) \in [lower_left : Points, upper_right : Points]
        /\ ExpandBounds(r, other).lower_left.x = least(e, a)
        /\ ExpandBounds(r, other).lower_left.y = least(f, b)
        /\ ExpandBounds(r, other).upper_right.x = greatest(g, c)
        /\ ExpandBounds(r, other).upper_right.y = greatest(h, d)
    BY <1>1, ExpandedBounds
  <1>3. ASSUME RectanglesOverlap(r, other)
        PROVE  OverlapWith(r, other) = Rectangle(Point(greatest(a, e), greatest(b, f)), Point(least(c, g), least(d, h)))
    <2>1. \A m, n \in Int : Min({m, n}) = least(m, n) /\ Max({m, n}) = greatest(m, n)
      BY OfTwo
    <2>2. /\ Max({a, e}) = greatest(a, e) /\ Max({b, f}) = greatest(b, f)
          /\ Min({c, g}) = least(c, g) /\ Min({d, h}) = least(d, h)
      <3> HIDE DEF least, greatest, a, b, c, d, e, f, g, h
      <3> QED  BY <1>1, <2>1
    <2> QED  BY <1>3, <2>2 DEF OverlapWith
  <1>4. ASSUME NEW p \in Points
        PROVE  RectangleIntersects(r, p) /\ RectangleIntersects(other, p)
                   <=> RectanglesOverlap(r, other) /\ RectangleIntersects(OverlapWith(r, other), p)
    <2>1. p.x \in Int /\ p.y \in Int
      BY DEF Points
    <2>2. RectangleIntersects(r, p) /\ RectangleIntersects(other, p) => RectanglesOverlap(r, other)
      BY <1>1, <2>1 DEF RectangleIntersects, RectanglesOverlap
    <2>3. ASSUME RectanglesOverlap(r, other)
          PROVE  RectangleIntersects(OverlapWith(r, other), p)
                     <=> RectangleIntersects(r, p) /\ RectangleIntersects(other, p)
      BY <1>1, <1>3, <2>1, <2>3 DEF RectangleIntersects, Rectangle, Point
    <2> QED  BY <2>2, <2>3
  <1>5. ExpandBounds(r, other) \in Boxes
    BY <1>1, <1>2 DEF Boxes, Points, Rectangle, Point
  <1>6. ASSUME NEW box \in Boxes
        PROVE  EntirelyContains(box, ExpandBounds(r, other))
                   <=> EntirelyContains(box, r) /\ EntirelyContains(box, other)
    <2>1. /\ box.lower_left.x \in Int /\ box.lower_left.y \in Int
          /\ box.upper_right.x \in Int /\ box.upper_right.y \in Int
      BY CoordinatesOf
    <2> QED  BY <1>1, <1>2, <2>1 DEF EntirelyContains, RectangleIntersects, Rectangle, Point
  <1> QED  BY <1>4, <1>5, <1>6

\* A rectangle that is extended sideways and upwards, on both sides.
Extended(r, across, up) == Rectangle(Point(r.lower_left.x - across, r.lower_left.y - up),
                                     Point(r.upper_right.x + across, r.upper_right.y + up))

LEMMA ExtendedOverlap ==
    ASSUME NEW r \in Boxes, NEW other \in Boxes, NEW i \in Nat, NEW j \in Nat, NEW m \in Nat, NEW n \in Nat
    PROVE  /\ RectanglesOverlap(Extended(r, i, j), Extended(other, m, n))
                  <=> GapX(r, other) <= i + m /\ GapY(r, other) <= j + n
           /\ RectanglesOverlap(Extended(r, i, j), other) <=> GapX(r, other) <= i /\ GapY(r, other) <= j
           /\ GapX(r, other) \in Nat /\ GapY(r, other) \in Nat
  <1>1. /\ r.lower_left.x \in Int /\ r.lower_left.y \in Int
        /\ r.upper_right.x \in Int /\ r.upper_right.y \in Int
        /\ r.lower_left.x <= r.upper_right.x /\ r.lower_left.y <= r.upper_right.y
        /\ other.lower_left.x \in Int /\ other.lower_left.y \in Int
        /\ other.upper_right.x \in Int /\ other.upper_right.y \in Int
        /\ other.lower_left.x <= other.upper_right.x /\ other.lower_left.y <= other.upper_right.y
    BY CoordinatesOf
  <1> QED  BY <1>1 DEF RectanglesOverlap, Extended, Rectangle, Point, GapX, GapY, Gap

LEMMA RoundedParts ==
    ASSUME NEW r \in Boxes, NEW radius \in Nat
    PROVE  LET o == FromRectangle(r, radius)
               i == Inner(o)
               a == r.lower_left.x
               b == r.lower_left.y
               c == r.upper_right.x
               d == r.upper_right.y
           IN  /\ i = r /\ o.corner_radius = radius
               /\ BoxOf(o) = Extended(r, radius, radius)
               /\ o.lower_left = Point(a - radius, b - radius) /\ o.upper_right = Point(c + radius, d + radius)
               /\ EasyRegions(o) = {r, Rectangle(Point(a - radius, b), Point(c, d)),
                                    Rectangle(Point(a, d), Point(c, d + radius)),
                                    Rectangle(Point(c, b), Point(c + radius, d)),
                                    Rectangle(Point(a, b - radius), Point(c, b))}
  <1> DEFINE o == FromRectangle(r, radius)
             a == r.lower_left.x
             b == r.lower_left.y
             c == r.upper_right.x
             d == r.upper_right.y
  <1>1. a \in Int /\ b \in Int /\ c \in Int /\ d \in Int
        /\ r = Rectangle(Point(a, b), Point(c, d)) /\ r.lower_left = Point(a, b) /\ r.upper_right = Point(c, d)
    BY CoordinatesOf
  <1> HIDE DEF a, b, c, d
  <1>3. /\ o.lower_left = Point(a - radius, b - radius) /\ o.upper_right = Point(c + radius, d + radius)
        /\ o.corner_radius = radius
    BY DEF FromRectangle, RoundedRectangle, Minus, Plus, Point, a, b, c, d
  <1>4. BoxOf(o) = Extended(r, radius, radius)
    BY <1>3 DEF BoxOf, Extended, a, b, c, d
  <1>5. Inner(o) = r
    <2> HIDE DEF o
    <2>1. Inner(o) = Rectangle(Point((a - radius) + radius, (b - radius) + radius),
                               Point((c + radius) - radius, (d + radius) - radius))
      BY <1>1, <1>3 DEF Inner, Plus, Minus, Point
    <2>2. /\ (a - radius) + radius = a /\ (b - radius) + radius = b
          /\ (c + radius) - radius = c /\ (d + radius) - radius = d
      BY <1>1
    <2> QED  BY <1>1, <2>1, <2>2
  <1>6. UpperLeft(r) = Point(a, d) /\ LowerRight(r) = Point(c, b)
    BY DEF UpperLeft, LowerRight, a, b, c, d
  <1>7. EasyRegions(o) = {r, Rectangle(Point(a - radius, b), Point(c, d)),
                          Rectangle(Point(a, d), Point(c, d + radius)),
                          Rectangle(Point(c, b), Point(c + radius, d)),
                          Rectangle(Point(a, b - radius), Point(c, b))}
    <2>1. EasyRegions(o) = {r, Rectangle(Minus(r.lower_left, Point(radius, 0)), r.upper_right),
                            Rectangle(UpperLeft(r), Plus(r.upper_right, Point(0, radius))),
                            Rectangle(LowerRight(r), Plus(r.upper_right, Point(radius, 0))),
                            Rectangle(Minus(r.lower_left, Point(0, radius)), LowerRight(r))}
      BY <1>3, <1>5 DEF EasyRegions
    <2>2. /\ Minus(r.lower_left, Point(radius, 0)) = Point(a - radius, b)
          /\ Plus(r.upper_right, Point(0, radius)) = Point(c, d + radius)
          /\ Plus(r.upper_right, Point(radius, 0)) = Point(c + radius, d)
          /\ Minus(r.lower_left, Point(0, radius)) = Point(a, b - radius)
      BY <1>1 DEF Plus, Minus, Point
    <2> QED  BY <1>1, <1>6, <2>1, <2>2
  <1> QED  BY <1>3, <1>4, <1>5, <1>7 DEF a, b, c, d

LEMMA RegionsStayInside ==
    ASSUME NEW r \in Boxes, NEW radius \in Nat, NEW region \in EasyRegions(FromRectangle(r, radius))
    PROVE  /\ region \in Boxes
           /\ EntirelyContains(Extended(r, radius, 0), region) \/ EntirelyContains(Extended(r, 0, radius), region)
  <1> DEFINE a == r.lower_left.x
             b == r.lower_left.y
             c == r.upper_right.x
             d == r.upper_right.y
  <1>1. a \in Int /\ b \in Int /\ c \in Int /\ d \in Int /\ a <= c /\ b <= d
        /\ r = Rectangle(Point(a, b), Point(c, d))
    BY CoordinatesOf
  <1>2. region \in {r, Rectangle(Point(a - radius, b), Point(c, d)), Rectangle(Point(a, d), Point(c, d + radius)),
                    Rectangle(Point(c, b), Point(c + radius, d)), Rectangle(Point(a, b - radius), Point(c, b))}
    BY RoundedParts
  <1> HIDE DEF a, b, c, d
  <1>3. \E w, x, y, z \in Int :
            /\ region = Rectangle(Point(w, x), Point(y, z)) /\ w <= y /\ x <= z
            /\ \/ a - radius <= w /\ y <= c + radius /\ b <= x /\ z <= d
               \/ a <= w /\ y <= c /\ b - radius <= x /\ z <= d + radius
    <2>1. a - radius \in Int /\ b - radius \in Int /\ c + radius \in Int /\ d + radius \in Int
      BY <1>1
    <2> QED  BY <1>1, <1>2, <2>1
  <1>4. PICK w \in Int, x \in Int, y \in Int, z \in Int :
            /\ region = Rectangle(Point(w, x), Point(y, z)) /\ w <= y /\ x <= z
            /\ \/ a - radius <= w /\ y <= c + radius /\ b <= x /\ z <= d
               \/ a <= w /\ y <= c /\ b - radius <= x /\ z <= d + radius
    BY <1>3
  <1>5. region \in Boxes
    BY <1>4 DEF Boxes, Points, Rectangle, Point
  <1>6. /\ Extended(r, radius, 0) = Rectangle(Point(a - radius, b - 0), Point(c + radius, d + 0))
        /\ Extended(r, 0, radius) = Rectangle(Point(a - 0, b - radius), Point(c + 0, d + radius))
    BY DEF Extended, a, b, c, d
  <1>7. EntirelyContains(Extended(r, radius, 0), region) \/ EntirelyContains(Extended(r, 0, radius), region)
    BY <1>1, <1>4, <1>6 DEF EntirelyContains, RectangleIntersects, Rectangle, Point
  <1> QED  BY <1>5, <1>7

LEMMA OverlapIsMonotone ==
    ASSUME NEW r \in Boxes, NEW other \in Boxes, NEW Outer \in Boxes, NEW OuterOther \in Boxes,
           EntirelyContains(Outer, r), EntirelyContains(OuterOther, other), RectanglesOverlap(r, other)
    PROVE  RectanglesOverlap(Outer, OuterOther)
  <1>1. /\ r.lower_left.x \in Int /\ r.lower_left.y \in Int /\ r.upper_right.x \in Int /\ r.upper_right.y \in Int
        /\ other.lower_left.x \in Int /\ other.lower_left.y \in Int
        /\ other.upper_right.x \in Int /\ other.upper_right.y \in Int
        /\ Outer.lower_left.x \in Int /\ Outer.lower_left.y \in Int /\ Outer.upper_right.x \in Int /\ Outer.upper_right.y \in Int
        /\ OuterOther.lower_left.x \in Int /\ OuterOther.lower_left.y \in Int /\ OuterOther.upper_right.x \in Int /\ OuterOther.upper_right.y \in Int
    BY CoordinatesOf
  <1> QED  BY <1>1 DEF EntirelyContains, RectangleIntersects, RectanglesOverlap

LEMMA ExtendedBoxes ==
    ASSUME NEW r \in Boxes, NEW m \in Nat, NEW n \in Nat
    PROVE  Extended(r, m, n) \in Boxes /\ EntirelyContains(Extended(r, m, n), r) /\ EntirelyContains(r, r)
  <1>1. /\ r.lower_left.x \in Int /\ r.lower_left.y \in Int /\ r.upper_right.x \in Int /\ r.upper_right.y \in Int
        /\ r.lower_left.x <= r.upper_right.x /\ r.lower_left.y <= r.upper_right.y
    BY CoordinatesOf
  <1> QED  BY <1>1 DEF Extended, Boxes, Points, Rectangle, Point, EntirelyContains, RectangleIntersects

LEMMA EasyRegionsMeet ==
    ASSUME NEW r \in Boxes, NEW other \in Boxes, NEW m \in Nat, NEW n \in Nat
    PROVE  LET Meet == \E region \in EasyRegions(FromRectangle(r, m)), opposite \in EasyRegions(FromRectangle(other, n)) :
                           RectanglesOverlap(region, opposite)
               X == GapX(r, other)
               Y == GapY(r, other)
           IN  /\ Meet => \/ X <= m + n /\ Y = 0
                          \/ X = 0 /\ Y <= m + n
                          \/ X <= m /\ Y <= n
                          \/ X <= n /\ Y <= m
               /\ (X <= m + n /\ Y = 0) \/ (X = 0 /\ Y <= m + n) => Meet
  <1> DEFINE X == GapX(r, other)
             Y == GapY(r, other)
             Meet == \E region \in EasyRegions(FromRectangle(r, m)), opposite \in EasyRegions(FromRectangle(other, n)) :
                           RectanglesOverlap(region, opposite)
  <1>1. ASSUME NEW region \in EasyRegions(FromRectangle(r, m)), NEW opposite \in EasyRegions(FromRectangle(other, n)),
               RectanglesOverlap(region, opposite)
        PROVE  \/ X <= m + n /\ Y = 0
               \/ X = 0 /\ Y <= m + n
               \/ X <= m /\ Y <= n
               \/ X <= n /\ Y <= m
    <2>1. /\ region \in Boxes /\ opposite \in Boxes
          /\ EntirelyContains(Extended(r, m, 0), region) \/ EntirelyContains(Extended(r, 0, m), region)
          /\ EntirelyContains(Extended(other, n, 0), opposite) \/ EntirelyContains(Extended(other, 0, n), opposite)
      BY RegionsStayInside
    <2>2. \/ RectanglesOverlap(Extended(r, m, 0), Extended(other, n, 0))
          \/ RectanglesOverlap(Extended(r, 0, m), Extended(other, 0, n))
          \/ RectanglesOverlap(Extended(r, m, 0), Extended(other, 0, n))
          \/ RectanglesOverlap(Extended(r, 0, m), Extended(other, n, 0))
      <3>1. /\ Extended(r, m, 0) \in Boxes /\ Extended(r, 0, m) \in Boxes
            /\ Extended(other, n, 0) \in Boxes /\ Extended(other, 0, n) \in Boxes
        BY ExtendedBoxes
      <3> QED  BY <1>1, <2>1, <3>1, OverlapIsMonotone
    <2>3. X \in Nat /\ Y \in Nat
      BY ExtendedOverlap
    <2>4. \A i, j, k, l \in Nat : RectanglesOverlap(Extended(r, i, j), Extended(other, k, l)) <=> X <= i + k /\ Y <= j + l
      BY ExtendedOverlap
    <2>5. 0 \in Nat
      OBVIOUS
    <2> HIDE DEF X, Y
    <2> QED  BY <2>2, <2>3, <2>4, <2>5
  <1>2. ASSUME (X <= m + n /\ Y = 0) \/ (X = 0 /\ Y <= m + n)
        PROVE  Meet
    <2> DEFINE a == r.lower_left.x
               b == r.lower_left.y
               c == r.upper_right.x
               d == r.upper_right.y
               e == other.lower_left.x
               f == other.lower_left.y
               g == other.upper_right.x
               h == other.upper_right.y
               Ours == EasyRegions(FromRectangle(r, m))
               Theirs == EasyRegions(FromRectangle(other, n))
    <2>1. a \in Int /\ b \in Int /\ c \in Int /\ d \in Int /\ a <= c /\ b <= d
          /\ e \in Int /\ f \in Int /\ g \in Int /\ h \in Int /\ e <= g /\ f <= h
      BY CoordinatesOf
    <2>2. X = Gap(a, c, e, g) /\ Y = Gap(b, d, f, h)
      BY DEF GapX, GapY
    <2>3. /\ r \in Ours /\ other \in Theirs
          /\ Rectangle(Point(a - m, b), Point(c, d)) \in Ours
          /\ Rectangle(Point(a, d), Point(c, d + m)) \in Ours
          /\ Rectangle(Point(c, b), Point(c + m, d)) \in Ours
          /\ Rectangle(Point(a, b - m), Point(c, b)) \in Ours
          /\ Rectangle(Point(e - n, f), Point(g, h)) \in Theirs
          /\ Rectangle(Point(e, h), Point(g, h + n)) \in Theirs
          /\ Rectangle(Point(g, f), Point(g + n, h)) \in Theirs
          /\ Rectangle(Point(e, f - n), Point(g, f)) \in Theirs
      BY RoundedParts
    <2>4. RectanglesOverlap(r, other) <=> g >= a /\ h >= b /\ c >= e /\ d >= f
      BY DEF RectanglesOverlap
    <2>5. \A w, x, y, z, s, t, u, v :
              RectanglesOverlap(Rectangle(Point(w, x), Point(y, z)), Rectangle(Point(s, t), Point(u, v)))
                  <=> u >= w /\ v >= x /\ y >= s /\ z >= t
      BY DEF RectanglesOverlap, Rectangle, Point
    <2>6. Meet <=> \E region \in Ours, opposite \in Theirs : RectanglesOverlap(region, opposite)
      OBVIOUS
    <2> HIDE DEF a, b, c, d, e, f, g, h, Ours, Theirs, X, Y, Meet
    <2>7. CASE X = 0 /\ Y = 0
      BY <2>1, <2>2, <2>3, <2>4, <2>6, <2>7 DEF Gap
    <2>8. CASE X # 0 /\ e > c
      <3>1. RectanglesOverlap(Rectangle(Point(c, b), Point(c + m, d)), Rectangle(Point(e - n, f), Point(g, h)))
        BY <1>2, <2>1, <2>2, <2>5, <2>8 DEF Gap
      <3> QED  BY <2>3, <2>6, <3>1
    <2>9. CASE X # 0 /\ a > g
      <3>1. RectanglesOverlap(Rectangle(Point(a - m, b), Point(c, d)), Rectangle(Point(g, f), Point(g + n, h)))
        BY <1>2, <2>1, <2>2, <2>5, <2>9 DEF Gap
      <3> QED  BY <2>3, <2>6, <3>1
    <2>10. CASE Y # 0 /\ f > d
      <3>1. RectanglesOverlap(Rectangle(Point(a, d), Point(c, d + m)), Rectangle(Point(e, f - n), Point(g, f)))
        BY <1>2, <2>1, <2>2, <2>5, <2>10 DEF Gap
      <3> QED  BY <2>3, <2>6, <3>1
    <2>11. CASE Y # 0 /\ b > h
      <3>1. RectanglesOverlap(Rectangle(Point(a, b - m), Point(c, b)), Rectangle(Point(e, h), Point(g, h + n)))
        BY <1>2, <2>1, <2>2, <2>5, <2>11 DEF Gap
      <3> QED  BY <2>3, <2>6, <3>1
    <2>12. X # 0 => e > c \/ a > g
      BY <2>1, <2>2 DEF Gap
    <2>13. Y # 0 => f > d \/ b > h
      BY <2>1, <2>2 DEF Gap
    <2> QED  BY <2>7, <2>8, <2>9, <2>10, <2>11, <2>12, <2>13
  <1> QED  BY <1>1, <1>2

\* Two rounded rectangles overlap when the rectangles that they are rounded about are no
\* further apart than both radii, and then only.
THEOREM RoundedRectanglesMeet ==
    ASSUME NEW r \in Boxes, NEW other \in Boxes, NEW m \in Nat, NEW n \in Nat
    PROVE  RoundedOverlapsRounded(FromRectangle(r, m), FromRectangle(other, n))
               <=> ClosestDistanceSquared(r, other) <= Square(m + n)
  <1> DEFINE X == GapX(r, other)
             Y == GapY(r, other)
             o == FromRectangle(r, m)
             p == FromRectangle(other, n)
             pairs == {<<r.lower_left, other.upper_right>>, <<UpperLeft(r), LowerRight(other)>>,
                       <<r.upper_right, other.lower_left>>, <<LowerRight(r), UpperLeft(other)>>}
             Meet == \E region \in EasyRegions(o), opposite \in EasyRegions(p) : RectanglesOverlap(region, opposite)
             Near == \E pair \in pairs : L2Squared(pair[1], pair[2]) <= Square(m + n)
             D == ClosestDistanceSquared(r, other)
  <1>1. RoundedOverlapsRounded(o, p) <=> RectanglesOverlap(BoxOf(o), BoxOf(p)) /\ (Meet \/ Near)
    <2>1. /\ Inner(o) = r /\ Inner(p) = other /\ o.corner_radius = m /\ p.corner_radius = n
      BY RoundedParts
    <2> HIDE DEF o, p
    <2> QED  BY <2>1 DEF RoundedOverlapsRounded
  <1>2. RectanglesOverlap(BoxOf(o), BoxOf(p)) <=> X <= m + n /\ Y <= m + n
    <2>1. BoxOf(o) = Extended(r, m, m) /\ BoxOf(p) = Extended(other, n, n)
      BY RoundedParts
    <2> QED  BY <2>1, ExtendedOverlap
  <1>3. /\ Meet => \/ X <= m + n /\ Y = 0
                   \/ X = 0 /\ Y <= m + n
                   \/ X <= m /\ Y <= n
                   \/ X <= n /\ Y <= m
        /\ (X <= m + n /\ Y = 0) \/ (X = 0 /\ Y <= m + n) => Meet
    BY EasyRegionsMeet
  <1>4. D = Square(X) + Square(Y)
    BY DistanceByGaps
  <1>5. X \in Nat /\ Y \in Nat
    BY ExtendedOverlap
  <1>6. \A x, y \in Nat : /\ Square(x) \in Nat /\ Square(0) = 0
                          /\ x <= y => Square(x) <= Square(y)
                          /\ y < x => Square(y) < Square(x)
    <2>1. \A x \in Nat : x \in Int
      OBVIOUS
    <2>2. \A x, y \in Int : /\ Square(x) \in Nat /\ (Square(x) = 0 <=> x = 0)
                            /\ 0 <= x /\ x <= y => Square(x) <= Square(y)
                            /\ 0 <= x /\ x < y => Square(x) < Square(y)
      BY Squares
    <2> QED  BY <2>1, <2>2
  <1>7. Square(m) + Square(n) <= Square(m + n)
    <2>1. (m + n) * (m + n) = m * m + n * n + 2 * (m * n)
      OBVIOUS
    <2>2. m * n \in Nat /\ m * m \in Nat /\ n * n \in Nat
      OBVIOUS
    <2> QED  BY <2>1, <2>2 DEF Square
  <1>8. \A pair \in pairs : D <= L2Squared(pair[1], pair[2]) /\ L2Squared(pair[1], pair[2]) \in Int
    <2>1. /\ r.lower_left \in Points /\ UpperLeft(r) \in Points /\ r.upper_right \in Points /\ LowerRight(r) \in Points
          /\ other.lower_left \in Points /\ UpperLeft(other) \in Points
          /\ other.upper_right \in Points /\ LowerRight(other) \in Points
      BY DEF Boxes, Points, UpperLeft, LowerRight, Point
    <2>2. /\ RectangleIntersects(r, r.lower_left) /\ RectangleIntersects(r, UpperLeft(r))
          /\ RectangleIntersects(r, r.upper_right) /\ RectangleIntersects(r, LowerRight(r))
          /\ RectangleIntersects(other, other.lower_left) /\ RectangleIntersects(other, UpperLeft(other))
          /\ RectangleIntersects(other, other.upper_right) /\ RectangleIntersects(other, LowerRight(other))
      <3>1. \A b \in Boxes : /\ RectangleIntersects(b, b.lower_left) /\ RectangleIntersects(b, UpperLeft(b))
                             /\ RectangleIntersects(b, b.upper_right) /\ RectangleIntersects(b, LowerRight(b))
        BY DEF Boxes, Points, RectangleIntersects, UpperLeft, LowerRight, Point
      <3> QED  BY <3>1
    <2>3. \A s, t \in Points : RectangleIntersects(r, s) /\ RectangleIntersects(other, t) => D <= L2Squared(s, t)
      BY DistanceIsOfTheClosest
    <2>4. \A s, t \in Points : L2Squared(s, t) \in Int
      BY DEF Points, L2Squared, Square
    <2> HIDE DEF D
    <2> QED  BY <2>1, <2>2, <2>3, <2>4
  <1>9. ASSUME X # 0, Y # 0
        PROVE  \E pair \in pairs : L2Squared(pair[1], pair[2]) = D
    <2> DEFINE a == r.lower_left.x
               b == r.lower_left.y
               c == r.upper_right.x
               d == r.upper_right.y
               e == other.lower_left.x
               f == other.lower_left.y
               g == other.upper_right.x
               h == other.upper_right.y
    <2>1. a \in Int /\ b \in Int /\ c \in Int /\ d \in Int /\ a <= c /\ b <= d
          /\ e \in Int /\ f \in Int /\ g \in Int /\ h \in Int /\ e <= g /\ f <= h
      BY CoordinatesOf
    <2>2. X = Gap(a, c, e, g) /\ Y = Gap(b, d, f, h)
      BY DEF GapX, GapY
    <2>3. /\ L2Squared(r.upper_right, other.lower_left) = Square(c - e) + Square(d - f)
          /\ L2Squared(LowerRight(r), UpperLeft(other)) = Square(c - e) + Square(b - h)
          /\ L2Squared(r.lower_left, other.upper_right) = Square(a - g) + Square(b - h)
          /\ L2Squared(UpperLeft(r), LowerRight(other)) = Square(a - g) + Square(d - f)
      BY DEF L2Squared, LowerRight, UpperLeft, Point
    <2>4. \A x \in Int : Square(-x) = Square(x)
      BY Squares
    <2> HIDE DEF a, b, c, d, e, f, g, h, X, Y
    <2>5. (X = e - c \/ X = a - g) /\ (Y = f - d \/ Y = b - h)
      BY <1>9, <2>1, <2>2 DEF Gap
    <2>6. e - c \in Int /\ f - d \in Int /\ c - e = -(e - c) /\ d - f = -(f - d)
      BY <2>1
    <2>7. (Square(X) = Square(c - e) \/ Square(X) = Square(a - g)) /\ (Square(Y) = Square(d - f) \/ Square(Y) = Square(b - h))
      BY <2>4, <2>5, <2>6
    <2>8. \/ D = L2Squared(r.upper_right, other.lower_left)
          \/ D = L2Squared(LowerRight(r), UpperLeft(other))
          \/ D = L2Squared(r.lower_left, other.upper_right)
          \/ D = L2Squared(UpperLeft(r), LowerRight(other))
      <3> HIDE DEF D
      <3> QED  BY <1>4, <2>3, <2>7
    <2> HIDE DEF D
    <2> QED  BY <2>8
  <1> HIDE DEF X, Y, o, p, Meet, D
  <1>10. D \in Int /\ Square(m + n) \in Int /\ m + n \in Nat
    BY <1>4, <1>5, <1>6
  <1>11. ASSUME Meet PROVE D <= Square(m + n)
    <2>1. Square(X) \in Int /\ Square(Y) \in Int /\ Square(m) \in Int /\ Square(n) \in Int
      BY <1>5, <1>6
    <2>2. CASE X <= m + n /\ Y = 0
      <3>1. Square(X) <= Square(m + n) /\ Square(Y) = 0
        BY <1>5, <1>6, <1>10, <2>2
      <3> QED  BY <1>4, <1>10, <2>1, <3>1
    <2>3. CASE X = 0 /\ Y <= m + n
      <3>1. Square(Y) <= Square(m + n) /\ Square(X) = 0
        BY <1>5, <1>6, <1>10, <2>3
      <3> QED  BY <1>4, <1>10, <2>1, <3>1
    <2>4. CASE X <= m /\ Y <= n
      <3>1. Square(X) <= Square(m) /\ Square(Y) <= Square(n)
        BY <1>5, <1>6, <2>4
      <3> QED  BY <1>4, <1>7, <1>10, <2>1, <3>1
    <2>5. CASE X <= n /\ Y <= m
      <3>1. Square(X) <= Square(n) /\ Square(Y) <= Square(m)
        BY <1>5, <1>6, <2>5
      <3> QED  BY <1>4, <1>7, <1>10, <2>1, <3>1
    <2> QED  BY <1>3, <1>11, <2>2, <2>3, <2>4, <2>5
  <1>12. ASSUME Near PROVE D <= Square(m + n)
    <2>1. PICK pair \in pairs : L2Squared(pair[1], pair[2]) <= Square(m + n)
      BY <1>12
    <2>2. D <= L2Squared(pair[1], pair[2]) /\ L2Squared(pair[1], pair[2]) \in Int
      BY <1>8
    <2> QED  BY <1>10, <2>1, <2>2
  <1>13. ASSUME D <= Square(m + n) PROVE X <= m + n /\ Y <= m + n /\ (Meet \/ Near)
    <2>1. Square(X) \in Nat /\ Square(Y) \in Nat
      BY <1>5, <1>6
    <2>2. Square(X) <= Square(m + n) /\ Square(Y) <= Square(m + n)
      BY <1>4, <1>10, <1>13, <2>1
    <2>3. X <= m + n /\ Y <= m + n
      <3>1. ~(Square(m + n) < Square(X)) /\ ~(Square(m + n) < Square(Y))
        BY <1>10, <2>1, <2>2
      <3>2. (m + n < X => Square(m + n) < Square(X)) /\ (m + n < Y => Square(m + n) < Square(Y))
        BY <1>5, <1>6, <1>10
      <3> QED  BY <1>5, <1>10, <3>1, <3>2
    <2>4. CASE X = 0 \/ Y = 0
      BY <1>3, <2>3, <2>4
    <2>5. CASE X # 0 /\ Y # 0
      <3>1. PICK pair \in pairs : L2Squared(pair[1], pair[2]) = D
        BY <1>9, <2>5
      <3> QED  BY <1>13, <2>3, <3>1
    <2> QED  BY <2>3, <2>4, <2>5
  <1>14. RoundedOverlapsRounded(o, p) <=> D <= Square(m + n)
    <2> HIDE DEF pairs, Near
    <2>1. ASSUME D <= Square(m + n) PROVE RoundedOverlapsRounded(o, p)
      BY <1>1, <1>2, <1>13, <2>1
    <2>2. ASSUME RoundedOverlapsRounded(o, p) PROVE D <= Square(m + n)
      BY <1>1, <1>11, <1>12, <2>2
    <2> QED  BY <2>1, <2>2
  <1> QED  BY <1>14 DEF o, p, D

\* Of a rounded rectangle and a rectangle to the lower right of it, the distance of the corners
\* is taken from the upper right one: whether they overlap is found exactly everywhere else,
\* never found without cause, and never found there if the rectangle in the middle is as high
\* as the radius.
THEOREM LowerRightCornersAreMissed ==
    ASSUME NEW r \in Boxes, NEW other \in Boxes, NEW radius \in Nat
    PROVE  LET Overlap == RoundedOverlapsRectangle(FromRectangle(r, radius), other)
               Touching == ClosestDistanceSquared(r, other) <= Square(radius)
               to_lower_right == r.upper_right.x < other.lower_left.x /\ other.upper_right.y < r.lower_left.y
           IN  /\ ~to_lower_right => (Overlap <=> Touching)
               /\ to_lower_right => (Overlap <=> Square(GapX(r, other)) + Square(GapY(r, other) + Height(r))
                                                     <= Square(radius))
               /\ Overlap => Touching
               /\ to_lower_right /\ radius <= Height(r) => ~Overlap
  <1> DEFINE a == r.lower_left.x
             b == r.lower_left.y
             c == r.upper_right.x
             d == r.upper_right.y
             e == other.lower_left.x
             f == other.lower_left.y
             g == other.upper_right.x
             h == other.upper_right.y
             X == GapX(r, other)
             Y == GapY(r, other)
             o == FromRectangle(r, radius)
             corner == CornerRegions(o, other)
             In(k) == RectanglesOverlap(corner[k].region, other)
             Easy == \E region \in EasyRegions(o) : RectanglesOverlap(region, other)
             Corner(k) == In(k) /\ (\A j \in 1..(k - 1) : ~In(j)) /\ WithinRadius(o, corner[k].centre, corner[k].nearest)
             D == ClosestDistanceSquared(r, other)
             LowerRightOf == c < e /\ h < b
  <1>1. a \in Int /\ b \in Int /\ c \in Int /\ d \in Int /\ a <= c /\ b <= d
        /\ e \in Int /\ f \in Int /\ g \in Int /\ h \in Int /\ e <= g /\ f <= h
        /\ r = Rectangle(Point(a, b), Point(c, d)) /\ r.lower_left = Point(a, b) /\ r.upper_right = Point(c, d)
        /\ other.lower_left = Point(e, f) /\ other.upper_right = Point(g, h)
    BY CoordinatesOf
  <1>2. X = Gap(a, c, e, g) /\ Y = Gap(b, d, f, h)
    BY DEF GapX, GapY
  <1>3. X \in Nat /\ Y \in Nat
    BY ExtendedOverlap
  <1>4. D = Square(X) + Square(Y)
    BY DistanceByGaps
  <1>5. /\ Inner(o) = r /\ o.corner_radius = radius
        /\ o.lower_left = Point(a - radius, b - radius) /\ o.upper_right = Point(c + radius, d + radius)
        /\ BoxOf(o) = Extended(r, radius, radius)
    BY RoundedParts
  <1>6. RectanglesOverlap(BoxOf(o), other) <=> X <= radius /\ Y <= radius
    BY <1>5, ExtendedOverlap
  <1>7. Easy <=> (X <= radius /\ Y = 0) \/ (X = 0 /\ Y <= radius)
    <2>1. Easy <=> \E region \in EasyRegions(o), opposite \in EasyRegions(FromRectangle(other, 0)) :
                       RectanglesOverlap(region, opposite)
      <3>1. EasyRegions(FromRectangle(other, 0))
                = {other, Rectangle(Point(e - 0, f), Point(g, h)), Rectangle(Point(e, h), Point(g, h + 0)),
                   Rectangle(Point(g, f), Point(g + 0, h)), Rectangle(Point(e, f - 0), Point(g, f))}
        <4>1. 0 \in Nat
          OBVIOUS
        <4> QED  BY <4>1, RoundedParts
      <3>2. ASSUME NEW region \in EasyRegions(o), NEW opposite \in EasyRegions(FromRectangle(other, 0)),
                   RectanglesOverlap(region, opposite)
            PROVE  RectanglesOverlap(region, other)
        <4>1. opposite \in Boxes /\ region \in Boxes
          BY RegionsStayInside
        <4>2. EntirelyContains(other, opposite) /\ EntirelyContains(region, region)
          <5>1. EntirelyContains(region, region)
            <6>1. 0 \in Nat
              OBVIOUS
            <6> QED  BY <4>1, <6>1, ExtendedBoxes
          <5>2. EntirelyContains(other, opposite)
            BY <1>1, <3>1 DEF EntirelyContains, RectangleIntersects, Rectangle, Point
          <5> QED  BY <5>1, <5>2
        <4> QED  BY <3>2, <4>1, <4>2, OverlapIsMonotone
      <3>3. other \in EasyRegions(FromRectangle(other, 0))
        BY <3>1
      <3> QED  BY <3>2, <3>3
    <2>2. 0 \in Nat /\ radius + 0 = radius
      OBVIOUS
    <2>3. LET Meet == \E region \in EasyRegions(o), opposite \in EasyRegions(FromRectangle(other, 0)) :
                          RectanglesOverlap(region, opposite)
          IN  /\ Meet => \/ X <= radius /\ Y = 0
                         \/ X = 0 /\ Y <= radius
                         \/ X <= radius /\ Y <= 0
                         \/ X <= 0 /\ Y <= radius
              /\ (X <= radius /\ Y = 0) \/ (X = 0 /\ Y <= radius) => Meet
      BY <2>2, EasyRegionsMeet
    <2> HIDE DEF X, Y, Easy, o
    <2> QED  BY <1>3, <2>1, <2>3
  <1>8. RoundedOverlapsRectangle(o, other)
            <=> RectanglesOverlap(BoxOf(o), other) /\ (Easy \/ \E k \in 1..4 : Corner(k))
    BY DEF RoundedOverlapsRectangle
  <1>9. corner = <<[region |-> Rectangle(Point(a - radius, d), Point(a, d + radius)),
                    centre |-> Point(a, d), nearest |-> Point(g, f)],
                   [region |-> Rectangle(Point(c, d), Point(c + radius, d + radius)),
                    centre |-> Point(c, d), nearest |-> Point(e, f)],
                   [region |-> Rectangle(Point(c, b - radius), Point(c + radius, b)),
                    centre |-> Point(c, d), nearest |-> Point(e, h)],
                   [region |-> Rectangle(Point(a - radius, b - radius), Point(a, b)),
                    centre |-> Point(a, b), nearest |-> Point(g, h)]>>
    <2>1. /\ UpperLeft(r) = Point(a, d) /\ LowerRight(r) = Point(c, b)
          /\ UpperLeft(other) = Point(e, h) /\ LowerRight(other) = Point(g, f)
      BY DEF UpperLeft, LowerRight
    <2>2. \A x, y \in Int : /\ Minus(Point(x, y), Point(radius, 0)) = Point(x - radius, y)
                            /\ Minus(Point(x, y), Point(0, radius)) = Point(x, y - radius)
                            /\ Plus(Point(x, y), Point(radius, 0)) = Point(x + radius, y)
                            /\ Plus(Point(x, y), Point(0, radius)) = Point(x, y + radius)
      BY DEF Minus, Plus, Point
    <2> HIDE DEF a, b, c, d, e, f, g, h, o
    <2>3. /\ Minus(UpperLeft(r), Point(radius, 0)) = Point(a - radius, d)
          /\ Plus(UpperLeft(r), Point(0, radius)) = Point(a, d + radius)
          /\ Minus(LowerRight(r), Point(0, radius)) = Point(c, b - radius)
          /\ Plus(LowerRight(r), Point(radius, 0)) = Point(c + radius, b)
      BY <1>1, <2>1, <2>2
    <2> QED  BY <1>1, <1>5, <2>1, <2>3 DEF CornerRegions
  <1>10. /\ In(1) <=> g >= a - radius /\ h >= d /\ a >= e /\ d + radius >= f
         /\ In(2) <=> g >= c /\ h >= d /\ c + radius >= e /\ d + radius >= f
         /\ In(3) <=> g >= c /\ h >= b - radius /\ c + radius >= e /\ b >= f
         /\ In(4) <=> g >= a - radius /\ h >= b - radius /\ a >= e /\ b >= f
    <2>1. \A w, x, y, z : RectanglesOverlap(Rectangle(Point(w, x), Point(y, z)), other)
                              <=> g >= w /\ h >= x /\ y >= e /\ z >= f
      BY DEF RectanglesOverlap, Rectangle, Point
    <2> HIDE DEF a, b, c, d, e, f, g, h, o
    <2> QED  BY <1>9, <2>1
  <1>11. /\ WithinRadius(o, corner[1].centre, corner[1].nearest) <=> Square(a - g) + Square(d - f) <= Square(radius)
         /\ WithinRadius(o, corner[2].centre, corner[2].nearest) <=> Square(c - e) + Square(d - f) <= Square(radius)
         /\ WithinRadius(o, corner[3].centre, corner[3].nearest) <=> Square(c - e) + Square(d - h) <= Square(radius)
         /\ WithinRadius(o, corner[4].centre, corner[4].nearest) <=> Square(a - g) + Square(b - h) <= Square(radius)
    <2>1. \A w, x, y, z : L2Squared(Point(w, x), Point(y, z)) = Square(w - y) + Square(x - z)
      BY DEF L2Squared, Point
    <2>2. /\ corner[1].centre = Point(a, d) /\ corner[1].nearest = Point(g, f)
          /\ corner[2].centre = Point(c, d) /\ corner[2].nearest = Point(e, f)
          /\ corner[3].centre = Point(c, d) /\ corner[3].nearest = Point(e, h)
          /\ corner[4].centre = Point(a, b) /\ corner[4].nearest = Point(g, h)
      <3> HIDE DEF a, b, c, d, e, f, g, h, o
      <3> QED  BY <1>9
    <2> HIDE DEF a, b, c, d, e, f, g, h, o, corner
    <2> QED  BY <1>5, <2>1, <2>2 DEF WithinRadius
  <1>12. \A x \in Int, y \in Nat : /\ Square(x) \in Nat /\ Square(-x) = Square(x) /\ Square(0) = 0
                                   /\ 0 <= x /\ x <= y => Square(x) <= Square(y)
                                   /\ y < x => Square(y) < Square(x)
    <2>1. \A x, y \in Int : /\ Square(x) \in Nat /\ (Square(x) = 0 <=> x = 0) /\ Square(-x) = Square(x)
                            /\ 0 <= x /\ x <= y => Square(x) <= Square(y)
                            /\ 0 <= x /\ x < y => Square(x) < Square(y)
      BY Squares
    <2> QED  BY <2>1
  <1>13. /\ Square(c - e) = Square(e - c) /\ Square(d - f) = Square(f - d) /\ Square(d - h) = Square((b - h) + (d - b))
         /\ Square(e - c) \in Nat /\ Square(f - d) \in Nat /\ Square(a - g) \in Nat /\ Square(b - h) \in Nat
         /\ Square(radius) \in Nat /\ Square(d - h) \in Nat
    <2>1. c - e = -(e - c) /\ d - f = -(f - d) /\ d - h = (b - h) + (d - b)
          /\ e - c \in Int /\ f - d \in Int /\ a - g \in Int /\ b - h \in Int /\ d - h \in Int
      BY <1>1
    <2> QED  BY <1>12, <2>1
  <1> DEFINE Side == (X <= radius /\ Y = 0) \/ (X = 0 /\ Y <= radius)
             Far == Square(X) + Square(Y + (d - b)) <= Square(radius)
  <1> HIDE DEF a, b, c, d, e, f, g, h, X, Y, o, corner, D, Easy, Corner, In
  <1>14. /\ Corner(1) <=> In(1) /\ Square(a - g) + Square(d - f) <= Square(radius)
         /\ Corner(2) <=> ~In(1) /\ In(2) /\ Square(c - e) + Square(d - f) <= Square(radius)
         /\ Corner(3) <=> ~In(1) /\ ~In(2) /\ In(3) /\ Square(c - e) + Square(d - h) <= Square(radius)
         /\ Corner(4) <=> ~In(1) /\ ~In(2) /\ ~In(3) /\ In(4) /\ Square(a - g) + Square(b - h) <= Square(radius)
    <2>1. /\ \A j : j \notin 1..(1 - 1)
          /\ \A j : j \in 1..(2 - 1) <=> j = 1
          /\ \A j : j \in 1..(3 - 1) <=> j = 1 \/ j = 2
          /\ \A j : j \in 1..(4 - 1) <=> j = 1 \/ j = 2 \/ j = 3
      OBVIOUS
    <2> QED  BY <1>11, <2>1 DEF Corner
  <1> HIDE DEF Corner
  <1>15. (\E k \in 1..4 : Corner(k)) <=> Corner(1) \/ Corner(2) \/ Corner(3) \/ Corner(4)
    <2>1. \A k : k \in 1..4 <=> k = 1 \/ k = 2 \/ k = 3 \/ k = 4
      OBVIOUS
    <2> QED  BY <2>1
  <1>16. ASSUME X <= radius, Y <= radius, ~Side
         PROVE  (\E k \in 1..4 : Corner(k)) <=> IF LowerRightOf THEN Far ELSE D <= Square(radius)
    <2>1. CASE a > g /\ f > d
      <3>1. X = a - g /\ Y = f - d /\ ~LowerRightOf
        BY <1>1, <1>2, <2>1 DEF Gap
      <3>2. In(1)
        BY <1>1, <1>10, <1>16, <2>1, <3>1
      <3>3. Corner(1) <=> D <= Square(radius)
        BY <1>4, <1>13, <1>14, <3>1, <3>2
      <3> QED  BY <1>14, <1>15, <3>1, <3>2, <3>3
    <2>2. CASE e > c /\ f > d
      <3>1. X = e - c /\ Y = f - d /\ ~LowerRightOf
        BY <1>1, <1>2, <2>2 DEF Gap
      <3>2. ~In(1) /\ In(2)
        BY <1>1, <1>10, <1>16, <2>2, <3>1
      <3>3. Corner(2) <=> D <= Square(radius)
        BY <1>4, <1>13, <1>14, <3>1, <3>2
      <3> QED  BY <1>14, <1>15, <3>1, <3>2, <3>3
    <2>3. CASE e > c /\ b > h
      <3>1. X = e - c /\ Y = b - h /\ LowerRightOf
        BY <1>1, <1>2, <2>3 DEF Gap
      <3>2. ~In(1) /\ ~In(2) /\ In(3)
        BY <1>1, <1>10, <1>16, <2>3, <3>1
      <3>3. Corner(3) <=> Far
        BY <1>13, <1>14, <3>1, <3>2
      <3> QED  BY <1>14, <1>15, <3>1, <3>2, <3>3
    <2>4. CASE a > g /\ b > h
      <3>1. X = a - g /\ Y = b - h /\ ~LowerRightOf
        BY <1>1, <1>2, <2>4 DEF Gap
      <3>2. ~In(1) /\ ~In(2) /\ ~In(3) /\ In(4)
        BY <1>1, <1>10, <1>16, <2>4, <3>1
      <3>3. Corner(4) <=> D <= Square(radius)
        BY <1>4, <1>13, <1>14, <3>1, <3>2
      <3> QED  BY <1>14, <1>15, <3>1, <3>2, <3>3
    <2> QED  BY <1>1, <1>2, <1>3, <1>16, <2>1, <2>2, <2>3, <2>4 DEF Gap
  <1>17. Square(X) \in Nat /\ Square(Y) \in Nat /\ Square(Y + (d - b)) \in Nat /\ D \in Nat
         /\ Y + (d - b) \in Nat /\ Y <= Y + (d - b) /\ Square(Y) <= Square(Y + (d - b))
    <2>1. Y + (d - b) \in Nat /\ Y \in Int /\ X \in Int /\ Y <= Y + (d - b)
      BY <1>1, <1>3
    <2>2. Square(X) \in Nat /\ Square(Y) \in Nat /\ Square(Y + (d - b)) \in Nat
      BY <1>12, <2>1
    <2>3. Square(Y) <= Square(Y + (d - b))
      BY <1>3, <1>12, <2>1
    <2> QED  BY <1>4, <2>1, <2>2, <2>3
  <1>18. ASSUME ~(X <= radius /\ Y <= radius)
         PROVE  D > Square(radius) /\ ~Far /\ ~RoundedOverlapsRectangle(o, other)
    <2>1. Square(X) > Square(radius) \/ (Square(Y) > Square(radius) /\ Square(Y + (d - b)) > Square(radius))
      BY <1>3, <1>12, <1>17, <1>18
    <2> QED  BY <1>4, <1>6, <1>8, <1>13, <1>17, <1>18, <2>1
  <1>19. Side => D <= Square(radius) /\ ~LowerRightOf
    <2>1. LowerRightOf => X > 0 /\ Y > 0
      BY <1>1, <1>2 DEF Gap
    <2>2. X = 0 \/ Y = 0 => ~LowerRightOf
      BY <2>1
    <2>3. (X <= radius => Square(X) <= Square(radius)) /\ (Y <= radius => Square(Y) <= Square(radius)) /\ Square(0) = 0
      BY <1>3, <1>12
    <2> QED  BY <1>4, <1>13, <1>17, <2>2, <2>3
  <1>20. RoundedOverlapsRectangle(o, other) <=> IF LowerRightOf THEN Far ELSE D <= Square(radius)
    <2>1. CASE ~(X <= radius /\ Y <= radius)
      <3>1. ~(D <= Square(radius))
        BY <1>13, <1>17, <1>18, <2>1
      <3> QED  BY <1>18, <2>1, <3>1
    <2>2. CASE X <= radius /\ Y <= radius /\ Side
      <3> HIDE DEF Side
      <3> QED  BY <1>6, <1>7, <1>8, <1>19, <2>2 DEF Side
    <2>3. CASE X <= radius /\ Y <= radius /\ ~Side
      BY <1>6, <1>7, <1>8, <1>16, <2>3
    <2> QED  BY <2>1, <2>2, <2>3
  <1>21. Far => D <= Square(radius)
    BY <1>4, <1>13, <1>17
  <1>22. ASSUME LowerRightOf, radius <= d - b PROVE ~Far
    <2>1. Y > 0
      BY <1>1, <1>2, <1>22 DEF Gap
    <2>2. radius < Y + (d - b)
      BY <1>1, <1>3, <1>22, <2>1
    <2>3. Square(radius) < Square(Y + (d - b))
      BY <1>12, <1>17, <2>2
    <2> QED  BY <1>13, <1>17, <2>3
  <1>23. Height(r) = d - b
    BY DEF Height, b, d
  <1> HIDE DEF Far, LowerRightOf
  <1>24. /\ ~LowerRightOf => (RoundedOverlapsRectangle(o, other) <=> D <= Square(radius))
         /\ LowerRightOf => (RoundedOverlapsRectangle(o, other) <=> Far)
         /\ RoundedOverlapsRectangle(o, other) => D <= Square(radius)
         /\ LowerRightOf /\ radius <= Height(r) => ~RoundedOverlapsRectangle(o, other)
    BY <1>20, <1>21, <1>22, <1>23
  <1> QED  BY <1>23, <1>24 DEF o, D, X, Y, Far, LowerRightOf, a, b, c, d, e, f, g, h

-----------------------------------------------------------------------------
(* Instances: what they show of the layout that they are of.                *)

\* Rectangles drawn on layers L for nets N, and instances.
Drawn(L, N) == [form : Boxes, layer : L, net : N, is_connectable : BOOLEAN, listed : BOOLEAN]
InstancesOf(N, P) == [name : N, template : N, lower_left : Points, reflect_vertical : BOOLEAN, rotation : 0..3,
                      ports_generated : BOOLEAN, instance_ports : P]
Shown(i, box) == TranslateRectangle(RotateRectangle(box, i.rotation), i.lower_left)

LEMMA InstanceShows ==
    ASSUME NEW L, NEW N, NEW P, NEW i \in InstancesOf(N, P),
           NEW shapes, shapes.rectangles \in Seq(Drawn(L, N)), NEW k \in DOMAIN shapes.rectangles
    PROVE  InstanceShapes(i, shapes, {}).rectangles[k].form = Shown(i, shapes.rectangles[k].form)
  <1> DEFINE turned == RotateShapes(shapes, i.rotation)
             moved == TranslateShapes(turned, i.lower_left)
             s == shapes.rectangles[k]
  <1>1. s \in Drawn(L, N)
    OBVIOUS
  <1>2. /\ DOMAIN turned.rectangles = DOMAIN shapes.rectangles
        /\ turned.rectangles[k] = [s EXCEPT !.form = RotateRectangle(s.form, i.rotation)]
    BY DEF RotateShapes, EachForm, Kinds
  <1>3. /\ DOMAIN moved.rectangles = DOMAIN shapes.rectangles
        /\ moved.rectangles[k] = [turned.rectangles[k] EXCEPT !.form = TranslateRectangle(@, i.lower_left)]
    BY <1>2 DEF TranslateShapes, EachForm, Kinds
  <1>4. InstanceShapes(i, shapes, {}).rectangles[k] =
            IF moved.rectangles[k].net = NoName \/ moved.rectangles[k].net \in {} THEN moved.rectangles[k]
            ELSE [moved.rectangles[k] EXCEPT !.net = i.name \o @]
    BY <1>3 DEF InstanceShapes, PrefixNetNames, Each, Kinds
  <1>5. moved.rectangles[k].form = Shown(i, s.form)
    BY <1>1, <1>2, <1>3 DEF Shown, Drawn
  <1>6. InstanceShapes(i, shapes, {}).rectangles[k].form = moved.rectangles[k].form
    BY <1>1, <1>2, <1>3, <1>4 DEF Drawn
  <1> QED  BY <1>5, <1>6

LEMMA ShownBox ==
    ASSUME NEW N, NEW P, NEW i \in InstancesOf(N, P), NEW r \in Boxes
    PROVE  LET a == r.lower_left.x
               b == r.lower_left.y
               c == r.upper_right.x
               d == r.upper_right.y
               x == i.lower_left.x
               y == i.lower_left.y
               box == Shown(i, r)
           IN  /\ box \in Boxes
               /\ i.rotation = 0 => /\ box.lower_left.x = a + x /\ box.lower_left.y = b + y
                                    /\ box.upper_right.x = c + x /\ box.upper_right.y = d + y
               /\ i.rotation = 1 => /\ box.lower_left.x = -d + x /\ box.lower_left.y = a + y
                                    /\ box.upper_right.x = -b + x /\ box.upper_right.y = c + y
               /\ i.rotation = 2 => /\ box.lower_left.x = -c + x /\ box.lower_left.y = -d + y
                                    /\ box.upper_right.x = -a + x /\ box.upper_right.y = -b + y
               /\ i.rotation = 3 => /\ box.lower_left.x = b + x /\ box.lower_left.y = -c + y
                                    /\ box.upper_right.x = d + x /\ box.upper_right.y = -a + y
  <1> DEFINE a == r.lower_left.x
             b == r.lower_left.y
             c == r.upper_right.x
             d == r.upper_right.y
             x == i.lower_left.x
             y == i.lower_left.y
             turned == RotateRectangle(r, i.rotation)
  <1>1. a \in Int /\ b \in Int /\ c \in Int /\ d \in Int /\ a <= c /\ b <= d
    BY CoordinatesOf
  <1>2. x \in Int /\ y \in Int /\ i.rotation \in 0..3
    BY DEF InstancesOf, Points
  <1>3. i.rotation % 4 = i.rotation
    BY <1>2
  <1>4. /\ i.rotation = 0 => turned = r
        /\ i.rotation = 1 => turned = Rectangle(Point(-d, a), Point(-b, c))
        /\ i.rotation = 2 => turned = Rectangle(Point(-c, -d), Point(-a, -b))
        /\ i.rotation = 3 => turned = Rectangle(Point(b, -c), Point(d, -a))
    BY <1>2, <1>3, RotatedBox
  <1>5. turned \in Boxes
    <2>1. Origin \in Points
      BY DEF Origin, Points, Point
    <2> QED  BY <1>2, <2>1, BoxesCarryTheirPoints
  <1>6. /\ Shown(i, r).lower_left.x = turned.lower_left.x + x
        /\ Shown(i, r).lower_left.y = turned.lower_left.y + y
        /\ Shown(i, r).upper_right.x = turned.upper_right.x + x
        /\ Shown(i, r).upper_right.y = turned.upper_right.y + y
    BY DEF Shown, TranslateRectangle, Rectangle, Plus, Point
  <1>7. Shown(i, r) \in Boxes
    BY <1>2, <1>5 DEF Boxes, Points, Shown, TranslateRectangle, Rectangle, Plus, Point
  <1>8. \A p, q, s, t : LET box == Rectangle(Point(p, q), Point(s, t))
                        IN  box.lower_left.x = p /\ box.lower_left.y = q /\ box.upper_right.x = s /\ box.upper_right.y = t
    BY DEF Rectangle, Point
  <1> HIDE DEF turned, a, b, c, d, x, y
  <1> QED  BY <1>4, <1>6, <1>7, <1>8 DEF a, b, c, d, x, y

LEMMA ShownInside ==
    ASSUME NEW N, NEW P, NEW i \in InstancesOf(N, P), NEW T \in Boxes, NEW form \in Boxes
    PROVE  EntirelyContains(Shown(i, T), Shown(i, form)) <=> EntirelyContains(T, form)
  <1> DEFINE x == i.lower_left.x
             y == i.lower_left.y
             A == T.lower_left.x
             B == T.lower_left.y
             C == T.upper_right.x
             D == T.upper_right.y
             a == form.lower_left.x
             b == form.lower_left.y
             c == form.upper_right.x
             d == form.upper_right.y
  <1>1. /\ A \in Int /\ B \in Int /\ C \in Int /\ D \in Int /\ a \in Int /\ b \in Int /\ c \in Int /\ d \in Int
        /\ A <= C /\ B <= D /\ a <= c /\ b <= d
    BY CoordinatesOf
  <1>2. x \in Int /\ y \in Int /\ i.rotation \in 0..3
    BY DEF InstancesOf, Points
  <1>3. EntirelyContains(T, form) <=> /\ A <= a /\ a <= C /\ B <= b /\ b <= D
                                      /\ A <= c /\ c <= C /\ B <= d /\ d <= D
    BY DEF EntirelyContains, RectangleIntersects
  <1>4. EntirelyContains(Shown(i, T), Shown(i, form)) <=>
            /\ Shown(i, T).lower_left.x <= Shown(i, form).lower_left.x
            /\ Shown(i, form).lower_left.x <= Shown(i, T).upper_right.x
            /\ Shown(i, T).lower_left.y <= Shown(i, form).lower_left.y
            /\ Shown(i, form).lower_left.y <= Shown(i, T).upper_right.y
            /\ Shown(i, T).lower_left.x <= Shown(i, form).upper_right.x
            /\ Shown(i, form).upper_right.x <= Shown(i, T).upper_right.x
            /\ Shown(i, T).lower_left.y <= Shown(i, form).upper_right.y
            /\ Shown(i, form).upper_right.y <= Shown(i, T).upper_right.y
    BY DEF EntirelyContains, RectangleIntersects
  <1>5. CASE i.rotation = 0
    <2>1. /\ Shown(i, T).lower_left.x = A + x /\ Shown(i, T).lower_left.y = B + y
          /\ Shown(i, T).upper_right.x = C + x /\ Shown(i, T).upper_right.y = D + y
          /\ Shown(i, form).lower_left.x = a + x /\ Shown(i, form).lower_left.y = b + y
          /\ Shown(i, form).upper_right.x = c + x /\ Shown(i, form).upper_right.y = d + y
      BY <1>5, ShownBox
    <2> HIDE DEF A, B, C, D, a, b, c, d, x, y
    <2> QED  BY <1>1, <1>2, <1>3, <1>4, <2>1
  <1>6. CASE i.rotation = 1
    <2>1. /\ Shown(i, T).lower_left.x = -D + x /\ Shown(i, T).lower_left.y = A + y
          /\ Shown(i, T).upper_right.x = -B + x /\ Shown(i, T).upper_right.y = C + y
          /\ Shown(i, form).lower_left.x = -d + x /\ Shown(i, form).lower_left.y = a + y
          /\ Shown(i, form).upper_right.x = -b + x /\ Shown(i, form).upper_right.y = c + y
      BY <1>6, ShownBox
    <2> HIDE DEF A, B, C, D, a, b, c, d, x, y
    <2> QED  BY <1>1, <1>2, <1>3, <1>4, <2>1
  <1>7. CASE i.rotation = 2
    <2>1. /\ Shown(i, T).lower_left.x = -C + x /\ Shown(i, T).lower_left.y = -D + y
          /\ Shown(i, T).upper_right.x = -A + x /\ Shown(i, T).upper_right.y = -B + y
          /\ Shown(i, form).lower_left.x = -c + x /\ Shown(i, form).lower_left.y = -d + y
          /\ Shown(i, form).upper_right.x = -a + x /\ Shown(i, form).upper_right.y = -b + y
      BY <1>7, ShownBox
    <2> HIDE DEF A, B, C, D, a, b, c, d, x, y
    <2> QED  BY <1>1, <1>2, <1>3, <1>4, <2>1
  <1>8. CASE i.rotation = 3
    <2>1. /\ Shown(i, T).lower_left.x = B + x /\ Shown(i, T).lower_left.y = -C + y
          /\ Shown(i, T).upper_right.x = D + x /\ Shown(i, T).upper_right.y = -A + y
          /\ Shown(i, form).lower_left.x = b + x /\ Shown(i, form).lower_left.y = -c + y
          /\ Shown(i, form).upper_right.x = d + x /\ Shown(i, form).upper_right.y = -a + y
      BY <1>8, ShownBox
    <2> HIDE DEF A, B, C, D, a, b, c, d, x, y
    <2> QED  BY <1>1, <1>2, <1>3, <1>4, <2>1
  <1> QED  BY <1>2, <1>5, <1>6, <1>7, <1>8

LEMMA InstanceBounds ==
    ASSUME NEW N, NEW P, NEW i \in InstancesOf(N, P), NEW T \in Boxes
    PROVE  /\ ~i.reflect_vertical => InstanceBoundingBox(i, T) = Shown(i, T)
           /\ i.reflect_vertical => InstanceBoundingBox(i, T)
                                        = TranslateRectangle(MirrorRectangleX(RotateRectangle(T, i.rotation)), i.lower_left)
  BY DEF InstanceBoundingBox, Reflected, Shown, RotateRectangle

\* A shape in the box of a template is shown in the bounds of every instance that is not
\* reflected, however it is turned, and one outside of it is not. The shapes of an instance
\* that is reflected are not reflected: if its template stands on the horizon, what reaches
\* above that is outside of the instance's bounds.
THEOREM ReflectedShapesAreOutside ==
    ASSUME NEW L, NEW N, NEW P, NEW i \in InstancesOf(N, P), NEW T \in Boxes,
           NEW shapes, shapes.rectangles \in Seq(Drawn(L, N)), NEW k \in DOMAIN shapes.rectangles
    PROVE  LET form == shapes.rectangles[k].form
               inside == EntirelyContains(InstanceBoundingBox(i, T), InstanceShapes(i, shapes, {}).rectangles[k].form)
           IN  /\ ~i.reflect_vertical => (inside <=> EntirelyContains(T, form))
               /\ i.reflect_vertical /\ i.rotation = 0 /\ T.lower_left.y = 0 /\ form.upper_right.y > 0 => ~inside
  <1> DEFINE form == shapes.rectangles[k].form
  <1>1. form \in Boxes
    <2>1. shapes.rectangles[k] \in Drawn(L, N)
      OBVIOUS
    <2> QED  BY <2>1 DEF Drawn
  <1>2. InstanceShapes(i, shapes, {}).rectangles[k].form = Shown(i, form)
    BY InstanceShows
  <1>3. /\ T.lower_left.x \in Int /\ T.lower_left.y \in Int /\ T.upper_right.x \in Int /\ T.upper_right.y \in Int
        /\ form.lower_left.x \in Int /\ form.lower_left.y \in Int
        /\ form.upper_right.x \in Int /\ form.upper_right.y \in Int
        /\ form.lower_left.y <= form.upper_right.y /\ T.lower_left.y <= T.upper_right.y
    BY <1>1, CoordinatesOf
  <1>4. i.lower_left.x \in Int /\ i.lower_left.y \in Int /\ i.rotation \in 0..3 /\ i.reflect_vertical \in BOOLEAN
    BY DEF InstancesOf, Points
  <1> HIDE DEF form
  <1>5. EntirelyContains(Shown(i, T), Shown(i, form)) <=> EntirelyContains(T, form)
    BY <1>1, ShownInside
  <1>6. ASSUME i.reflect_vertical, i.rotation = 0, T.lower_left.y = 0, form.upper_right.y > 0
        PROVE  ~EntirelyContains(InstanceBoundingBox(i, T), Shown(i, form))
    <2>1. InstanceBoundingBox(i, T) = TranslateRectangle(MirrorRectangleX(T), i.lower_left)
      <3>1. RotateRectangle(T, i.rotation) = T
        BY <1>6, RotatedBox
      <3> QED  BY <1>6, <3>1, InstanceBounds
    <2>2. InstanceBoundingBox(i, T).upper_right.y = 0 + i.lower_left.y
      BY <1>6, <2>1 DEF TranslateRectangle, MirrorRectangleX, Rectangle, Plus, Point
    <2>3. Shown(i, form).upper_right.y = form.upper_right.y + i.lower_left.y
      BY <1>1, <1>6, ShownBox
    <2> QED  BY <1>3, <1>4, <1>6, <2>2, <2>3 DEF EntirelyContains, RectangleIntersects
  <1> QED  BY <1>2, <1>4, <1>5, <1>6, InstanceBounds DEF form

\* The ports of an instance turn the other way than its bounds: with half turns that is the
\* same, and a port is in the bounds if it is in the box of the template; with quarter turns
\* a port of a template at the origin is out of the bounds unless it is a point at the origin.
THEOREM TurnedPortsAreOutside ==
    ASSUME NEW N, NEW P, NEW i \in InstancesOf(N, P), NEW T \in Boxes, NEW port, port.form \in Boxes,
           ~i.reflect_vertical
    PROVE  LET inside == EntirelyContains(InstanceBoundingBox(i, T), InstancePort(i, port).form)
           IN  /\ i.rotation \in {0, 2} => (inside <=> EntirelyContains(T, port.form))
               /\ i.rotation \in {1, 3} /\ T.lower_left = Origin /\ EntirelyContains(T, port.form)
                      => (inside <=> port.form.upper_right = Origin)
  <1> DEFINE form == port.form
             back == (4 - i.rotation) % 4
             there == TranslateRectangle(RotateRectangle(form, back), i.lower_left)
             bounds == Shown(i, T)
  <1>1. InstancePort(i, port).form = there
    BY DEF InstancePort, Port, Shape, RotateRectangle
  <1>2. InstanceBoundingBox(i, T) = bounds
    BY InstanceBounds
  <1>3. /\ T.lower_left.x \in Int /\ T.lower_left.y \in Int /\ T.upper_right.x \in Int /\ T.upper_right.y \in Int
        /\ form.lower_left.x \in Int /\ form.lower_left.y \in Int
        /\ form.upper_right.x \in Int /\ form.upper_right.y \in Int
        /\ form.lower_left.x <= form.upper_right.x /\ form.lower_left.y <= form.upper_right.y
        /\ form.upper_right = Point(form.upper_right.x, form.upper_right.y)
    BY CoordinatesOf
  <1>4. i.lower_left.x \in Int /\ i.lower_left.y \in Int /\ i.rotation \in 0..3
    BY DEF InstancesOf, Points
  <1>5. form.upper_right = Origin <=> form.upper_right.x = 0 /\ form.upper_right.y = 0
    BY <1>3 DEF Origin, Point
  <1>6. T.lower_left = Origin => T.lower_left.x = 0 /\ T.lower_left.y = 0
    BY DEF Origin, Point
  <1>7. \A w, x, y, z : LET box == TranslateRectangle(Rectangle(Point(w, x), Point(y, z)), i.lower_left)
                        IN  /\ box.lower_left.x = w + i.lower_left.x /\ box.lower_left.y = x + i.lower_left.y
                            /\ box.upper_right.x = y + i.lower_left.x /\ box.upper_right.y = z + i.lower_left.y
    BY DEF TranslateRectangle, Rectangle, Plus, Point
  <1>8. CASE i.rotation \in {0, 2}
    <2>1. back = i.rotation
      BY <1>8
    <2>2. there = Shown(i, form)
      BY <2>1 DEF Shown
    <2>3. EntirelyContains(bounds, there) <=> EntirelyContains(T, form)
      BY <2>2, ShownInside
    <2> QED  BY <1>1, <1>2, <1>8, <2>3
  <1>9. CASE i.rotation = 1
    <2>1. back = 3 /\ back % 4 = 3
      BY <1>9
    <2>2. there = TranslateRectangle(Rectangle(Point(form.lower_left.y, -form.upper_right.x),
                                               Point(form.upper_right.y, -form.lower_left.x)), i.lower_left)
      BY <2>1, RotatedBox
    <2>3. /\ there.lower_left.x = form.lower_left.y + i.lower_left.x
          /\ there.lower_left.y = -form.upper_right.x + i.lower_left.y
          /\ there.upper_right.x = form.upper_right.y + i.lower_left.x
          /\ there.upper_right.y = -form.lower_left.x + i.lower_left.y
      BY <1>7, <2>2
    <2>4. /\ bounds.lower_left.x = -T.upper_right.y + i.lower_left.x
          /\ bounds.lower_left.y = T.lower_left.x + i.lower_left.y
          /\ bounds.upper_right.x = -T.lower_left.y + i.lower_left.x
          /\ bounds.upper_right.y = T.upper_right.x + i.lower_left.y
      BY <1>9, ShownBox
    <2> HIDE DEF there, bounds, form
    <2>5. T.lower_left = Origin /\ EntirelyContains(T, form)
              => (EntirelyContains(bounds, there) <=> form.upper_right = Origin)
      BY <1>3, <1>4, <1>5, <1>6, <2>3, <2>4 DEF EntirelyContains, RectangleIntersects
    <2> QED  BY <1>1, <1>2, <1>9, <2>5 DEF form
  <1>10. CASE i.rotation = 3
    <2>1. back = 1 /\ back % 4 = 1
      BY <1>10
    <2>2. there = TranslateRectangle(Rectangle(Point(-form.upper_right.y, form.lower_left.x),
                                               Point(-form.lower_left.y, form.upper_right.x)), i.lower_left)
      BY <2>1, RotatedBox
    <2>3. /\ there.lower_left.x = -form.upper_right.y + i.lower_left.x
          /\ there.lower_left.y = form.lower_left.x + i.lower_left.y
          /\ there.upper_right.x = -form.lower_left.y + i.lower_left.x
          /\ there.upper_right.y = form.upper_right.x + i.lower_left.y
      BY <1>7, <2>2
    <2>4. /\ bounds.lower_left.x = T.lower_left.y + i.lower_left.x
          /\ bounds.lower_left.y = -T.upper_right.x + i.lower_left.y
          /\ bounds.upper_right.x = T.upper_right.y + i.lower_left.x
          /\ bounds.upper_right.y = -T.lower_left.x + i.lower_left.y
      BY <1>10, ShownBox
    <2> HIDE DEF there, bounds, form
    <2>5. T.lower_left = Origin /\ EntirelyContains(T, form)
              => (EntirelyContains(bounds, there) <=> form.upper_right = Origin)
      BY <1>3, <1>4, <1>5, <1>6, <2>3, <2>4 DEF EntirelyContains, RectangleIntersects
    <2> QED  BY <1>1, <1>2, <1>10, <2>5 DEF form
  <1> QED  BY <1>4, <1>8, <1>9, <1>10

LEMMA HalfTurn ==
    ASSUME NEW r \in Boxes, NEW turns \in 0..3
    PROVE  /\ RotateRectangle(r, (turns + 2) % 4) = MirrorRectangleX(MirrorRectangleY(RotateRectangle(r, turns)))
           /\ RotateRectangle(r, turns) \in Boxes
  <1> DEFINE a == r.lower_left.x
             b == r.lower_left.y
             c == r.upper_right.x
             d == r.upper_right.y
  <1>1. a \in Int /\ b \in Int /\ c \in Int /\ d \in Int /\ a <= c /\ b <= d
        /\ r = Rectangle(Point(a, b), Point(c, d))
    BY CoordinatesOf
  <1>2. \A w, x, y, z \in Int : MirrorRectangleX(MirrorRectangleY(Rectangle(Point(w, x), Point(y, z))))
                                    = Rectangle(Point(-y, -z), Point(-w, -x))
    BY DEF MirrorRectangleX, MirrorRectangleY, Rectangle, Point
  <1>3. \A t \in 0..3 : /\ t = 0 => RotateRectangle(r, t) = Rectangle(Point(a, b), Point(c, d))
                        /\ t = 1 => RotateRectangle(r, t) = Rectangle(Point(-d, a), Point(-b, c))
                        /\ t = 2 => RotateRectangle(r, t) = Rectangle(Point(-c, -d), Point(-a, -b))
                        /\ t = 3 => RotateRectangle(r, t) = Rectangle(Point(b, -c), Point(d, -a))
    <2> TAKE t \in 0..3
    <2>1. t % 4 = t /\ t \in Int
      OBVIOUS
    <2>2. RotateRectangle(r, t) = CASE t = 0 -> r
                                    [] t = 1 -> Rectangle(Point(-d, a), Point(-b, c))
                                    [] t = 2 -> Rectangle(Point(-c, -d), Point(-a, -b))
                                    [] t = 3 -> Rectangle(Point(b, -c), Point(d, -a))
      BY <2>1, RotatedBox
    <2> HIDE DEF a, b, c, d
    <2> QED  BY <1>1, <2>2
  <1>4. /\ (0 + 2) % 4 = 2 /\ (1 + 2) % 4 = 3 /\ (2 + 2) % 4 = 0 /\ (3 + 2) % 4 = 1
        /\ 0 \in 0..3 /\ 1 \in 0..3 /\ 2 \in 0..3 /\ 3 \in 0..3
    OBVIOUS
  <1> HIDE DEF a, b, c, d
  <1>5. /\ -a \in Int /\ -b \in Int /\ -c \in Int /\ -d \in Int
        /\ -(-a) = a /\ -(-b) = b /\ -(-c) = c /\ -(-d) = d
    BY <1>1
  <1>6. RotateRectangle(r, turns) \in Boxes
    <2>1. \A w, x, y, z \in Int : w <= y /\ x <= z => Rectangle(Point(w, x), Point(y, z)) \in Boxes
      BY DEF Rectangle, Point, Boxes, Points
    <2>2. turns = 0 \/ turns = 1 \/ turns = 2 \/ turns = 3
      OBVIOUS
    <2>3. -d <= -b /\ -c <= -a
      BY <1>1
    <2> QED  BY <1>1, <1>3, <1>5, <2>1, <2>2, <2>3
  <1>7. CASE turns = 0
    BY <1>1, <1>2, <1>3, <1>4, <1>7
  <1>8. CASE turns = 1
    <2>1. MirrorRectangleX(MirrorRectangleY(Rectangle(Point(-d, a), Point(-b, c))))
              = Rectangle(Point(-(-b), -c), Point(-(-d), -a))
      BY DEF MirrorRectangleX, MirrorRectangleY, Rectangle, Point
    <2> QED  BY <1>3, <1>4, <1>5, <1>6, <1>8, <2>1
  <1>9. CASE turns = 2
    <2>1. MirrorRectangleX(MirrorRectangleY(Rectangle(Point(-c, -d), Point(-a, -b))))
              = Rectangle(Point(-(-a), -(-b)), Point(-(-c), -(-d)))
      BY DEF MirrorRectangleX, MirrorRectangleY, Rectangle, Point
    <2> QED  BY <1>3, <1>4, <1>5, <1>6, <1>9, <2>1
  <1>10. CASE turns = 3
    <2>1. MirrorRectangleX(MirrorRectangleY(Rectangle(Point(b, -c), Point(d, -a))))
              = Rectangle(Point(-d, -(-a)), Point(-b, -(-c)))
      BY DEF MirrorRectangleX, MirrorRectangleY, Rectangle, Point
    <2> QED  BY <1>3, <1>4, <1>5, <1>6, <1>10, <2>1
  <1> QED
    <2>1. turns = 0 \/ turns = 1 \/ turns = 2 \/ turns = 3
      OBVIOUS
    <2> QED  BY <1>6, <1>7, <1>8, <1>9, <1>10, <2>1

LEMMA SameBox ==
    ASSUME NEW r \in Boxes, NEW s \in Boxes,
           r.lower_left.x = s.lower_left.x, r.lower_left.y = s.lower_left.y,
           r.upper_right.x = s.upper_right.x, r.upper_right.y = s.upper_right.y
    PROVE  r = s
  BY DEF Boxes, Points

LEMMA MovedBoxes ==
    ASSUME NEW r \in Boxes, NEW p \in Points
    PROVE  /\ MirrorRectangleX(r) \in Boxes
           /\ MirrorRectangleX(r).lower_left.x = r.lower_left.x /\ MirrorRectangleX(r).lower_left.y = -r.upper_right.y
           /\ MirrorRectangleX(r).upper_right.x = r.upper_right.x /\ MirrorRectangleX(r).upper_right.y = -r.lower_left.y
           /\ MirrorRectangleY(r) \in Boxes
           /\ MirrorRectangleY(r).lower_left.x = -r.upper_right.x /\ MirrorRectangleY(r).lower_left.y = r.lower_left.y
           /\ MirrorRectangleY(r).upper_right.x = -r.lower_left.x /\ MirrorRectangleY(r).upper_right.y = r.upper_right.y
           /\ TranslateRectangle(r, p) \in Boxes
           /\ TranslateRectangle(r, p).lower_left.x = r.lower_left.x + p.x
           /\ TranslateRectangle(r, p).lower_left.y = r.lower_left.y + p.y
           /\ TranslateRectangle(r, p).upper_right.x = r.upper_right.x + p.x
           /\ TranslateRectangle(r, p).upper_right.y = r.upper_right.y + p.y
  BY DEF MirrorRectangleX, MirrorRectangleY, TranslateRectangle, Rectangle, Plus, Point, Boxes, Points

LEMMA Mirrors ==
    ASSUME NEW r \in Boxes, NEW p \in Points
    PROVE  /\ TranslateRectangle(MirrorRectangleX(MirrorRectangleX(MirrorRectangleY(r))), MirrorPointY(p))
                  = MirrorRectangleY(TranslateRectangle(r, p))
           /\ TranslateRectangle(MirrorRectangleX(MirrorRectangleY(r)), MirrorPointY(p))
                  = MirrorRectangleY(TranslateRectangle(MirrorRectangleX(r), p))
           /\ TranslateRectangle(MirrorRectangleX(r), p)
                  = TranslateRectangle(MirrorRectangleX(TranslateRectangle(r, p)), Point(0, 2 * p.y))
           /\ TranslateRectangle(r, p)
                  = TranslateRectangle(MirrorRectangleX(TranslateRectangle(MirrorRectangleX(r), p)), Point(0, 2 * p.y))
  <1> DEFINE X == MirrorRectangleX(r)
             Y == MirrorRectangleY(r)
             XY == MirrorRectangleX(Y)
             XXY == MirrorRectangleX(XY)
             M == MirrorPointY(p)
             U == Point(0, 2 * p.y)
             T == TranslateRectangle(r, p)
             TX == TranslateRectangle(X, p)
  <1>1. /\ M \in Points /\ M.x = -p.x /\ M.y = p.y /\ U \in Points /\ U.x = 0 /\ U.y = 2 * p.y
        /\ p.x \in Int /\ p.y \in Int
    BY DEF MirrorPointY, Points, Point
  <1>2. /\ r.lower_left.x \in Int /\ r.lower_left.y \in Int /\ r.upper_right.x \in Int /\ r.upper_right.y \in Int
    BY CoordinatesOf
  <1>3. /\ X \in Boxes /\ X.lower_left.x = r.lower_left.x /\ X.lower_left.y = -r.upper_right.y
        /\ X.upper_right.x = r.upper_right.x /\ X.upper_right.y = -r.lower_left.y
    BY MovedBoxes
  <1>4. /\ Y \in Boxes /\ Y.lower_left.x = -r.upper_right.x /\ Y.lower_left.y = r.lower_left.y
        /\ Y.upper_right.x = -r.lower_left.x /\ Y.upper_right.y = r.upper_right.y
    BY MovedBoxes
  <1>5. /\ T \in Boxes /\ T.lower_left.x = r.lower_left.x + p.x /\ T.lower_left.y = r.lower_left.y + p.y
        /\ T.upper_right.x = r.upper_right.x + p.x /\ T.upper_right.y = r.upper_right.y + p.y
    BY MovedBoxes
  <1> HIDE DEF X, Y, M, U, T
  <1>6. /\ XY \in Boxes /\ XY.lower_left.x = Y.lower_left.x /\ XY.lower_left.y = -Y.upper_right.y
        /\ XY.upper_right.x = Y.upper_right.x /\ XY.upper_right.y = -Y.lower_left.y
    BY <1>4, MovedBoxes
  <1>7. /\ TX \in Boxes /\ TX.lower_left.x = X.lower_left.x + p.x /\ TX.lower_left.y = X.lower_left.y + p.y
        /\ TX.upper_right.x = X.upper_right.x + p.x /\ TX.upper_right.y = X.upper_right.y + p.y
    BY <1>3, MovedBoxes
  <1> HIDE DEF XY, TX
  <1>8. /\ XXY \in Boxes /\ XXY.lower_left.x = XY.lower_left.x /\ XXY.lower_left.y = -XY.upper_right.y
        /\ XXY.upper_right.x = XY.upper_right.x /\ XXY.upper_right.y = -XY.lower_left.y
    BY <1>6, MovedBoxes
  <1> HIDE DEF XXY
  <1>9. TranslateRectangle(XXY, M) = MirrorRectangleY(T)
    <2> DEFINE V == TranslateRectangle(XXY, M)
               W == MirrorRectangleY(T)
    <2>1. /\ V \in Boxes /\ V.lower_left.x = XXY.lower_left.x + M.x /\ V.lower_left.y = XXY.lower_left.y + M.y
          /\ V.upper_right.x = XXY.upper_right.x + M.x /\ V.upper_right.y = XXY.upper_right.y + M.y
      BY <1>1, <1>8, MovedBoxes
    <2>2. /\ W \in Boxes /\ W.lower_left.x = -T.upper_right.x /\ W.lower_left.y = T.lower_left.y
          /\ W.upper_right.x = -T.lower_left.x /\ W.upper_right.y = T.upper_right.y
      BY <1>5, MovedBoxes
    <2> HIDE DEF V, W
    <2>3. /\ V.lower_left.x = W.lower_left.x /\ V.lower_left.y = W.lower_left.y
          /\ V.upper_right.x = W.upper_right.x /\ V.upper_right.y = W.upper_right.y
      BY <1>1, <1>2, <1>4, <1>5, <1>6, <1>8, <2>1, <2>2
    <2>4. V = W
      BY <2>1, <2>2, <2>3, SameBox
    <2> QED  BY <2>4 DEF V, W
  <1>10. TranslateRectangle(XY, M) = MirrorRectangleY(TX)
    <2> DEFINE V == TranslateRectangle(XY, M)
               W == MirrorRectangleY(TX)
    <2>1. /\ V \in Boxes /\ V.lower_left.x = XY.lower_left.x + M.x /\ V.lower_left.y = XY.lower_left.y + M.y
          /\ V.upper_right.x = XY.upper_right.x + M.x /\ V.upper_right.y = XY.upper_right.y + M.y
      BY <1>1, <1>6, MovedBoxes
    <2>2. /\ W \in Boxes /\ W.lower_left.x = -TX.upper_right.x /\ W.lower_left.y = TX.lower_left.y
          /\ W.upper_right.x = -TX.lower_left.x /\ W.upper_right.y = TX.upper_right.y
      BY <1>7, MovedBoxes
    <2> HIDE DEF V, W
    <2>3. /\ V.lower_left.x = W.lower_left.x /\ V.lower_left.y = W.lower_left.y
          /\ V.upper_right.x = W.upper_right.x /\ V.upper_right.y = W.upper_right.y
      BY <1>1, <1>2, <1>3, <1>4, <1>6, <1>7, <2>1, <2>2
    <2>4. V = W
      BY <2>1, <2>2, <2>3, SameBox
    <2> QED  BY <2>4 DEF V, W
  <1>11. TX = TranslateRectangle(MirrorRectangleX(T), U)
    <2> DEFINE V == MirrorRectangleX(T)
               W == TranslateRectangle(V, U)
    <2>1. /\ V \in Boxes /\ V.lower_left.x = T.lower_left.x /\ V.lower_left.y = -T.upper_right.y
          /\ V.upper_right.x = T.upper_right.x /\ V.upper_right.y = -T.lower_left.y
      BY <1>5, MovedBoxes
    <2> HIDE DEF V
    <2>2. /\ W \in Boxes /\ W.lower_left.x = V.lower_left.x + U.x /\ W.lower_left.y = V.lower_left.y + U.y
          /\ W.upper_right.x = V.upper_right.x + U.x /\ W.upper_right.y = V.upper_right.y + U.y
      BY <1>1, <2>1, MovedBoxes
    <2> HIDE DEF W
    <2>3. /\ TX.lower_left.x = W.lower_left.x /\ TX.lower_left.y = W.lower_left.y
          /\ TX.upper_right.x = W.upper_right.x /\ TX.upper_right.y = W.upper_right.y
      BY <1>1, <1>2, <1>3, <1>5, <1>7, <2>1, <2>2
    <2>4. TX = W
      BY <1>7, <2>2, <2>3, SameBox
    <2> QED  BY <2>4 DEF V, W
  <1>12. T = TranslateRectangle(MirrorRectangleX(TX), U)
    <2> DEFINE V == MirrorRectangleX(TX)
               W == TranslateRectangle(V, U)
    <2>1. /\ V \in Boxes /\ V.lower_left.x = TX.lower_left.x /\ V.lower_left.y = -TX.upper_right.y
          /\ V.upper_right.x = TX.upper_right.x /\ V.upper_right.y = -TX.lower_left.y
      BY <1>7, MovedBoxes
    <2> HIDE DEF V
    <2>2. /\ W \in Boxes /\ W.lower_left.x = V.lower_left.x + U.x /\ W.lower_left.y = V.lower_left.y + U.y
          /\ W.upper_right.x = V.upper_right.x + U.x /\ W.upper_right.y = V.upper_right.y + U.y
      BY <1>1, <2>1, MovedBoxes
    <2> HIDE DEF W
    <2>3. /\ T.lower_left.x = W.lower_left.x /\ T.lower_left.y = W.lower_left.y
          /\ T.upper_right.x = W.upper_right.x /\ T.upper_right.y = W.upper_right.y
      BY <1>1, <1>2, <1>3, <1>5, <1>7, <2>1, <2>2
    <2>4. T = W
      BY <1>5, <2>2, <2>3, SameBox
    <2> QED  BY <2>4 DEF V, W
  <1> QED  BY <1>9, <1>10, <1>11, <1>12 DEF X, Y, XY, XXY, M, U, T, TX

\* A layout with instances; what else it has does not matter here.
LayoutsOf(instances, F) ==
    [shapes : F, instances : Seq(instances), port_names : F, named_points : F, tiling_bounds : F,
     global_nets : F, active_layer : F, previous_layers : F]

\* When a layout is mirrored about the vertical axis every instance shows the mirror image of
\* what it showed; about the horizontal axis it shows that twice its height too high, which is
\* right on the axis only. When it is moved, every instance moves.
THEOREM InstancesMirrorOneWay ==
    ASSUME NEW N, NEW P, NEW F, NEW l \in LayoutsOf(InstancesOf(N, P), F), NEW k \in DOMAIN l.instances,
           NEW T \in Boxes, NEW offset \in Points
    PROVE  LET i == l.instances[k]
               before == InstanceBoundingBox(i, T)
               Showing(m) == InstanceBoundingBox(m.instances[k], T)
           IN  /\ Showing(MirrorLayoutY(l)) = MirrorRectangleY(before)
               /\ Showing(MirrorLayoutX(l)) = TranslateRectangle(MirrorRectangleX(before), Point(0, 2 * i.lower_left.y))
               /\ Showing(MirrorLayoutX(l)) = MirrorRectangleX(before) <=> i.lower_left.y = 0
               /\ Showing(TranslateLayout(l, offset)) = TranslateRectangle(before, offset)
  <1> DEFINE i == l.instances[k]
             turned == RotateRectangle(T, i.rotation)
             before == InstanceBoundingBox(i, T)
             y_mirrored == SetLowerLeft(MirrorInstanceY(i), MirrorPointY(i.lower_left))
             x_mirrored == MirrorInstanceX(i)
  <1>1. i \in InstancesOf(N, P)
    BY DEF LayoutsOf
  <1>2. i.lower_left \in Points /\ i.rotation \in 0..3 /\ i.reflect_vertical \in BOOLEAN
    BY <1>1 DEF InstancesOf
  <1>3. /\ MirrorLayoutY(l).instances[k] = y_mirrored
        /\ MirrorLayoutX(l).instances[k] = x_mirrored
        /\ TranslateLayout(l, offset).instances[k] = TranslateInstance(i, offset)
    BY DEF MirrorLayoutY, MirrorLayoutX, TranslateLayout, Everywhere, LayoutsOf
  <1> HIDE DEF i
  <1>4. /\ y_mirrored.lower_left = MirrorPointY(i.lower_left) /\ y_mirrored.rotation = (i.rotation + 2) % 4
        /\ y_mirrored.reflect_vertical = ~i.reflect_vertical
        /\ x_mirrored.lower_left = i.lower_left /\ x_mirrored.rotation = i.rotation
        /\ x_mirrored.reflect_vertical = ~i.reflect_vertical
        /\ TranslateInstance(i, offset).lower_left = Plus(i.lower_left, offset)
        /\ TranslateInstance(i, offset).rotation = i.rotation
        /\ TranslateInstance(i, offset).reflect_vertical = i.reflect_vertical
    BY <1>1 DEF SetLowerLeft, MirrorInstanceY, MirrorInstanceX, TranslateInstance, InstancesOf
  <1>5. \A m : InstanceBoundingBox(m, T) =
                   TranslateRectangle(IF m.reflect_vertical THEN MirrorRectangleX(RotateRectangle(T, m.rotation))
                                      ELSE RotateRectangle(T, m.rotation), m.lower_left)
    BY DEF InstanceBoundingBox, Reflected, RotateRectangle
  <1>6. /\ turned \in Boxes
        /\ RotateRectangle(T, (i.rotation + 2) % 4) = MirrorRectangleX(MirrorRectangleY(turned))
    BY <1>2, HalfTurn
  <1> HIDE DEF y_mirrored, x_mirrored, turned
  <1>7. before = TranslateRectangle(IF i.reflect_vertical THEN MirrorRectangleX(turned) ELSE turned, i.lower_left)
    BY <1>5 DEF turned
  <1>8. InstanceBoundingBox(y_mirrored, T) = MirrorRectangleY(before)
    <2>1. CASE i.reflect_vertical
      <3>1. InstanceBoundingBox(y_mirrored, T)
                = TranslateRectangle(MirrorRectangleX(MirrorRectangleY(turned)), MirrorPointY(i.lower_left))
        BY <1>4, <1>5, <1>6, <2>1
      <3>2. before = TranslateRectangle(MirrorRectangleX(turned), i.lower_left)
        BY <1>7, <2>1
      <3> QED  BY <1>2, <1>6, <3>1, <3>2, Mirrors
    <2>2. CASE ~i.reflect_vertical
      <3>1. InstanceBoundingBox(y_mirrored, T)
                = TranslateRectangle(MirrorRectangleX(MirrorRectangleX(MirrorRectangleY(turned))),
                                     MirrorPointY(i.lower_left))
        BY <1>4, <1>5, <1>6, <2>2
      <3>2. before = TranslateRectangle(turned, i.lower_left)
        BY <1>7, <2>2
      <3> QED  BY <1>2, <1>6, <3>1, <3>2, Mirrors
    <2> QED  BY <1>2, <2>1, <2>2
  <1>9. InstanceBoundingBox(x_mirrored, T) = TranslateRectangle(MirrorRectangleX(before), Point(0, 2 * i.lower_left.y))
    <2>1. CASE i.reflect_vertical
      <3>1. InstanceBoundingBox(x_mirrored, T) = TranslateRectangle(turned, i.lower_left)
        BY <1>4, <1>5, <2>1 DEF turned
      <3>2. before = TranslateRectangle(MirrorRectangleX(turned), i.lower_left)
        BY <1>7, <2>1
      <3> QED  BY <1>2, <1>6, <3>1, <3>2, Mirrors
    <2>2. CASE ~i.reflect_vertical
      <3>1. InstanceBoundingBox(x_mirrored, T) = TranslateRectangle(MirrorRectangleX(turned), i.lower_left)
        BY <1>4, <1>5, <2>2 DEF turned
      <3>2. before = TranslateRectangle(turned, i.lower_left)
        BY <1>7, <2>2
      <3> QED  BY <1>2, <1>6, <3>1, <3>2, Mirrors
    <2> QED  BY <1>2, <2>1, <2>2
  <1>10. before \in Boxes
    <2>1. MirrorRectangleX(turned) \in Boxes
      BY <1>6 DEF MirrorRectangleX, Boxes, Points, Rectangle, Point
    <2>2. \A b \in Boxes : TranslateRectangle(b, i.lower_left) \in Boxes
      BY <1>2 DEF TranslateRectangle, Boxes, Points, Rectangle, Plus, Point
    <2> QED  BY <1>6, <1>7, <2>1, <2>2
  <1>11. TranslateRectangle(MirrorRectangleX(before), Point(0, 2 * i.lower_left.y)) = MirrorRectangleX(before)
             <=> i.lower_left.y = 0
    <2> DEFINE b == MirrorRectangleX(before)
               y == i.lower_left.y
    <2>1. b \in Boxes
      BY <1>10 DEF MirrorRectangleX, Boxes, Points, Rectangle, Point
    <2>2. y \in Int
      BY <1>2 DEF Points
    <2> HIDE DEF b, y
    <2>3. TranslateRectangle(b, Point(0, 2 * y)).lower_left.y = b.lower_left.y + 2 * y
      BY DEF TranslateRectangle, Rectangle, Plus, Point
    <2>4. y # 0 => TranslateRectangle(b, Point(0, 2 * y)) # b
      BY <2>1, <2>2, <2>3 DEF Boxes, Points
    <2>5. y = 0 => TranslateRectangle(b, Point(0, 2 * y)) = b
      BY <2>1 DEF TranslateRectangle, Rectangle, Plus, Point, Boxes, Points
    <2> QED  BY <2>4, <2>5 DEF b, y
  <1>12. InstanceBoundingBox(TranslateInstance(i, offset), T) = TranslateRectangle(before, offset)
    <2>1. \A b \in Boxes : TranslateRectangle(b, Plus(i.lower_left, offset))
                               = TranslateRectangle(TranslateRectangle(b, i.lower_left), offset)
      BY <1>2 DEF TranslateRectangle, Boxes, Points, Rectangle, Plus, Point
    <2>2. MirrorRectangleX(turned) \in Boxes
      BY <1>6 DEF MirrorRectangleX, Boxes, Points, Rectangle, Point
    <2> QED  BY <1>4, <1>5, <1>6, <1>7, <2>1, <2>2 DEF turned
  <1> HIDE DEF before
  <1> QED  BY <1>3, <1>8, <1>9, <1>11, <1>12 DEF i, before

-----------------------------------------------------------------------------
(* Vias in a row.                                                           *)

LEMMA Quotient ==
    ASSUME NEW a \in Nat, NEW n \in Nat \ {0}
    PROVE  a \div n \in Nat /\ n * (a \div n) <= a /\ a < n * (a \div n) + n
  <1>1. a \div n \in Int /\ a % n \in Int /\ a = n * (a \div n) + (a % n) /\ 0 <= a % n /\ a % n < n
    BY SMT
  <1>2. a \div n >= 0
    BY <1>1
  <1> QED  BY <1>1, <1>2

LEMMA QuotientIsAtLeast ==
    ASSUME NEW a \in Nat, NEW n \in Nat \ {0}, NEW q \in Nat, n * q <= a
    PROVE  q <= a \div n
  <1> DEFINE d == a \div n
  <1>1. d \in Nat /\ a < n * d + n
    BY Quotient
  <1> HIDE DEF d
  <1> SUFFICES ASSUME q > d PROVE FALSE
    BY <1>1 DEF d
  <1>2. q >= d + 1 /\ n \in Int /\ n > 0 /\ d \in Int
    BY <1>1
  <1>3. \A x, y \in Int : x >= 0 /\ y >= 0 => x * y >= 0
    OBVIOUS
  <1>4. n * (q - (d + 1)) >= 0
    BY <1>2, <1>3
  <1>5. n * (q - (d + 1)) = n * q - n * d - n
    BY <1>2
  <1>6. n * q \in Int /\ n * d \in Int
    BY <1>2
  <1> QED  BY <1>1, <1>4, <1>5, <1>6

\* Vias in a row: how many, and what is between them.
LEMMA EvenSpacing ==
    ASSUME NEW length \in Nat, NEW side \in Nat \ {0}, NEW separation \in Nat, side + separation <= length
    PROVE  LET n == length \div (side + separation)
               spacing == (length - n * side) \div n
               At(k) == spacing \div 2 + side \div 2 + (k - 1) * (side + spacing)
           IN  /\ n \in Nat \ {0} /\ spacing \in Nat /\ separation <= spacing
               /\ \A k \in 1..n : /\ At(k) \in Nat
                                  /\ side \div 2 <= At(k)
                                  /\ At(k) - side \div 2 + side <= length
               /\ \A j, k \in 1..n : j < k => At(k) - At(j) >= side + separation
  <1> DEFINE n == length \div (side + separation)
             spacing == (length - n * side) \div n
             At(k) == spacing \div 2 + side \div 2 + (k - 1) * (side + spacing)
  <1>1. \A x, y \in Int : x >= 0 /\ y >= 0 => x * y >= 0
    OBVIOUS
  <1>2. side + separation \in Nat \ {0}
    OBVIOUS
  <1>3. n \in Nat /\ (side + separation) * n <= length
    BY <1>2, Quotient
  <1>4. 1 <= n
    <2>1. (side + separation) * 1 <= length
      OBVIOUS
    <2> QED  BY <1>2, <2>1, QuotientIsAtLeast
  <1> HIDE DEF n
  <1>5. n * side \in Nat /\ n * separation \in Nat /\ n * side + n * separation <= length
    <2>1. n \in Int /\ side \in Int /\ separation \in Int /\ n >= 0 /\ side >= 0 /\ separation >= 0
      BY <1>3
    <2>2. (side + separation) * n = n * side + n * separation
      BY <2>1
    <2>3. n * side >= 0 /\ n * separation >= 0 /\ n * side \in Int /\ n * separation \in Int
      BY <1>1, <2>1
    <2> QED  BY <1>3, <2>2, <2>3
  <1>6. length - n * side \in Nat /\ n \in Nat \ {0}
    BY <1>3, <1>4, <1>5
  <1>7. spacing \in Nat /\ n * spacing <= length - n * side
    BY <1>6, Quotient
  <1>8. separation <= spacing
    <2>1. n * separation <= length - n * side
      BY <1>5
    <2> QED  BY <1>6, <2>1, QuotientIsAtLeast
  <1> HIDE DEF spacing
  <1> DEFINE step == side + spacing
             half == spacing \div 2
             middle == side \div 2
  <1>9. step \in Nat /\ half \in Nat /\ middle \in Nat /\ half <= spacing /\ middle <= side
    BY <1>7
  <1> HIDE DEF step, half, middle
  <1>10. n * step = n * side + n * spacing /\ n * step <= length /\ n * step \in Int
    <2>1. n \in Int /\ spacing \in Int /\ side \in Int
      BY <1>3, <1>7
    <2>2. n * (side + spacing) = n * side + n * spacing
      BY <2>1
    <2>3. n * side \in Int /\ n * spacing \in Int
      BY <2>1
    <2> QED  BY <1>7, <2>2, <2>3 DEF step
  <1>11. ASSUME NEW k \in 1..n
         PROVE  /\ At(k) = half + middle + (k - 1) * step /\ (k - 1) * step \in Int
                /\ At(k) \in Nat
                /\ middle <= At(k)
                /\ At(k) - middle + side <= length
    <2>1. k \in Int /\ n \in Int /\ 1 <= k /\ k <= n /\ step \in Int
      BY <1>3, <1>9
    <2>2. (k - 1) * step >= 0 /\ (n - k) * step >= 0 /\ (k - 1) * step \in Int /\ (n - k) * step \in Int
      BY <1>1, <1>9, <2>1
    <2>3. (k - 1) * step = n * step - (n - k) * step - step
      BY <2>1
    <2>4. half + side <= step
      BY <1>7, <1>9 DEF step
    <2>5. At(k) = half + middle + (k - 1) * step
      BY DEF half, middle, step
    <2> HIDE DEF At
    <2> QED  BY <1>9, <1>10, <2>2, <2>3, <2>4, <2>5
  <1> HIDE DEF At
  <1>12. ASSUME NEW j \in 1..n, NEW k \in 1..n, j < k
         PROVE  At(k) - At(j) >= side + separation
    <2>1. k \in Int /\ j \in Int /\ 0 <= k - j - 1 /\ step \in Int
      BY <1>9, <1>12
    <2>2. (k - j - 1) * step >= 0 /\ (k - j - 1) * step \in Int
      BY <1>1, <1>9, <2>1
    <2>3. (k - 1) * step - (j - 1) * step = (k - j - 1) * step + step
      BY <2>1
    <2>4. side + separation <= step
      BY <1>7, <1>8 DEF step
    <2>5. /\ At(k) = half + middle + (k - 1) * step /\ (k - 1) * step \in Int
          /\ At(j) = half + middle + (j - 1) * step /\ (j - 1) * step \in Int
      BY <1>11
    <2> QED  BY <1>9, <2>2, <2>3, <2>4, <2>5
  <1>13. /\ \A k \in 1..n : At(k) \in Nat /\ middle <= At(k) /\ At(k) - middle + side <= length
         /\ \A j, k \in 1..n : j < k => At(k) - At(j) >= side + separation
    BY <1>11, <1>12
  <1> QED  BY <1>6, <1>7, <1>8, <1>13 DEF middle, At, n, spacing

\* As many vias as fit evenly between two points, on a line to the right or upwards, are drawn
\* between these, as far apart as their layer asks for.
THEOREM DistributedViasKeepApart ==
    ASSUME NEW layer, ViaSide(layer) \in Nat \ {0}, Rules[layer].min_separation \in Nat,
           NEW start \in Points, NEW end \in Points,
           (start.y = end.y /\ start.x < end.x) \/ (start.x = end.x /\ start.y < end.y),
           ViaSide(layer) + Rules[layer].min_separation <= L1Distance(start, end)
    PROVE  LET centres == ViaCentres(layer, start, end, FALSE)
               Via(k) == CentredAt(centres[k], ViaSide(layer), ViaSide(layer))
           IN  /\ DOMAIN centres # {}
               /\ \A k \in DOMAIN centres :
                      /\ start.y = end.y => start.x <= Via(k).lower_left.x /\ Via(k).upper_right.x <= end.x
                      /\ start.x = end.x => start.y <= Via(k).lower_left.y /\ Via(k).upper_right.y <= end.y
               /\ \A j, k \in DOMAIN centres : j # k =>
                      Square(Rules[layer].min_separation) <= ClosestDistanceSquared(Via(j), Via(k))
  <1> DEFINE side == ViaSide(layer)
             separation == Rules[layer].min_separation
             axis == Line(start, end)
             length == L1Distance(start, end)
             n == length \div (side + separation)
             spacing == (length - n * side) \div n
             At(k) == spacing \div 2 + side \div 2 + (k - 1) * (side + spacing)
             centres == ViaCentres(layer, start, end, FALSE)
             Via(k) == CentredAt(centres[k], side, side)
             right == start.y = end.y /\ start.x < end.x
  <1>1. side \in Nat \ {0} /\ separation \in Nat /\ side + separation <= length
    OBVIOUS
  <1>2. start.x \in Int /\ start.y \in Int /\ end.x \in Int /\ end.y \in Int
    BY DEF Points
  <1>3. /\ length \in Nat
        /\ right => length = end.x - start.x
        /\ ~right => length = end.y - start.y
    BY <1>2 DEF L1Distance, Magnitude
  <1>4. centres = [k \in 1..n |-> PointOnLineAtDistance(axis, start, At(k))]
    <2>1. axis.start = start /\ axis.end = end /\ LengthOf(axis) = length
      BY DEF Line, LengthOf
    <2> HIDE DEF length
    <2> QED  BY <2>1 DEF ViaCentres
  <1>5. \A k \in 1..n : /\ At(k) \in Nat /\ side \div 2 <= At(k) /\ At(k) - side \div 2 + side <= length
                        /\ \A j \in 1..n : j < k => At(k) - At(j) >= side + separation
    <2> HIDE DEF length, side, separation
    <2> QED  BY <1>1, <1>3, EvenSpacing
  <1>6. n \in Nat \ {0}
    <2> HIDE DEF length, side, separation
    <2> QED  BY <1>1, <1>3, EvenSpacing
  <1>7. UnitVector(AngleToHorizon(axis)) = IF right THEN Point(1, 0) ELSE Point(0, 1)
    <2>1. AngleToHorizon(axis) = IF right THEN 0 ELSE 1
      BY <1>2 DEF AngleToHorizon, Run, Rise, Line
    <2>2. UnitVector(0) = Point(1, 0) /\ UnitVector(1) = Point(0, 1)
      BY DEF UnitVector, RotatePoint, Point
    <2> QED  BY <2>1, <2>2
  <1> HIDE DEF At, n, spacing, centres, axis
  <1>8. ASSUME NEW k \in 1..n
        PROVE  /\ right => centres[k].x = start.x + At(k) /\ centres[k].y = start.y
               /\ ~right => centres[k].x = start.x /\ centres[k].y = start.y + At(k)
    <2>1. centres[k] = AddComponents(start, At(k), AngleToHorizon(axis))
      BY <1>4 DEF PointOnLineAtDistance
    <2>2. At(k) \in Int
      BY <1>5
    <2>3. CASE right
      <3>1. UnitVector(AngleToHorizon(axis)).x = 1 /\ UnitVector(AngleToHorizon(axis)).y = 0
        BY <1>7, <2>3 DEF Point
      <3>2. centres[k] = Point(start.x + At(k) * 1, start.y + At(k) * 0)
        BY <2>1, <3>1 DEF AddComponents
      <3>3. At(k) * 1 = At(k) /\ At(k) * 0 = 0
        BY <2>2
      <3>4. centres[k].x = start.x + At(k) /\ centres[k].y = start.y
        BY <1>2, <2>2, <3>2, <3>3 DEF Point
      <3> QED  BY <2>3, <3>4
    <2>4. CASE ~right
      <3>1. UnitVector(AngleToHorizon(axis)).x = 0 /\ UnitVector(AngleToHorizon(axis)).y = 1
        BY <1>7, <2>4 DEF Point
      <3>2. centres[k] = Point(start.x + At(k) * 0, start.y + At(k) * 1)
        BY <2>1, <3>1 DEF AddComponents
      <3>3. At(k) * 1 = At(k) /\ At(k) * 0 = 0
        BY <2>2
      <3>4. centres[k].x = start.x /\ centres[k].y = start.y + At(k)
        BY <1>2, <2>2, <3>2, <3>3 DEF Point
      <3> QED  BY <2>4, <3>4
    <2> QED  BY <2>3, <2>4
  <1> DEFINE middle == side \div 2
  <1>9. \A p : CentredAt(p, side, side)
                   = Rectangle(Point(p.x - middle, p.y - middle), Point(p.x - middle + side, p.y - middle + side))
    <2>1. Truncated(side, 2) = side \div 2
      BY <1>1 DEF Truncated, Magnitude
    <2> QED  BY <2>1 DEF CentredAt, RectangleOfSize, Minus, Plus, Point
  <1>10. middle \in Nat /\ middle <= side
    BY <1>1
  <1> HIDE DEF middle, side, separation, length, right, Via
  <1>11. ASSUME NEW k \in 1..n
         PROVE  /\ right => Via(k) = Rectangle(Point(start.x + At(k) - middle, start.y - middle),
                                               Point(start.x + At(k) - middle + side, start.y - middle + side))
                /\ ~right => Via(k) = Rectangle(Point(start.x - middle, start.y + At(k) - middle),
                                                Point(start.x - middle + side, start.y + At(k) - middle + side))
                /\ Via(k) \in Boxes
    <2>1. At(k) \in Int
      BY <1>5
    <2>2. CASE right
      <3>1. Via(k) = Rectangle(Point(start.x + At(k) - middle, start.y - middle),
                               Point(start.x + At(k) - middle + side, start.y - middle + side))
        <4>1. centres[k].x = start.x + At(k) /\ centres[k].y = start.y
          BY <1>8, <2>2
        <4>2. Via(k) = Rectangle(Point(centres[k].x - middle, centres[k].y - middle),
                                 Point(centres[k].x - middle + side, centres[k].y - middle + side))
          BY <1>9 DEF Via
        <4> QED  BY <1>1, <1>2, <1>10, <2>1, <4>1, <4>2
      <3>2. Via(k) \in Boxes
        BY <1>1, <1>2, <1>10, <2>1, <3>1 DEF Boxes, Points, Rectangle, Point
      <3> QED  BY <2>2, <3>1, <3>2
    <2>3. CASE ~right
      <3>1. Via(k) = Rectangle(Point(start.x - middle, start.y + At(k) - middle),
                               Point(start.x - middle + side, start.y + At(k) - middle + side))
        <4>1. centres[k].x = start.x /\ centres[k].y = start.y + At(k)
          BY <1>8, <2>3
        <4>2. Via(k) = Rectangle(Point(centres[k].x - middle, centres[k].y - middle),
                                 Point(centres[k].x - middle + side, centres[k].y - middle + side))
          BY <1>9 DEF Via
        <4> QED  BY <1>1, <1>2, <1>10, <2>1, <4>1, <4>2
      <3>2. Via(k) \in Boxes
        BY <1>1, <1>2, <1>10, <2>1, <3>1 DEF Boxes, Points, Rectangle, Point
      <3> QED  BY <2>3, <3>1, <3>2
    <2> QED  BY <2>2, <2>3
  <1>12. ASSUME NEW k \in 1..n
         PROVE  /\ start.y = end.y => start.x <= Via(k).lower_left.x /\ Via(k).upper_right.x <= end.x
                /\ start.x = end.x => start.y <= Via(k).lower_left.y /\ Via(k).upper_right.y <= end.y
    <2>1. At(k) \in Nat /\ middle <= At(k) /\ At(k) - middle + side <= length
      BY <1>5 DEF middle
    <2>2. CASE right
      <3>1. Via(k).lower_left.x = start.x + At(k) - middle /\ Via(k).upper_right.x = start.x + At(k) - middle + side
        BY <1>11, <2>2 DEF Rectangle, Point
      <3>2. length = end.x - start.x /\ start.x # end.x
        BY <1>2, <1>3, <2>2 DEF right
      <3> QED  BY <1>1, <1>2, <1>10, <2>1, <3>1, <3>2
    <2>3. CASE ~right
      <3>1. Via(k).lower_left.y = start.y + At(k) - middle /\ Via(k).upper_right.y = start.y + At(k) - middle + side
        BY <1>11, <2>3 DEF Rectangle, Point
      <3>2. length = end.y - start.y /\ start.y # end.y
        BY <1>2, <1>3, <2>3 DEF right
      <3> QED  BY <1>1, <1>2, <1>10, <2>1, <3>1, <3>2
    <2> QED  BY <2>2, <2>3
  <1>13. ASSUME NEW j \in 1..n, NEW k \in 1..n, j < k
         PROVE  Square(separation) <= ClosestDistanceSquared(Via(j), Via(k))
    <2> DEFINE X == GapX(Via(j), Via(k))
               Y == GapY(Via(j), Via(k))
    <2>1. At(j) \in Nat /\ At(k) \in Nat /\ At(k) - At(j) >= side + separation
      BY <1>5, <1>13
    <2>2. ASSUME right PROVE separation <= X \/ separation = 0
      <3>1. Via(j).upper_right.x = start.x + At(j) - middle + side /\ Via(k).lower_left.x = start.x + At(k) - middle
        BY <1>11, <2>2 DEF Rectangle, Point
      <3>2. separation <= Via(k).lower_left.x - Via(j).upper_right.x
            /\ Via(k).lower_left.x \in Int /\ Via(j).upper_right.x \in Int
        BY <1>1, <1>2, <1>10, <2>1, <3>1
      <3>3. separation <= X \/ separation = 0
        BY <1>1, <3>2 DEF GapX, Gap
      <3> QED  BY <3>3
    <2>3. ASSUME ~right PROVE separation <= Y \/ separation = 0
      <3>1. Via(j).upper_right.y = start.y + At(j) - middle + side /\ Via(k).lower_left.y = start.y + At(k) - middle
        BY <1>11, <2>3 DEF Rectangle, Point
      <3>2. separation <= Via(k).lower_left.y - Via(j).upper_right.y
            /\ Via(k).lower_left.y \in Int /\ Via(j).upper_right.y \in Int
        BY <1>1, <1>2, <1>10, <2>1, <3>1
      <3>3. separation <= Y \/ separation = 0
        BY <1>1, <3>2 DEF GapY, Gap
      <3> QED  BY <3>3
    <2>4. (separation <= X \/ separation <= Y \/ separation = 0) /\ X \in Int /\ Y \in Int /\ separation \in Int
      <3>1. GapX(Via(j), Via(k)) \in Nat /\ GapY(Via(j), Via(k)) \in Nat
        BY <1>11, ExtendedOverlap
      <3> QED  BY <1>1, <2>2, <2>3, <3>1
    <2>5. ClosestDistanceSquared(Via(j), Via(k)) = Square(X) + Square(Y)
      BY <1>11, DistanceByGaps
    <2> HIDE DEF X, Y
    <2>6. Square(X) \in Nat /\ Square(Y) \in Nat /\ Square(separation) \in Nat
          /\ (separation = 0 => Square(separation) = 0)
      BY <2>4, Squares
    <2>7. /\ separation <= X => Square(separation) <= Square(X)
          /\ separation <= Y => Square(separation) <= Square(Y)
      BY <1>1, <2>4, Squares
    <2> QED  BY <2>4, <2>5, <2>6, <2>7
  <1>14. ASSUME NEW j \in 1..n, NEW k \in 1..n, j # k
         PROVE  Square(separation) <= ClosestDistanceSquared(Via(j), Via(k))
    <2>1. j \in Int /\ k \in Int
      BY <1>6
    <2>2. CASE j < k
      BY <1>13, <2>2
    <2>3. CASE k < j
      <3>1. Square(separation) <= ClosestDistanceSquared(Via(k), Via(j))
        BY <1>13, <2>3
      <3>2. ClosestDistanceSquared(Via(k), Via(j)) = ClosestDistanceSquared(Via(j), Via(k))
        <4>1. Via(j) \in Boxes /\ Via(k) \in Boxes
          BY <1>11
        <4> QED  BY <4>1, DistanceIsOfTheClosest
      <3> QED  BY <3>1, <3>2
    <2> QED  BY <1>14, <2>1, <2>2, <2>3
  <1>15. DOMAIN centres = 1..n /\ 1 \in 1..n
    BY <1>4, <1>6
  <1>16. /\ DOMAIN centres # {}
         /\ \A k \in DOMAIN centres :
                /\ start.y = end.y => start.x <= Via(k).lower_left.x /\ Via(k).upper_right.x <= end.x
                /\ start.x = end.x => start.y <= Via(k).lower_left.y /\ Via(k).upper_right.y <= end.y
         /\ \A j, k \in DOMAIN centres : j # k => Square(separation) <= ClosestDistanceSquared(Via(j), Via(k))
    BY <1>12, <1>14, <1>15
  <1> QED  BY <1>16 DEF Via, centres, side, separation

-----------------------------------------------------------------------------
(* Segments and outlines that overlap.                                      *)

\* Segments along an axis that are not points.
Level == {l \in [start : Points, end : Points] : l.start.y = l.end.y /\ l.start.x # l.end.x}
Upright == {l \in [start : Points, end : Points] : l.start.x = l.end.x /\ l.start.y # l.end.y}

\* What is true of a product by the signs of its factors.
LEMMA Products ==
    ASSUME NEW a \in Int, NEW b \in Int, NEW r \in Int, r # 0
    PROVE  /\ a * r \in Int
           /\ a * r = b * r <=> a = b
           /\ r > 0 => (a * r <= b * r <=> a <= b)
           /\ r < 0 => (a * r <= b * r <=> a >= b)
  <1>1. \A x, y \in Int : x > 0 /\ y > 0 => x * y > 0
    OBVIOUS
  <1> DEFINE d == b - a
  <1>2. d \in Int /\ (-d) \in Int /\ (-r) \in Int
    OBVIOUS
  <1>3. /\ r > 0 /\ d > 0 => d * r > 0
        /\ r > 0 /\ d < 0 => (-d) * r > 0
        /\ r < 0 /\ d > 0 => d * (-r) > 0
        /\ r < 0 /\ d < 0 => (-d) * (-r) > 0
    <2> HIDE DEF d
    <2>1. (d < 0 => -d > 0) /\ (r < 0 => -r > 0)
      BY <1>2
    <2> QED  BY <1>1, <1>2, <2>1
  <1>4. /\ d * r = b * r - a * r /\ (-d) * r = a * r - b * r
        /\ d * (-r) = a * r - b * r /\ (-d) * (-r) = b * r - a * r
    OBVIOUS
  <1>5. a * r \in Int /\ b * r \in Int
    OBVIOUS
  <1>6. d = b - a
    OBVIOUS
  <1>7. a = b => a * r = b * r
    OBVIOUS
  <1> HIDE DEF d
  <1> QED  BY <1>2, <1>3, <1>4, <1>5, <1>6, <1>7

LEMMA ExactQuotient ==
    ASSUME NEW n \in Int, NEW d \in Int, d # 0
    PROVE  Truncated(n * d, d) = n
  <1>1. ASSUME NEW k \in Nat, NEW m \in Nat \ {0}
        PROVE  (k * m) \div m = k
    <2>1. k * m \in Nat
      <3>1. \A x, y \in Int : x >= 0 /\ y >= 0 => x * y >= 0
        OBVIOUS
      <3> QED  BY <3>1
    <2> DEFINE q == (k * m) \div m
    <2>2. q \in Nat /\ m * q <= k * m /\ k * m < m * q + m
      BY <2>1, Quotient
    <2> HIDE DEF q
    <2>3. q * m <= k * m /\ k * m < (q + 1) * m
      BY <2>1, <2>2
    <2>4. q <= k /\ ~(q + 1 <= k)
      <3>1. m \in Int /\ m > 0 /\ q \in Int /\ k \in Int /\ q + 1 \in Int
        BY <2>2
      <3>2. q * m <= k * m <=> q <= k
        BY <3>1, Products
      <3>3. (q + 1) * m <= k * m <=> q + 1 <= k
        BY <3>1, Products
      <3>4. (q + 1) * m \in Int /\ k * m \in Int
        BY <3>1
      <3> QED  BY <2>3, <3>2, <3>3, <3>4
    <2> QED  BY <2>2, <2>4 DEF q
  <1>2. Magnitude(n) \in Nat /\ Magnitude(d) \in Nat \ {0}
    BY DEF Magnitude
  <1>3. Magnitude(n * d) = Magnitude(n) * Magnitude(d) /\ (n # 0 => ((n * d < 0) = (d < 0) <=> n > 0))
    <2>1. \A x, y \in Int : x > 0 /\ y > 0 => x * y > 0
      OBVIOUS
    <2>2. n * d \in Int
      OBVIOUS
    <2>3. CASE n = 0
      BY <1>2, <2>3 DEF Magnitude
    <2>4. CASE n > 0 /\ d > 0
      <3>1. n * d > 0
        BY <2>1, <2>4
      <3> QED  BY <2>2, <2>4, <3>1 DEF Magnitude
    <2>5. CASE n > 0 /\ d < 0
      <3>1. n * (-d) > 0 /\ n * (-d) = -(n * d)
        BY <2>1, <2>5
      <3> QED  BY <2>2, <2>5, <3>1 DEF Magnitude
    <2>6. CASE n < 0 /\ d > 0
      <3>1. (-n) * d > 0 /\ (-n) * d = -(n * d)
        BY <2>1, <2>6
      <3> QED  BY <2>2, <2>6, <3>1 DEF Magnitude
    <2>7. CASE n < 0 /\ d < 0
      <3>1. (-n) * (-d) > 0 /\ (-n) * (-d) = n * d
        BY <2>1, <2>7
      <3> QED  BY <2>2, <2>7, <3>1 DEF Magnitude
    <2> QED  BY <2>3, <2>4, <2>5, <2>6, <2>7
  <1>4. Magnitude(n * d) \div Magnitude(d) = Magnitude(n)
    BY <1>1, <1>2, <1>3
  <1> QED  BY <1>3, <1>4 DEF Truncated, Magnitude

\* The coordinates of segments, and when a point is on one.
LEMMA PointsOfSegments ==
    ASSUME NEW l \in Level \union Upright
    PROVE  /\ l = Line(l.start, l.end) /\ l.start \in Points /\ l.end \in Points
           /\ l.start.x \in Int /\ l.start.y \in Int /\ l.end.x \in Int /\ l.end.y \in Int
           /\ \A p \in Points :
                  WithinBounds(l, p) <=>
                      /\ (l.start.x <= p.x /\ p.x <= l.end.x) \/ (l.end.x <= p.x /\ p.x <= l.start.x)
                      /\ (l.start.y <= p.y /\ p.y <= l.end.y) \/ (l.end.y <= p.y /\ p.y <= l.start.y)
  <1>1. /\ l.start \in Points /\ l.end \in Points /\ l = Line(l.start, l.end)
        /\ l.start.x \in Int /\ l.start.y \in Int /\ l.end.x \in Int /\ l.end.y \in Int
    BY DEF Level, Upright, Points, Line
  <1>2. /\ Min({l.start.x, l.end.x}) = IF l.start.x <= l.end.x THEN l.start.x ELSE l.end.x
        /\ Max({l.start.x, l.end.x}) = IF l.start.x >= l.end.x THEN l.start.x ELSE l.end.x
        /\ Min({l.start.y, l.end.y}) = IF l.start.y <= l.end.y THEN l.start.y ELSE l.end.y
        /\ Max({l.start.y, l.end.y}) = IF l.start.y >= l.end.y THEN l.start.y ELSE l.end.y
    BY <1>1, OfTwo
  <1>3. ASSUME NEW p \in Points
        PROVE  WithinBounds(l, p) <=>
                   /\ (l.start.x <= p.x /\ p.x <= l.end.x) \/ (l.end.x <= p.x /\ p.x <= l.start.x)
                   /\ (l.start.y <= p.y /\ p.y <= l.end.y) \/ (l.end.y <= p.y /\ p.y <= l.start.y)
    <2>1. p.x \in Int /\ p.y \in Int
      BY DEF Points
    <2> QED  BY <1>1, <1>2, <2>1 DEF WithinBounds
  <1> QED  BY <1>1, <1>3

\* An upright and a level line meet in the point that has the one's x and the other's y.
LEMMA LinesCross ==
    ASSUME NEW l \in Upright, NEW m \in Level
    PROVE  LET at == [hit |-> TRUE, incident |-> FALSE, point |-> Point(l.end.x, m.end.y)]
           IN  Intersect(l, m) = at /\ Intersect(m, l) = at
  <1>1. /\ l.start.x \in Int /\ l.start.y \in Int /\ l.end.x \in Int /\ l.end.y \in Int
        /\ m.start.x \in Int /\ m.start.y \in Int /\ m.end.x \in Int /\ m.end.y \in Int
    BY PointsOfSegments
  <1>2. IsVertical(l) /\ ~IsVertical(m)
    BY <1>1 DEF IsVertical, Run, Upright, Level
  <1>3. HeightAt(m, l.end.x) = m.end.y
    <2> DEFINE r == Run(m)
    <2>1. Rise(m) = 0 /\ r \in Int /\ r # 0
      BY <1>1 DEF Rise, Run, Level
    <2> HIDE DEF r
    <2>2. OffsetTimesRun(m) = m.end.y * r /\ m.end.y * r \in Int
      BY <1>1, <2>1 DEF OffsetTimesRun, r
    <2>3. Rise(m) * l.end.x + OffsetTimesRun(m) = m.end.y * r
      BY <1>1, <2>1, <2>2
    <2>4. Truncated(m.end.y * r, r) = m.end.y
      BY <1>1, <2>1, ExactQuotient
    <2> QED  BY <2>3, <2>4 DEF HeightAt, r
  <1> QED  BY <1>2, <1>3 DEF Intersect

\* Two segments across each other are found to meet where they do.
LEMMA CrossingsAreFound ==
    ASSUME NEW l \in Level \union Upright, NEW m \in Level \union Upright,
           l \in Level <=> m \in Upright
    PROVE  /\ IntersectsInMutualBounds(l, m).hit <=> \E p \in Points : WithinBounds(l, p) /\ WithinBounds(m, p)
           /\ ~AreSameInfiniteLine(l, m)
  <1> DEFINE p == IF l \in Upright THEN Point(l.end.x, m.end.y) ELSE Point(m.end.x, l.end.y)
  <1>1. /\ l.start.x \in Int /\ l.start.y \in Int /\ l.end.x \in Int /\ l.end.y \in Int
        /\ m.start.x \in Int /\ m.start.y \in Int /\ m.end.x \in Int /\ m.end.y \in Int
    BY PointsOfSegments
  <1>2. (l \in Upright /\ m \in Level /\ l \notin Level /\ m \notin Upright)
        \/ (m \in Upright /\ l \in Level /\ m \notin Level /\ l \notin Upright)
    BY DEF Level, Upright
  <1>3. Intersect(l, m) = [hit |-> TRUE, incident |-> FALSE, point |-> p]
    BY <1>2, LinesCross
  <1>4. p \in Points /\ p.x \in Int /\ p.y \in Int
    BY <1>1 DEF Points, Point
  <1>5. \A q \in Points : WithinBounds(l, q) /\ WithinBounds(m, q) => q = p
    <2> SUFFICES ASSUME NEW q \in Points, WithinBounds(l, q), WithinBounds(m, q) PROVE q = p
      OBVIOUS
    <2>1. q = Point(q.x, q.y) /\ q.x \in Int /\ q.y \in Int
      BY DEF Points, Point
    <2>2. /\ (l.start.x <= q.x /\ q.x <= l.end.x) \/ (l.end.x <= q.x /\ q.x <= l.start.x)
          /\ (l.start.y <= q.y /\ q.y <= l.end.y) \/ (l.end.y <= q.y /\ q.y <= l.start.y)
          /\ (m.start.x <= q.x /\ q.x <= m.end.x) \/ (m.end.x <= q.x /\ q.x <= m.start.x)
          /\ (m.start.y <= q.y /\ q.y <= m.end.y) \/ (m.end.y <= q.y /\ q.y <= m.start.y)
      BY PointsOfSegments
    <2>3. CASE l \in Upright /\ m \in Level
      <3>1. l.start.x = l.end.x /\ m.start.y = m.end.y
        BY <2>3 DEF Upright, Level
      <3>2. q.x = l.end.x /\ q.y = m.end.y
        BY <1>1, <2>1, <2>2, <3>1
      <3> QED  BY <2>1, <2>3, <3>2
    <2>4. CASE m \in Upright /\ l \in Level /\ l \notin Upright
      <3>1. m.start.x = m.end.x /\ l.start.y = l.end.y
        BY <2>4 DEF Upright, Level
      <3>2. q.x = m.end.x /\ q.y = l.end.y
        BY <1>1, <2>1, <2>2, <3>1
      <3> QED  BY <2>1, <2>4, <3>2
    <2> QED  BY <1>2, <2>3, <2>4
  <1>6. LineIntersects(m, p)
    <2>1. CASE m \in Upright /\ l \notin Upright
      <3>1. IsVertical(m) /\ p.x = m.start.x
        BY <1>1, <2>1 DEF IsVertical, Run, Upright, Point
      <3> QED  BY <3>1 DEF LineIntersects
    <2>2. CASE m \in Level /\ l \in Upright
      <3> DEFINE r == Run(m)
      <3>1. ~IsVertical(m) /\ Rise(m) = 0 /\ r \in Int /\ r # 0 /\ p.y = m.end.y
        BY <1>1, <2>2 DEF IsVertical, Run, Rise, Level, Point
      <3> HIDE DEF r, p
      <3>2. OffsetTimesRun(m) = m.end.y * r - 0 * m.end.x
        BY <3>1 DEF OffsetTimesRun, r
      <3>3. p.y * r - Rise(m) * p.x - OffsetTimesRun(m) = 0
        BY <1>1, <1>4, <3>1, <3>2
      <3>4. Magnitude(0) < Magnitude(r)
        BY <3>1 DEF Magnitude
      <3> QED  BY <3>1, <3>3, <3>4 DEF LineIntersects, r
    <2> QED  BY <1>2, <2>1, <2>2
  <1> HIDE DEF p
  <1>7. IntersectsInMutualBounds(l, m).hit <=> WithinBounds(l, p) /\ WithinBounds(m, p)
    <2> DEFINE i == IntersectsInBounds(l, m, FALSE, FALSE)
    <2>1. /\ i.hit <=> WithinBounds(l, p)
          /\ i.incident = FALSE
          /\ WithinBounds(l, p) => i.point = p
      <3>1. Intersect(l, m).hit = TRUE /\ Intersect(l, m).incident = FALSE /\ Intersect(l, m).point = p
        BY <1>3
      <3>2. CASE WithinBounds(l, p)
        BY <3>1, <3>2 DEF IntersectsInBounds
      <3>3. CASE ~WithinBounds(l, p)
        BY <3>1, <3>3 DEF IntersectsInBounds
      <3> QED  BY <3>2, <3>3
    <2>2. IntersectsInMutualBounds(l, m).hit <=> i.hit /\ PointIntersectsInBounds(m, i.point)
      <3> HIDE DEF i
      <3>1. i = IntersectsInBounds(l, m, FALSE, FALSE)
        BY DEF i
      <3> QED  BY <2>1, <3>1 DEF IntersectsInMutualBounds
    <2> HIDE DEF i
    <2> QED  BY <1>6, <2>1, <2>2 DEF PointIntersectsInBounds
  <1>8. ~AreSameInfiniteLine(l, m)
    BY <1>1, <1>2 DEF AreSameInfiniteLine, IsVertical, Run, Level, Upright
  <1> QED  BY <1>4, <1>5, <1>7, <1>8

\* On one axis: the ends of a segment from c to d measured along one from a to b.
LEMMA Overlaps ==
    ASSUME NEW a \in Int, NEW b \in Int, NEW c \in Int, NEW d \in Int, a # b, c # d
    PROVE  LET On(s, t, p) == (s <= p /\ p <= t) \/ (t <= p /\ p <= s)
               overlap == (c - a) * (b - a) <= (b - a) * (b - a) /\ 0 <= (d - a) * (b - a)
               opposite == (b - a) * (d - c) < 0
               meet == \E p \in Int : On(a, b, p) /\ On(c, d, p)
           IN  /\ overlap => meet
               /\ ~opposite => (overlap <=> meet)
               /\ opposite => (overlap <=> On(a, b, c) /\ On(a, b, d))
  <1> DEFINE On(s, t, p) == (s <= p /\ p <= t) \/ (t <= p /\ p <= s)
             overlap == (c - a) * (b - a) <= (b - a) * (b - a) /\ 0 <= (d - a) * (b - a)
             opposite == (b - a) * (d - c) < 0
             meet == \E p \in Int : On(a, b, p) /\ On(c, d, p)
             r == b - a
             s == c - a
             t == d - a
             u == d - c
  <1>1. r \in Int /\ r # 0 /\ s \in Int /\ t \in Int /\ u \in Int /\ u # 0 /\ 0 \in Int
    OBVIOUS
  <1>2. overlap <=> IF b > a THEN c <= b /\ a <= d ELSE c >= b /\ a >= d
    <2>1. overlap <=> s * r <= r * r /\ 0 <= t * r
      OBVIOUS
    <2>2. (b > a <=> r > 0) /\ (b < a <=> r < 0) /\ (s <= r <=> c <= b) /\ (s >= r <=> c >= b)
          /\ (0 <= t <=> a <= d) /\ (0 >= t <=> a >= d)
      OBVIOUS
    <2> HIDE DEF r, s, t
    <2>3. 0 * r = 0
      BY <1>1
    <2>4. /\ r > 0 => (s * r <= r * r <=> s <= r) /\ (0 * r <= t * r <=> 0 <= t)
          /\ r < 0 => (s * r <= r * r <=> s >= r) /\ (0 * r <= t * r <=> 0 >= t)
      BY <1>1, Products
    <2> QED  BY <1>1, <2>1, <2>2, <2>3, <2>4
  <1>3. opposite <=> ((b > a) <=> (d < c))
    <2>1. opposite <=> ~(0 <= u * r)
      <3>1. (b - a) * (d - c) = u * r /\ u * r \in Int
        OBVIOUS
      <3> HIDE DEF u, r
      <3> QED  BY <3>1
    <2>2. (b > a <=> r > 0) /\ (b < a <=> r < 0) /\ (d < c <=> u < 0)
      OBVIOUS
    <2> HIDE DEF r, u
    <2>3. 0 * r = 0
      BY <1>1
    <2>4. /\ r > 0 => (0 * r <= u * r <=> 0 <= u)
          /\ r < 0 => (0 * r <= u * r <=> 0 >= u)
      BY <1>1, Products
    <2> QED  BY <1>1, <2>1, <2>2, <2>3, <2>4
  <1> HIDE DEF overlap, opposite, r, s, t, u
  <1>4. meet <=> On(a, b, c) \/ On(a, b, d) \/ On(c, d, a)
    <2>1. meet => On(a, b, c) \/ On(a, b, d) \/ On(c, d, a)
      OBVIOUS
    <2>2. On(a, b, c) => meet
      <3>1. On(c, d, c)
        OBVIOUS
      <3> HIDE DEF On
      <3> QED  BY <3>1
    <2>3. On(a, b, d) => meet
      <3>1. On(c, d, d)
        OBVIOUS
      <3> HIDE DEF On
      <3> QED  BY <3>1
    <2>4. On(c, d, a) => meet
      <3>1. On(a, b, a)
        OBVIOUS
      <3> HIDE DEF On
      <3> QED  BY <3>1
    <2> QED  BY <2>1, <2>2, <2>3, <2>4
  <1> HIDE DEF meet
  <1>5. /\ overlap => meet
        /\ ~opposite => (overlap <=> meet)
        /\ opposite => (overlap <=> On(a, b, c) /\ On(a, b, d))
    BY <1>2, <1>3, <1>4
  <1> QED  BY <1>5 DEF overlap, opposite, meet

\* Parallel segments: on one line or never together.
LEMMA ParallelsAreFound ==
    ASSUME NEW l, NEW m, (l \in Level /\ m \in Level) \/ (l \in Upright /\ m \in Upright)
    PROVE  /\ IntersectsInMutualBounds(l, m).hit <=>
                  /\ AreSameInfiniteLine(l, m)
                  /\ ProjectionTimesSquare(l, m.start) <= ProjectionTimesSquare(l, l.end)
                  /\ 0 <= ProjectionTimesSquare(l, m.end)
           /\ l \in Level => (AreSameInfiniteLine(l, m) <=> l.start.y = m.start.y)
           /\ l \in Upright => (AreSameInfiniteLine(l, m) <=> l.start.x = m.start.x)
  <1>1. /\ l.start.x \in Int /\ l.start.y \in Int /\ l.end.x \in Int /\ l.end.y \in Int
        /\ m.start.x \in Int /\ m.start.y \in Int /\ m.end.x \in Int /\ m.end.y \in Int
    BY PointsOfSegments
  <1>2. /\ l \in Level => /\ l.start.y = l.end.y /\ m.start.y = m.end.y
                          /\ l.start.x # l.end.x /\ m.start.x # m.end.x
                          /\ ~IsVertical(l) /\ ~IsVertical(m) /\ Rise(l) = 0 /\ Rise(m) = 0
        /\ l \in Upright => l.start.x = l.end.x /\ m.start.x = m.end.x /\ IsVertical(l) /\ IsVertical(m)
        /\ (l \in Level /\ l \notin Upright) \/ (l \in Upright /\ l \notin Level)
    BY <1>1 DEF Level, Upright, IsVertical, Run, Rise
  <1>3. l \in Level => (AreSameInfiniteLine(l, m) <=> l.start.y = m.start.y) /\ SameGradient(l, m)
    <2> SUFFICES ASSUME l \in Level
                 PROVE  (AreSameInfiniteLine(l, m) <=> l.start.y = m.start.y) /\ SameGradient(l, m)
      OBVIOUS
    <2> DEFINE u == Run(l)
               v == Run(m)
    <2>1. u \in Int /\ v \in Int /\ u # 0 /\ v # 0
      BY <1>1, <1>2 DEF Run
    <2> HIDE DEF u, v
    <2>2. SameGradient(l, m)
      <3>1. 0 * v = 0 * u
        BY <2>1
      <3> QED  BY <1>2, <3>1 DEF SameGradient, u, v
    <2>3. OffsetTimesRun(l) = l.end.y * u /\ OffsetTimesRun(m) = m.end.y * v
      <3>1. OffsetTimesRun(l) = l.end.y * u - 0 * l.end.x /\ OffsetTimesRun(m) = m.end.y * v - 0 * m.end.x
        BY <1>2 DEF OffsetTimesRun, u, v
      <3>2. l.end.y * u \in Int /\ m.end.y * v \in Int
        BY <1>1, <2>1
      <3> QED  BY <1>1, <3>1, <3>2
    <2>4. SameOffset(l, m) <=> (l.end.y * u) * v = (m.end.y * v) * u
      BY <2>3 DEF SameOffset, u, v
    <2>5. (l.end.y * u) * v = (m.end.y * v) * u <=> l.end.y = m.end.y
      <3>1. l.end.y * u \in Int /\ m.end.y * u \in Int
        BY <1>1, <2>1
      <3>2. (m.end.y * v) * u = (m.end.y * u) * v
        BY <1>1, <2>1
      <3>3. (l.end.y * u) * v = (m.end.y * u) * v <=> l.end.y * u = m.end.y * u
        BY <2>1, <3>1, Products
      <3>4. l.end.y * u = m.end.y * u <=> l.end.y = m.end.y
        BY <1>1, <2>1, Products
      <3> QED  BY <3>2, <3>3, <3>4
    <2> QED  BY <1>2, <2>2, <2>4, <2>5 DEF AreSameInfiniteLine
  <1>4. l \in Upright => (AreSameInfiniteLine(l, m) <=> l.start.x = m.start.x)
    BY <1>2 DEF AreSameInfiniteLine
  <1> DEFINE same == AreSameInfiniteLine(l, m)
             i == IntersectsInBounds(l, m, FALSE, FALSE)
  <1>5. same \in BOOLEAN
    BY DEF AreSameInfiniteLine
  <1>6. Intersect(l, m).hit = same /\ Intersect(l, m).incident = same
    BY <1>2, <1>3 DEF Intersect
  <1>7. (i.hit <=> same) /\ (i.incident <=> same)
    <2>1. CASE same
      BY <1>6, <2>1 DEF IntersectsInBounds
    <2>2. CASE ~same
      BY <1>6, <2>2 DEF IntersectsInBounds
    <2> QED  BY <2>1, <2>2
  <1>8. IntersectsInMutualBounds(l, m).hit <=>
            /\ same
            /\ ProjectionTimesSquare(l, m.start) <= ProjectionTimesSquare(l, l.end)
            /\ 0 <= ProjectionTimesSquare(l, m.end)
    <2>1. CASE same
      BY <1>7, <2>1 DEF IntersectsInMutualBounds
    <2>2. CASE ~same
      BY <1>7, <2>2 DEF IntersectsInMutualBounds
    <2> QED  BY <2>1, <2>2
  <1> QED  BY <1>3, <1>4, <1>8

\* Whether two segments along the axes meet: what is found is true, and all is found but for
\* segments of one line that run in opposite directions. Of these the second must lie within
\* the first.
THEOREM OpposedSegmentsAreMissed ==
    ASSUME NEW l \in Level \union Upright, NEW m \in Level \union Upright
    PROVE  LET hit == IntersectsInMutualBounds(l, m).hit
               meet == \E p \in Points : WithinBounds(l, p) /\ WithinBounds(m, p)
               opposite == AreSameInfiniteLine(l, m) /\ LineDotProduct(l, m) < 0
           IN  /\ hit => meet
               /\ ~opposite => (hit <=> meet)
               /\ opposite => (hit <=> WithinBounds(l, m.start) /\ WithinBounds(l, m.end))
  <1> DEFINE hit == IntersectsInMutualBounds(l, m).hit
             meet == \E p \in Points : WithinBounds(l, p) /\ WithinBounds(m, p)
             same == AreSameInfiniteLine(l, m)
             opposite == same /\ LineDotProduct(l, m) < 0
             On(s, t, p) == (s <= p /\ p <= t) \/ (t <= p /\ p <= s)
  <1>1. /\ l.start.x \in Int /\ l.start.y \in Int /\ l.end.x \in Int /\ l.end.y \in Int
        /\ m.start.x \in Int /\ m.start.y \in Int /\ m.end.x \in Int /\ m.end.y \in Int
        /\ m.start \in Points /\ m.end \in Points
    BY PointsOfSegments
  <1>2. \A p \in Points : /\ WithinBounds(l, p) <=> On(l.start.x, l.end.x, p.x) /\ On(l.start.y, l.end.y, p.y)
                          /\ WithinBounds(m, p) <=> On(m.start.x, m.end.x, p.x) /\ On(m.start.y, m.end.y, p.y)
    BY PointsOfSegments
  <1>3. \A p : /\ ProjectionTimesSquare(l, p) = (p.x - l.start.x) * (l.end.x - l.start.x)
                                                + (p.y - l.start.y) * (l.end.y - l.start.y)
               /\ LineDotProduct(l, m) = (l.end.x - l.start.x) * (m.end.x - m.start.x)
                                         + (l.end.y - l.start.y) * (m.end.y - m.start.y)
    BY DEF ProjectionTimesSquare, LineDotProduct, DotProduct, Along, Minus, Point
  <1>4. CASE l \in Level <=> m \in Upright
    <2>1. (hit <=> meet) /\ ~same
      BY <1>4, CrossingsAreFound
    <2> QED  BY <2>1
  <1>5. CASE l \in Level /\ m \in Level
    <2> DEFINE a == l.start.x
               b == l.end.x
               c == m.start.x
               d == m.end.x
               overlap == (c - a) * (b - a) <= (b - a) * (b - a) /\ 0 <= (d - a) * (b - a)
               contrary == (b - a) * (d - c) < 0
               common == \E p \in Int : On(a, b, p) /\ On(c, d, p)
    <2>1. /\ l.start.y = l.end.y /\ m.start.y = m.end.y
          /\ a \in Int /\ b \in Int /\ c \in Int /\ d \in Int /\ a # b /\ c # d
      BY <1>1, <1>5 DEF Level
    <2>2. /\ overlap => common
          /\ ~contrary => (overlap <=> common)
          /\ contrary => (overlap <=> On(a, b, c) /\ On(a, b, d))
      <3> HIDE DEF a, b, c, d
      <3> QED  BY <2>1, Overlaps
    <2>3. /\ hit <=> /\ same
                     /\ ProjectionTimesSquare(l, m.start) <= ProjectionTimesSquare(l, l.end)
                     /\ 0 <= ProjectionTimesSquare(l, m.end)
          /\ same <=> l.start.y = m.start.y
      BY <1>5, ParallelsAreFound
    <2>4. /\ ProjectionTimesSquare(l, m.start) = (c - a) * (b - a)
          /\ ProjectionTimesSquare(l, l.end) = (b - a) * (b - a)
          /\ ProjectionTimesSquare(l, m.end) = (d - a) * (b - a)
          /\ LineDotProduct(l, m) = (b - a) * (d - c)
      <3>1. \A u, v \in Int : u * v \in Int
        OBVIOUS
      <3>2. l.end.y - l.start.y = 0
        BY <1>1, <2>1
      <3>3. \A p \in {m.start, m.end, l.end} : /\ (p.y - l.start.y) * 0 = 0
                                             /\ (p.x - a) * (b - a) \in Int
        BY <1>1, <2>1, <3>1
      <3>4. 0 * (m.end.y - m.start.y) = 0 /\ (b - a) * (d - c) \in Int
        BY <1>1, <2>1, <3>1
      <3>5. \A p \in {m.start, m.end, l.end} : ProjectionTimesSquare(l, p) = (p.x - a) * (b - a)
        BY <1>3, <3>2, <3>3
      <3>6. LineDotProduct(l, m) = (b - a) * (d - c)
        BY <1>3, <3>2, <3>4
      <3> QED  BY <3>5, <3>6
    <2>5. (hit <=> same /\ overlap) /\ (opposite <=> same /\ contrary)
      <3> HIDE DEF a, b, c, d, hit, same
      <3> QED  BY <2>3, <2>4
    <2>6. CASE same
      <3>1. meet <=> common
        <4>1. meet => common
          <5> SUFFICES ASSUME NEW p \in Points, WithinBounds(l, p), WithinBounds(m, p) PROVE common
            OBVIOUS
          <5>1. p.x \in Int /\ On(a, b, p.x) /\ On(c, d, p.x)
            BY <1>2 DEF Points
          <5> HIDE DEF On
          <5> QED  BY <5>1
        <4>2. common => meet
          <5> SUFFICES ASSUME NEW p \in Int, On(a, b, p), On(c, d, p) PROVE meet
            OBVIOUS
          <5> DEFINE q == Point(p, l.start.y)
          <5>1. q \in Points /\ q.x = p /\ q.y = l.start.y
            BY <1>1 DEF Points, Point
          <5>2. On(l.start.y, l.end.y, q.y) /\ On(m.start.y, m.end.y, q.y)
            BY <1>1, <2>1, <2>3, <2>6, <5>1
          <5> HIDE DEF On, q
          <5>3. WithinBounds(l, q) /\ WithinBounds(m, q)
            BY <1>2, <5>1, <5>2
          <5> QED  BY <5>1, <5>3
        <4> QED  BY <4>1, <4>2
      <3>2. (WithinBounds(l, m.start) <=> On(a, b, c)) /\ (WithinBounds(l, m.end) <=> On(a, b, d))
        <4>1. On(l.start.y, l.end.y, m.start.y) /\ On(l.start.y, l.end.y, m.end.y)
          BY <1>1, <2>1, <2>3, <2>6
        <4> HIDE DEF On
        <4> QED  BY <1>1, <1>2, <4>1
      <3> HIDE DEF overlap, contrary, common, hit, meet, same, opposite, On, a, b, c, d
      <3>3. /\ hit => meet
            /\ ~opposite => (hit <=> meet)
            /\ opposite => (hit <=> WithinBounds(l, m.start) /\ WithinBounds(l, m.end))
        BY <2>2, <2>5, <2>6, <3>1, <3>2
      <3> QED  BY <3>3 DEF hit, meet, same, opposite
    <2>7. CASE ~same
      <3>1. ~meet
        <4> SUFFICES ASSUME NEW p \in Points, WithinBounds(l, p), WithinBounds(m, p) PROVE FALSE
          OBVIOUS
        <4>1. p.y \in Int /\ On(l.start.y, l.end.y, p.y) /\ On(m.start.y, m.end.y, p.y)
          BY <1>2 DEF Points
        <4> QED  BY <1>1, <2>1, <2>3, <2>7, <4>1
      <3>2. ~hit /\ ~opposite
        BY <2>5, <2>7
      <3> QED  BY <3>1, <3>2
    <2> QED  BY <2>6, <2>7
  <1>6. CASE l \in Upright /\ m \in Upright
    <2> DEFINE a == l.start.y
               b == l.end.y
               c == m.start.y
               d == m.end.y
               overlap == (c - a) * (b - a) <= (b - a) * (b - a) /\ 0 <= (d - a) * (b - a)
               contrary == (b - a) * (d - c) < 0
               common == \E p \in Int : On(a, b, p) /\ On(c, d, p)
    <2>1. /\ l.start.x = l.end.x /\ m.start.x = m.end.x
          /\ a \in Int /\ b \in Int /\ c \in Int /\ d \in Int /\ a # b /\ c # d
      BY <1>1, <1>6 DEF Upright
    <2>2. /\ overlap => common
          /\ ~contrary => (overlap <=> common)
          /\ contrary => (overlap <=> On(a, b, c) /\ On(a, b, d))
      <3> HIDE DEF a, b, c, d
      <3> QED  BY <2>1, Overlaps
    <2>3. /\ hit <=> /\ same
                     /\ ProjectionTimesSquare(l, m.start) <= ProjectionTimesSquare(l, l.end)
                     /\ 0 <= ProjectionTimesSquare(l, m.end)
          /\ same <=> l.start.x = m.start.x
      BY <1>6, ParallelsAreFound
    <2>4. /\ ProjectionTimesSquare(l, m.start) = (c - a) * (b - a)
          /\ ProjectionTimesSquare(l, l.end) = (b - a) * (b - a)
          /\ ProjectionTimesSquare(l, m.end) = (d - a) * (b - a)
          /\ LineDotProduct(l, m) = (b - a) * (d - c)
      <3>1. \A u, v \in Int : u * v \in Int
        OBVIOUS
      <3>2. l.end.x - l.start.x = 0
        BY <1>1, <2>1
      <3>3. \A p \in {m.start, m.end, l.end} : /\ (p.x - l.start.x) * 0 = 0
                                             /\ (p.y - a) * (b - a) \in Int
        BY <1>1, <2>1, <3>1
      <3>4. 0 * (m.end.x - m.start.x) = 0 /\ (b - a) * (d - c) \in Int
        BY <1>1, <2>1, <3>1
      <3>5. \A p \in {m.start, m.end, l.end} : ProjectionTimesSquare(l, p) = (p.y - a) * (b - a)
        BY <1>3, <3>2, <3>3
      <3>6. LineDotProduct(l, m) = (b - a) * (d - c)
        BY <1>3, <3>2, <3>4
      <3> QED  BY <3>5, <3>6
    <2>5. (hit <=> same /\ overlap) /\ (opposite <=> same /\ contrary)
      <3> HIDE DEF a, b, c, d, hit, same
      <3> QED  BY <2>3, <2>4
    <2>6. CASE same
      <3>1. meet <=> common
        <4>1. meet => common
          <5> SUFFICES ASSUME NEW p \in Points, WithinBounds(l, p), WithinBounds(m, p) PROVE common
            OBVIOUS
          <5>1. p.y \in Int /\ On(a, b, p.y) /\ On(c, d, p.y)
            BY <1>2 DEF Points
          <5> HIDE DEF On
          <5> QED  BY <5>1
        <4>2. common => meet
          <5> SUFFICES ASSUME NEW p \in Int, On(a, b, p), On(c, d, p) PROVE meet
            OBVIOUS
          <5> DEFINE q == Point(l.start.x, p)
          <5>1. q \in Points /\ q.y = p /\ q.x = l.start.x
            BY <1>1 DEF Points, Point
          <5>2. On(l.start.x, l.end.x, q.x) /\ On(m.start.x, m.end.x, q.x)
            BY <1>1, <2>1, <2>3, <2>6, <5>1
          <5> HIDE DEF On, q
          <5>3. WithinBounds(l, q) /\ WithinBounds(m, q)
            BY <1>2, <5>1, <5>2
          <5> QED  BY <5>1, <5>3
        <4> QED  BY <4>1, <4>2
      <3>2. (WithinBounds(l, m.start) <=> On(a, b, c)) /\ (WithinBounds(l, m.end) <=> On(a, b, d))
        <4>1. On(l.start.x, l.end.x, m.start.x) /\ On(l.start.x, l.end.x, m.end.x)
          BY <1>1, <2>1, <2>3, <2>6
        <4> HIDE DEF On
        <4> QED  BY <1>1, <1>2, <4>1
      <3> HIDE DEF overlap, contrary, common, hit, meet, same, opposite, On, a, b, c, d
      <3>3. /\ hit => meet
            /\ ~opposite => (hit <=> meet)
            /\ opposite => (hit <=> WithinBounds(l, m.start) /\ WithinBounds(l, m.end))
        BY <2>2, <2>5, <2>6, <3>1, <3>2
      <3> QED  BY <3>3 DEF hit, meet, same, opposite
    <2>7. CASE ~same
      <3>1. ~meet
        <4> SUFFICES ASSUME NEW p \in Points, WithinBounds(l, p), WithinBounds(m, p) PROVE FALSE
          OBVIOUS
        <4>1. p.x \in Int /\ On(l.start.x, l.end.x, p.x) /\ On(m.start.x, m.end.x, p.x)
          BY <1>2 DEF Points
        <4> QED  BY <1>1, <2>1, <2>3, <2>7, <4>1
      <3>2. ~hit /\ ~opposite
        BY <2>5, <2>7
      <3> QED  BY <3>1, <3>2
    <2> QED  BY <2>6, <2>7
  <1> QED  BY <1>4, <1>5, <1>6 DEF Level, Upright

\* A rectangle as a polygon, clockwise.
OutlineOf(r) == <<r.lower_left, UpperLeft(r), r.upper_right, LowerRight(r)>>

LEMMA PartsOfOutlines ==
    ASSUME NEW r \in Boxes
    PROVE  /\ PolygonBoundingBox(OutlineOf(r)) = r
           /\ Range(Edges(OutlineOf(r))) =
                  {Line(r.lower_left, UpperLeft(r)), Line(UpperLeft(r), r.upper_right),
                   Line(r.upper_right, LowerRight(r)), Line(LowerRight(r), r.lower_left)}
  <1> DEFINE p == OutlineOf(r)
  <1>1. /\ p[1] = r.lower_left /\ p[2] = UpperLeft(r) /\ p[3] = r.upper_right /\ p[4] = LowerRight(r)
        /\ DOMAIN p = 1..4 /\ Len(p) = 4 /\ p # <<>>
    BY DEF OutlineOf
  <1>2. 1..4 = {1, 2, 3, 4}
    OBVIOUS
  <1> HIDE DEF p
  <1>3. Range(p) = {r.lower_left, UpperLeft(r), r.upper_right, LowerRight(r)}
    BY <1>1, <1>2 DEF Range
  <1>4. PolygonBoundingBox(p) = r
    <2> DEFINE a == r.lower_left.x
               b == r.lower_left.y
               c == r.upper_right.x
               d == r.upper_right.y
    <2>1. /\ a \in Int /\ b \in Int /\ c \in Int /\ d \in Int /\ a <= c /\ b <= d
          /\ r = Rectangle(Point(a, b), Point(c, d))
      BY CoordinatesOf
    <2>2. /\ r.lower_left = Point(a, b) /\ r.upper_right = Point(c, d)
          /\ UpperLeft(r) = Point(a, d) /\ LowerRight(r) = Point(c, b)
      BY CoordinatesOf DEF UpperLeft, LowerRight
    <2> HIDE DEF a, b, c, d
    <2> DEFINE S == {Point(a, b), Point(a, d), Point(c, d), Point(c, b)}
    <2>3. S \in SUBSET Points
      BY <2>1 DEF Points, Point
    <2>4. /\ \A q \in S : a <= q.x /\ q.x <= c /\ b <= q.y /\ q.y <= d
          /\ \E q \in S : q.x = a
          /\ \E q \in S : q.y = b
          /\ \E q \in S : q.x = c
          /\ \E q \in S : q.y = d
      BY <2>1 DEF Point
    <2>5. Range(p) = S
      BY <1>3, <2>2
    <2> HIDE DEF S
    <2>6. BoundsOf(S) = Rectangle(Point(a, b), Point(c, d))
      BY <2>1, <2>3, <2>4, BoundsAre
    <2> QED  BY <1>1, <2>1, <2>5, <2>6 DEF PolygonBoundingBox
  <1>5. Edges(p) = [i \in 1..4 |-> Line(p[i], p[(i % 4) + 1])]
    BY <1>1 DEF Edges
  <1>6. 1 % 4 = 1 /\ 2 % 4 = 2 /\ 3 % 4 = 3 /\ 4 % 4 = 0
    OBVIOUS
  <1>7. /\ Edges(p)[1] = Line(p[1], p[2]) /\ Edges(p)[2] = Line(p[2], p[3])
        /\ Edges(p)[3] = Line(p[3], p[4]) /\ Edges(p)[4] = Line(p[4], p[1])
        /\ DOMAIN Edges(p) = 1..4
    BY <1>5, <1>6
  <1>8. Range(Edges(p)) = {Line(p[1], p[2]), Line(p[2], p[3]), Line(p[3], p[4]), Line(p[4], p[1])}
    <2> DEFINE edges == Edges(p)
    <2>1. Range(edges) = {edges[1], edges[2], edges[3], edges[4]}
      <3> HIDE DEF edges
      <3>1. DOMAIN edges = {1, 2, 3, 4}
        BY <1>2, <1>7 DEF edges
      <3> QED  BY <3>1 DEF Range
    <2> QED  BY <1>7, <2>1
  <1> QED  BY <1>1, <1>4, <1>8 DEF p

\* The sides of a rectangle, and where they are.
LEMMA SidesAre ==
    ASSUME NEW r \in Boxes, r.lower_left.x < r.upper_right.x, r.lower_left.y < r.upper_right.y
    PROVE  LET left == Line(r.lower_left, UpperLeft(r))
               top == Line(UpperLeft(r), r.upper_right)
               right == Line(r.upper_right, LowerRight(r))
               bottom == Line(LowerRight(r), r.lower_left)
               AtX(x, p) == p.x = x /\ r.lower_left.y <= p.y /\ p.y <= r.upper_right.y
               AtY(y, p) == p.y = y /\ r.lower_left.x <= p.x /\ p.x <= r.upper_right.x
           IN  /\ left \in Upright /\ right \in Upright /\ left \notin Level /\ right \notin Level
               /\ top \in Level /\ bottom \in Level /\ top \notin Upright /\ bottom \notin Upright
               /\ \A p \in Points : /\ WithinBounds(left, p) <=> AtX(r.lower_left.x, p)
                                    /\ WithinBounds(right, p) <=> AtX(r.upper_right.x, p)
                                    /\ WithinBounds(top, p) <=> AtY(r.upper_right.y, p)
                                    /\ WithinBounds(bottom, p) <=> AtY(r.lower_left.y, p)
  <1> DEFINE left == Line(r.lower_left, UpperLeft(r))
             top == Line(UpperLeft(r), r.upper_right)
             right == Line(r.upper_right, LowerRight(r))
             bottom == Line(LowerRight(r), r.lower_left)
             a == r.lower_left.x
             b == r.lower_left.y
             c == r.upper_right.x
             d == r.upper_right.y
  <1>1. /\ a \in Int /\ b \in Int /\ c \in Int /\ d \in Int /\ a < c /\ b < d
        /\ r.lower_left \in Points /\ r.upper_right \in Points /\ UpperLeft(r) \in Points /\ LowerRight(r) \in Points
    BY DEF Boxes, Points, UpperLeft, LowerRight, Point
  <1>2. /\ left.start.x = a /\ left.start.y = b /\ left.end.x = a /\ left.end.y = d
        /\ top.start.x = a /\ top.start.y = d /\ top.end.x = c /\ top.end.y = d
        /\ right.start.x = c /\ right.start.y = d /\ right.end.x = c /\ right.end.y = b
        /\ bottom.start.x = c /\ bottom.start.y = b /\ bottom.end.x = a /\ bottom.end.y = b
    BY DEF Line, UpperLeft, LowerRight, Point
  <1>3. {left, top, right, bottom} \subseteq [start : Points, end : Points]
    BY <1>1 DEF Line
  <1> HIDE DEF left, top, right, bottom, a, b, c, d
  <1>4. /\ left \in Upright /\ right \in Upright /\ left \notin Level /\ right \notin Level
        /\ top \in Level /\ bottom \in Level /\ top \notin Upright /\ bottom \notin Upright
    BY <1>1, <1>2, <1>3 DEF Level, Upright
  <1>5. ASSUME NEW p \in Points
        PROVE  /\ WithinBounds(left, p) <=> p.x = a /\ b <= p.y /\ p.y <= d
               /\ WithinBounds(right, p) <=> p.x = c /\ b <= p.y /\ p.y <= d
               /\ WithinBounds(top, p) <=> p.y = d /\ a <= p.x /\ p.x <= c
               /\ WithinBounds(bottom, p) <=> p.y = b /\ a <= p.x /\ p.x <= c
    <2>1. p.x \in Int /\ p.y \in Int
      BY DEF Points
    <2>2. ASSUME NEW l \in {left, top, right, bottom}
          PROVE  WithinBounds(l, p) <=>
                     /\ (l.start.x <= p.x /\ p.x <= l.end.x) \/ (l.end.x <= p.x /\ p.x <= l.start.x)
                     /\ (l.start.y <= p.y /\ p.y <= l.end.y) \/ (l.end.y <= p.y /\ p.y <= l.start.y)
      <3>1. l \in Level \union Upright
        BY <1>4
      <3> QED  BY <3>1, PointsOfSegments
    <2>3. WithinBounds(left, p) <=> p.x = a /\ b <= p.y /\ p.y <= d
      BY <1>1, <1>2, <2>1, <2>2
    <2>4. WithinBounds(right, p) <=> p.x = c /\ b <= p.y /\ p.y <= d
      BY <1>1, <1>2, <2>1, <2>2
    <2>5. WithinBounds(top, p) <=> p.y = d /\ a <= p.x /\ p.x <= c
      BY <1>1, <1>2, <2>1, <2>2
    <2>6. WithinBounds(bottom, p) <=> p.y = b /\ a <= p.x /\ p.x <= c
      BY <1>1, <1>2, <2>1, <2>2
    <2> QED  BY <2>3, <2>4, <2>5, <2>6
  <1> QED  BY <1>4, <1>5 DEF left, top, right, bottom, a, b, c, d

\* The outlines of two rectangles are found to overlap exactly when the rectangles do and
\* neither lies inside the other: what is inside a polygon without touching its border is missed.
THEOREM NestedOutlinesAreMissed ==
    ASSUME NEW r \in Boxes, r.lower_left.x < r.upper_right.x, r.lower_left.y < r.upper_right.y,
           NEW other \in Boxes, other.lower_left.x < other.upper_right.x, other.lower_left.y < other.upper_right.y
    PROVE  LET Inside(inner, outer) ==
                   /\ outer.lower_left.x < inner.lower_left.x /\ inner.upper_right.x < outer.upper_right.x
                   /\ outer.lower_left.y < inner.lower_left.y /\ inner.upper_right.y < outer.upper_right.y
           IN  PolygonsOverlap(OutlineOf(r), OutlineOf(other))
                   <=> RectanglesOverlap(r, other) /\ ~Inside(r, other) /\ ~Inside(other, r)
  <1> DEFINE Inside(inner, outer) ==
                 /\ outer.lower_left.x < inner.lower_left.x /\ inner.upper_right.x < outer.upper_right.x
                 /\ outer.lower_left.y < inner.lower_left.y /\ inner.upper_right.y < outer.upper_right.y
             Hit(l, m) == IntersectsInMutualBounds(l, m).hit
             Sides(q) == {Line(q.lower_left, UpperLeft(q)), Line(UpperLeft(q), q.upper_right),
                          Line(q.upper_right, LowerRight(q)), Line(LowerRight(q), q.lower_left)}
             AtX(q, x, p) == p.x = x /\ q.lower_left.y <= p.y /\ p.y <= q.upper_right.y
             AtY(q, y, p) == p.y = y /\ q.lower_left.x <= p.x /\ p.x <= q.upper_right.x
             a == r.lower_left.x
             b == r.lower_left.y
             c == r.upper_right.x
             d == r.upper_right.y
             e == other.lower_left.x
             f == other.lower_left.y
             g == other.upper_right.x
             h == other.upper_right.y
  <1>1. /\ a \in Int /\ b \in Int /\ c \in Int /\ d \in Int /\ a < c /\ b < d
        /\ e \in Int /\ f \in Int /\ g \in Int /\ h \in Int /\ e < g /\ f < h
    BY DEF Boxes, Points
  <1>2. PolygonsOverlap(OutlineOf(r), OutlineOf(other))
            <=> RectanglesOverlap(r, other) /\ \E l \in Sides(r), m \in Sides(other) : Hit(l, m)
    BY PartsOfOutlines DEF PolygonsOverlap
  <1>3. ASSUME NEW q \in {r, other}
        PROVE  /\ Sides(q) \subseteq Level \union Upright
               /\ \A l \in Sides(q), p \in Points :
                      WithinBounds(l, p) => \/ AtX(q, q.lower_left.x, p) \/ AtX(q, q.upper_right.x, p)
                                            \/ AtY(q, q.lower_left.y, p) \/ AtY(q, q.upper_right.y, p)
               /\ \A x \in {q.lower_left.x, q.upper_right.x} :
                      \E l \in Sides(q) \cap Upright : \A p \in Points : AtX(q, x, p) => WithinBounds(l, p)
               /\ \A y \in {q.lower_left.y, q.upper_right.y} :
                      \E l \in Sides(q) \cap Level : \A p \in Points : AtY(q, y, p) => WithinBounds(l, p)
    <2>1. q \in Boxes /\ q.lower_left.x < q.upper_right.x /\ q.lower_left.y < q.upper_right.y
      OBVIOUS
    <2>2. LET left == Line(q.lower_left, UpperLeft(q))
              top == Line(UpperLeft(q), q.upper_right)
              right == Line(q.upper_right, LowerRight(q))
              bottom == Line(LowerRight(q), q.lower_left)
          IN  /\ left \in Upright /\ right \in Upright /\ left \notin Level /\ right \notin Level
              /\ top \in Level /\ bottom \in Level /\ top \notin Upright /\ bottom \notin Upright
              /\ \A p \in Points : /\ WithinBounds(left, p) <=> AtX(q, q.lower_left.x, p)
                                   /\ WithinBounds(right, p) <=> AtX(q, q.upper_right.x, p)
                                   /\ WithinBounds(top, p) <=> AtY(q, q.upper_right.y, p)
                                   /\ WithinBounds(bottom, p) <=> AtY(q, q.lower_left.y, p)
      BY <2>1, SidesAre
    <2> HIDE DEF AtX, AtY
    <2> QED  BY <2>2
  <1>4. ASSUME NEW l \in Sides(r), NEW m \in Sides(other), Hit(l, m)
        PROVE  ~Inside(r, other) /\ ~Inside(other, r)
    <2>1. l \in Level \union Upright /\ m \in Level \union Upright
      BY <1>3
    <2>2. PICK p \in Points : WithinBounds(l, p) /\ WithinBounds(m, p)
      BY <1>4, <2>1, OpposedSegmentsAreMissed
    <2>3. /\ AtX(r, a, p) \/ AtX(r, c, p) \/ AtY(r, b, p) \/ AtY(r, d, p)
          /\ AtX(other, e, p) \/ AtX(other, g, p) \/ AtY(other, f, p) \/ AtY(other, h, p)
      <3> HIDE DEF AtX, AtY, Sides
      <3> QED  BY <1>3, <2>2
    <2>4. p.x \in Int /\ p.y \in Int
      BY DEF Points
    <2> QED  BY <1>1, <2>3, <2>4
  <1>5. ASSUME NEW q \in {r, other}, NEW s \in {r, other},
               NEW x \in {q.lower_left.x, q.upper_right.x}, NEW y \in {s.lower_left.y, s.upper_right.y},
               s.lower_left.x <= x, x <= s.upper_right.x, q.lower_left.y <= y, y <= q.upper_right.y
        PROVE  \E l \in Sides(q) \cap Upright, m \in Sides(s) \cap Level : Hit(l, m) /\ Hit(m, l)
    <2>1. PICK l \in Sides(q) \cap Upright : \A p \in Points : AtX(q, x, p) => WithinBounds(l, p)
      BY <1>3
    <2>2. PICK m \in Sides(s) \cap Level : \A p \in Points : AtY(s, y, p) => WithinBounds(m, p)
      BY <1>3
    <2>3. /\ Point(x, y) \in Points /\ AtX(q, x, Point(x, y)) /\ AtY(s, y, Point(x, y))
      BY <1>1, <1>5 DEF Points, Point
    <2>4. WithinBounds(l, Point(x, y)) /\ WithinBounds(m, Point(x, y))
      <3> HIDE DEF AtX, AtY
      <3> QED  BY <2>1, <2>2, <2>3
    <2>5. Hit(l, m) /\ Hit(m, l)
      <3>1. l \in Level \union Upright /\ m \in Level \union Upright /\ (l \in Level <=> m \in Upright)
        BY <2>1, <2>2 DEF Level, Upright
      <3> QED  BY <2>3, <2>4, <3>1, CrossingsAreFound
    <2> QED  BY <2>5
  <1>6. ASSUME RectanglesOverlap(r, other), ~Inside(r, other), ~Inside(other, r)
        PROVE  \E l \in Sides(r), m \in Sides(other) : Hit(l, m)
    <2>1. \/ \E x \in {a, c}, y \in {f, h} : e <= x /\ x <= g /\ b <= y /\ y <= d
          \/ \E x \in {e, g}, y \in {b, d} : a <= x /\ x <= c /\ f <= y /\ y <= h
      BY <1>1, <1>6 DEF RectanglesOverlap
    <2>2. CASE \E x \in {a, c}, y \in {f, h} : e <= x /\ x <= g /\ b <= y /\ y <= d
      <3> HIDE DEF Sides, Hit
      <3>1. \E l \in Sides(r) \cap Upright, m \in Sides(other) \cap Level : Hit(l, m) /\ Hit(m, l)
        BY <1>5, <2>2
      <3> QED  BY <3>1
    <2>3. CASE \E x \in {e, g}, y \in {b, d} : a <= x /\ x <= c /\ f <= y /\ y <= h
      <3> HIDE DEF Sides, Hit
      <3>1. \E l \in Sides(other) \cap Upright, m \in Sides(r) \cap Level : Hit(l, m) /\ Hit(m, l)
        BY <1>5, <2>3
      <3> QED  BY <3>1
    <2> QED  BY <2>1, <2>2, <2>3
  <1> QED  BY <1>2, <1>4, <1>6
=============================================================================
