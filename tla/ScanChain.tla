---- MODULE ScanChain ----
(***************************************************************************)
(* The memories of a multiplexer or of a logic tile, each the flip-flop of  *)
(* Cells, as a scan chain: the first takes SCAN_IN, each other the output   *)
(* of the one before it.  All see the clock and its complement at once;     *)
(* their nets settle between two changes of SCAN_IN or CLK.                 *)
(*                                                                         *)
(* That the entry of the first latch is shut before the output of the       *)
(* memory before it has changed, which the two clock buffers of a           *)
(* multiplexer must not upset, is an assumption of the model.  sent is what *)
(* SCAN_IN was at each rising edge and no state of the circuit.             *)
(***************************************************************************)
EXTENDS Cells, Sequences

CONSTANTS NumMemories, input_clock_buffer

VARIABLES SCAN_IN, CLK, memories, sent

vars == <<SCAN_IN, CLK, memories, sent>>

Memories == 0..(NumMemories - 1)

\* The net at D of the k-th memory in scan order.
DataOf(k, scan_in, m) == IF k = 0 THEN scan_in ELSE m[k - 1].Q

Settled(scan_in, clk, m) ==
    \A k \in Memories : Dfxtp(input_clock_buffer, DataOf(k, scan_in, m), clk, m[k])

-----------------------------------------------------------------------------
Init ==
    /\ SCAN_IN \in Bit /\ CLK \in Bit
    /\ memories \in [Memories -> DfxtpNets]
    /\ Settled(SCAN_IN, CLK, memories)
    /\ sent = <<>>

Settle ==
    /\ memories' \in [Memories -> DfxtpNets]
    /\ Settled(SCAN_IN', CLK', memories')
    /\ \A k \in Memories : Keeps(memories[k], memories'[k])

NewData ==
    /\ SCAN_IN' = Not(SCAN_IN) /\ UNCHANGED <<CLK, sent>>
    /\ Settle

ClockEdge ==
    /\ CLK' = Not(CLK) /\ UNCHANGED SCAN_IN
    /\ sent' = IF CLK = 0 THEN Append(sent, SCAN_IN) ELSE sent
    /\ Settle

Next == NewData \/ ClockEdge
Spec == Init /\ [][Next]_vars

-----------------------------------------------------------------------------
\* The k-th memory as a register.
R(k) == INSTANCE Register WITH D <- DataOf(k, SCAN_IN, memories), Q <- memories[k].Q

\* Every memory that has been reached holds the bit that was sent that many edges ago.
HoldsTheWord ==
    \A k \in Memories : k < Len(sent) => memories[k].Q = sent[Len(sent) - k]
=====
