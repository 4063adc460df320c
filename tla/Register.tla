---- MODULE Register ----
(***************************************************************************)
(* What a flip-flop promises: its output becomes what its input is just     *)
(* before a rising edge of the clock and changes at no other moment.  The   *)
(* input may change with the rising edge, as it does when another           *)
(* flip-flop on the same clock gives it.                                    *)
(***************************************************************************)
EXTENDS Integers

VARIABLES D, CLK, Q

vars == <<D, CLK, Q>>

Init == D \in {0, 1} /\ CLK \in {0, 1} /\ Q \in {0, 1}

NewData == D' = 1 - D /\ UNCHANGED <<CLK, Q>>
Rise == CLK = 0 /\ CLK' = 1 /\ Q' = D /\ D' \in {0, 1}
Fall == CLK = 1 /\ CLK' = 0 /\ UNCHANGED <<D, Q>>

Next == NewData \/ Rise \/ Fall
Spec == Init /\ [][Next]_vars
=====
