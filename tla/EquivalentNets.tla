---- MODULE EquivalentNets ----
(***************************************************************************)
(* EquivalentNets: a set of names that are the same net, one of which is   *)
(* its primary.  Names are numbers, in the order of the strings they stand *)
(* for; NoName is the empty string.                                        *)
(***************************************************************************)
EXTENDS Integers, FiniteSets

CONSTANT Names

NoName == 0

ASSUME NamesAssumption == Names \subseteq Nat \ {NoName} /\ IsFiniteSet(Names)

\* "The class guarantees that the primary (if not "") always exists in the set
\* of aliases."
Aliases == {e \in [primary : Names \cup {NoName}, nets : SUBSET Names] :
                e.primary \in e.nets \cup {NoName}}

Empty == [primary |-> NoName, nets |-> {}]

First(S) == CHOOSE n \in S : \A m \in S : n <= m

\* Add: the first name that an empty object is given becomes its primary.
AddNames(e, S) ==
    LET added == S \ {NoName}
    IN  [primary |-> IF e.nets = {} /\ added # {} THEN First(added) ELSE e.primary,
         nets |-> e.nets \cup added]

SetPrimary(e, n) == AddNames([e EXCEPT !.primary = n], {n})
====
