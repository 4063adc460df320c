---- MODULE MCNetMerging ----
\* Instances of NetMerging: four nodes and the orders of two or three of them.
EXTENDS NetMerging

FourNodes == 1..4
MCNames == 1..6
NetOfNode == [n \in Nodes |-> n]

Unnamed(s) == [net |-> Empty, nodes |-> s, target |-> NoTarget]
Pairs == {s \in Nodes \X Nodes : s[1] < s[2]}

\* Pairs of nodes, one triple, and a pair to which the caller gives a net.
Plain == {Unnamed(s) : s \in Pairs \cup {<<3, 2, 4>>}}
             \cup {[net |-> [primary |-> 6, nets |-> {5, 6}], nodes |-> <<4, 1>>,
                    target |-> NoTarget]}
====
