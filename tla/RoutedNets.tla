---- MODULE RoutedNets ----
(***************************************************************************)
(* What the route manager promises its caller, whatever grid it routes on  *)
(* and however it finds its way: nets gain routes one at a time, each of   *)
(* which joins what its net already has, and every net is settled in the   *)
(* end, either as failed or as connected.  Routes stay where they are.     *)
(* What ends all this early is the end of the whole process.               *)
(*                                                                         *)
(* RouteOrders implements this specification.                              *)
(***************************************************************************)
CONSTANTS
    Nets,
    Points,          \* where routes may meet
    Wires,           \* the routes a net may be given
    Exclusive,       \* are nets kept off each other's metal?
    Reaches(_, _),   \* does this route of a net come to this point?
    Shorts(_, _)     \* do these two routes share metal?

VARIABLES
    nodes,           \* net -> the sets of points it is to join
    routes,          \* the routes in place, each with its net
    outcome,         \* net -> "pending", "connected" or "failed"
    aborted          \* has the process ended itself?

vars == <<nodes, routes, outcome, aborted>>

RoutesOf(n) == {p \in routes : p.net = n}

Meet(p, q) == \E v \in Points : Reaches(p, v) /\ Reaches(q, v)

\* No part of S stands apart from the rest.
HangTogether(S) ==
    \A T \in SUBSET S : T \notin {{}, S} => \E p \in T, q \in S \ T : Meet(p, q)

Joined(n) ==
    /\ \A i \in DOMAIN nodes[n] : \E v \in nodes[n][i], p \in RoutesOf(n) : Reaches(p, v)
    /\ HangTogether(RoutesOf(n))

Init ==
    /\ routes = {}
    /\ outcome = [n \in Nets |-> "pending"]
    /\ aborted = FALSE

Extend(n, p) ==
    /\ RoutesOf(n) # {} => \E q \in RoutesOf(n) : Meet(p, q)
    /\ Exclusive => \A q \in routes : q.net # n => ~Shorts(p, q) /\ ~Shorts(q, p)
    /\ routes' = routes \cup {p}

Settle(n) ==
    \/ outcome' = [outcome EXCEPT ![n] = "failed"]
    \/ outcome' = [outcome EXCEPT ![n] = "connected"] /\ Joined(n)'

\* The route that completes a net may settle it too.
Work(n) ==
    /\ outcome[n] = "pending" /\ ~aborted
    /\ UNCHANGED routes \/ \E r \in Wires : Extend(n, [net |-> n, route |-> r])
    /\ UNCHANGED outcome \/ Settle(n)
    /\ UNCHANGED <<nodes, aborted>>

Abort == aborted' = TRUE /\ UNCHANGED <<nodes, routes, outcome>>

Next == (\E n \in Nets : Work(n)) \/ Abort

SafeSpec == Init /\ [][Next]_vars

Spec == SafeSpec /\ \A n \in Nets : <>(outcome[n] # "pending" \/ aborted)
====
