---- MODULE RouteSearches ----
(***************************************************************************)
(* RouteOrders with its searches taken apart: a thread that searches holds *)
(* the grid's shared lock from the first step of ShortestPath to the last, *)
(* and InstallPath, under the unique lock, waits until no thread does.     *)
(***************************************************************************)
EXTENDS RouteOrders, ShortestPath

CONSTANT NoSearch

VARIABLE search   \* net -> the search its thread is in, or NoSearch

searchVars == <<vars, search>>

\* The unique lock is free for a thread when nobody reads.
NobodySearches == \A m \in Nets : search[m] = NoSearch

SearchInit == Init /\ search = [n \in Nets |-> NoSearch]

StartSearch(n) ==
    /\ Running(n) /\ search[n] = NoSearch
    /\ \E w \in todo[n] :
        search' = [search EXCEPT ![n] = BeginSearch(w[1], w[Len(w)], linked[n])]
    /\ UNCHANGED vars

PopVertex(n) ==
    /\ search[n] # NoSearch
    /\ search[n].next = {} /\ search[n].queue # <<>>
    /\ search' = [search EXCEPT ![n] = Pop(@, n)]
    /\ UNCHANGED vars

RelaxEdge(n) ==
    /\ search[n] # NoSearch
    /\ \E v \in search[n].next : search' = [search EXCEPT ![n] = Relax(@, v)]
    /\ UNCHANGED vars

\* The lock is let go, and what was found joins the options.
EndSearch(n) ==
    /\ search[n] # NoSearch
    /\ Searched(search[n])
    /\ LET s == search[n] IN
        /\ todo' = [todo EXCEPT ![n] =
                        @ \ {IF s.toNet THEN <<s.begin>> ELSE <<s.begin, s.end>>}]
        /\ \/ Results(s) = {} /\ options' = options
           \/ \E r \in Results(s) : \E o \in OptionsOf(r, n, s.toNet) :
                options' = [options EXCEPT ![n] = @ \cup {o}]
    /\ search' = [search EXCEPT ![n] = NoSearch]
    /\ UNCHANGED <<gridVars, nodes, staged, node, linked, attempts, failed, aborted>>

\* What was found cannot be extended as it should.
AbortSearch(n) ==
    /\ search[n] # NoSearch
    /\ Searched(search[n]) /\ search[n].toNet
    /\ \E r \in Results(search[n]) : CannotExtend(r, n)
    /\ aborted' = TRUE
    /\ UNCHANGED <<gridVars, nodes, staged, orderVars, search>>

\* The steps of an order that are not part of a search.
Between(n) ==
    \/ StartOrder(n) \/ RefuseOrder(n) \/ RetryNode(n) \/ GiveUpNode(n)
    \/ NobodySearches /\ (InstallNext(n) \/ DropUnavailable(n))

SearchStep(n) ==
    /\ ~aborted
    /\ \/ StartSearch(n)
       \/ PopVertex(n)
       \/ RelaxEdge(n)
       \/ EndSearch(n)
       \/ AbortSearch(n)
       \/ Between(n) /\ UNCHANGED <<search, aborted>>

SearchNext == (\E n \in Nets : SearchStep(n)) \/ (AllEnded /\ UNCHANGED search)

SearchSpec == SearchInit /\ [][SearchNext]_searchVars

FairSearchSpec == SearchSpec /\ \A n \in Nets : WF_searchVars(SearchStep(n))
-----------------------------------------------------------------------------
\* Properties.

\* What the steps of a search arrive at is what RouteOrders takes in one step:
\* a cheapest usable path, and none only where there is none.
SearchesAreAtomic == Spec

\* A back-pointer comes from a vertex that was cheaper by the edge at least,
\* though both costs may have been lowered since: following them never runs in
\* a circle and ends at the vertex the search began from.
BackPointersDescend ==
    \A n \in Nets : search[n] # NoSearch =>
        LET s == search[n] IN
        \A v \in DOMAIN s.cost : v # s.begin =>
            s.prev[v] \in DOMAIN s.cost /\ s.cost[s.prev[v]] + StepCost(s.prev[v], v) <= s.cost[v]
====
