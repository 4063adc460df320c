---- MODULE RouterSessions ----
(***************************************************************************)
(* RouterServiceImpl: the handlers of the gRPC service over one table of   *)
(* sessions.  The server runs handlers on its own threads, and nothing     *)
(* guards the table: each access to it is one step here, and the steps of  *)
(* different handlers interleave.  (Two accesses at the same moment are a  *)
(* data race; the outcomes modelled are those of some order of the two.)   *)
(*                                                                         *)
(* A session, and its grid, is named after the call that built it.         *)
(***************************************************************************)
EXTENDS Integers, FiniteSets

CONSTANTS
    Calls,        \* the calls that clients make
    Handlers,     \* bounds: the calls that may be handled at a time
    MaxOrders     \* bound: net_route_orders of one AddRoutes request

ASSUME CallsAssumption == IsFiniteSet(Calls)
ASSUME HandlersAssumption == Handlers \subseteq Nat \ {0} /\ MaxOrders \in Nat

NoSession == "none"
Ids == 1..Cardinality(Calls)

ASSUME SessionAssumption == NoSession \notin Calls

Requests ==
    [op : {"create"}] \cup [op : {"query", "delete"}, id : Ids]
        \cup [op : {"add"}, id : Ids, orders : 0..MaxOrders]

VARIABLES
    handlers,     \* the threads of the server, never changed
    doing,        \* call -> what its handler does next
    request,      \* call -> the request it carries
    session,      \* call -> the session its handler holds
    gridId,       \* call -> next_uuid
    sessions,     \* sessions_: id -> session
    alive,        \* the sessions that exist in memory
    routed,       \* session -> the orders installed in its grid, each as
                  \*            <<call, number>>
    left,         \* call -> the orders it still has to perform
    reply,        \* call -> the reply it has been given
    revoked       \* the Creates whose id was deleted after they had their
                  \*            reply (history)

vars == <<handlers, doing, request, session, gridId, sessions, alive, routed, left, reply, revoked>>

NoRequest == [op |-> "none"]
NoReply == [status |-> "none"]

Init ==
    /\ handlers \in Handlers
    /\ doing = [c \in Calls |-> "waiting"]
    /\ request = [c \in Calls |-> NoRequest]
    /\ session = [c \in Calls |-> NoSession]
    /\ gridId = [c \in Calls |-> 0]
    /\ sessions = [id \in Ids |-> NoSession]
    /\ alive = {}
    /\ routed = [c \in Calls |-> {}]
    /\ left = [c \in Calls |-> {}]
    /\ reply = [c \in Calls |-> NoReply]
    /\ revoked = {}

Created(c) == request[c].op = "create" /\ reply[c].status = "OK"

InHand == {c \in Calls : doing[c] \notin {"waiting", "done"}}

\* A client may name any id, one it was given or not.
Receive(c) ==
    /\ doing[c] = "waiting" /\ Cardinality(InHand) < handlers
    /\ \E r \in Requests :
        /\ request' = [request EXCEPT ![c] = r]
        /\ doing' = [doing EXCEPT ![c] = CASE r.op = "create" -> "building"
                                           [] r.op = "delete" -> "deleting"
                                           [] OTHER -> "finding"]
        /\ left' = [left EXCEPT ![c] = IF r.op = "add" THEN 1..r.orders ELSE {}]
    /\ UNCHANGED <<handlers, session, gridId, sessions, alive, routed, reply, revoked>>

Answer(c, r) ==
    /\ reply' = [reply EXCEPT ![c] = r]
    /\ doing' = [doing EXCEPT ![c] = "done"]

-----------------------------------------------------------------------------
\* CreateRoutingGrid.

\* SetUpRoutingGrid accepts the grid definition, or the session is deleted.
BuildSession(c) ==
    /\ doing[c] = "building"
    /\ alive' = alive \cup {c}
    /\ session' = [session EXCEPT ![c] = c]
    /\ doing' = [doing EXCEPT ![c] = "naming"]
    /\ UNCHANGED <<handlers, request, gridId, sessions, routed, left, reply, revoked>>

RejectDefinition(c) ==
    /\ doing[c] = "building"
    /\ Answer(c, [status |-> "OTHER_ERROR"])
    /\ UNCHANGED <<handlers, request, session, gridId, sessions, alive, routed, left, revoked>>

\* A mutant: the id is counted from the number of sessions.
NameByCount(c) ==
    /\ doing[c] = "naming"
    /\ gridId' = [gridId EXCEPT ![c] = 1 + Cardinality({id \in Ids : sessions[id] # NoSession})]
    /\ doing' = [doing EXCEPT ![c] = "inserting"]
    /\ UNCHANGED <<handlers, request, session, sessions, alive, routed, left, reply, revoked>>

\* NextUUID: the least id that is free; highest_index_ stays 0.
NameGrid(c) ==
    /\ doing[c] = "naming"
    /\ \E id \in Ids :
        /\ sessions[id] = NoSession
        /\ \A lower \in 1..id - 1 : sessions[lower] # NoSession
        /\ gridId' = [gridId EXCEPT ![c] = id]
    /\ doing' = [doing EXCEPT ![c] = "inserting"]
    /\ UNCHANGED <<handlers, request, session, sessions, alive, routed, left, reply, revoked>>

\* A mutant: a session that is not inserted is kept.
InsertAndLeak(c) ==
    /\ doing[c] = "inserting"
    /\ IF sessions[gridId[c]] = NoSession
       THEN sessions' = [sessions EXCEPT ![gridId[c]] = c]
       ELSE UNCHANGED sessions
    /\ Answer(c, [status |-> "OK", id |-> gridId[c]])
    /\ UNCHANGED <<handlers, request, session, gridId, alive, routed, left, revoked>>

\* std::map::insert keeps what is there already, and then the new session is
\* destroyed with the pair that was to be inserted.  The reply is the same.
InsertSession(c) ==
    /\ doing[c] = "inserting"
    /\ IF sessions[gridId[c]] = NoSession
       THEN /\ sessions' = [sessions EXCEPT ![gridId[c]] = c]
            /\ UNCHANGED alive
       ELSE /\ alive' = alive \ {c}
            /\ UNCHANGED sessions
    /\ Answer(c, [status |-> "OK", id |-> gridId[c]])
    /\ UNCHANGED <<handlers, request, session, gridId, routed, left, revoked>>

-----------------------------------------------------------------------------
\* QueryRoutingGrid, AddRoutes and DeleteRoutingGrid.

FindNothing(c) ==
    /\ doing[c] = "finding"
    /\ sessions[request[c].id] = NoSession
    /\ Answer(c, [status |-> "GRID_NOT_FOUND"])
    /\ UNCHANGED <<handlers, request, session, gridId, sessions, alive, routed, left, revoked>>

Query(c) ==
    /\ doing[c] = "finding" /\ request[c].op = "query"
    /\ sessions[request[c].id] # NoSession
    /\ Answer(c, [status |-> "OK"])
    /\ UNCHANGED <<handlers, request, session, gridId, sessions, alive, routed, left, revoked>>

\* A mutant: the pointer that GetSession returns is not checked.
FindUnchecked(c) ==
    /\ doing[c] = "finding" /\ request[c].op = "add"
    /\ session' = [session EXCEPT ![c] = sessions[request[c].id]]
    /\ doing' = [doing EXCEPT ![c] = "routing"]
    /\ UNCHANGED <<handlers, request, gridId, sessions, alive, routed, left, reply, revoked>>

FindSession(c) ==
    /\ doing[c] = "finding" /\ request[c].op = "add"
    /\ sessions[request[c].id] # NoSession
    /\ session' = [session EXCEPT ![c] = sessions[request[c].id]]
    /\ doing' = [doing EXCEPT ![c] = "routing"]
    /\ UNCHANGED <<handlers, request, gridId, sessions, alive, routed, left, reply, revoked>>

\* The next order, which PerformNetRouteOrder routes or fails to.
PerformOrder(c) ==
    /\ doing[c] = "routing" /\ left[c] # {} /\ session[c] \in alive
    /\ \E i \in left[c] :
        /\ \A j \in left[c] : i <= j
        /\ left' = [left EXCEPT ![c] = @ \ {i}]
        /\ \/ UNCHANGED routed
           \/ routed' = [routed EXCEPT ![session[c]] = @ \cup {<<c, i>>}]
    /\ UNCHANGED <<handlers, doing, request, session, gridId, sessions, alive, reply, revoked>>

\* A mutant: only the routes of the last order are exported.
ExportLast(c) ==
    /\ doing[c] = "routing" /\ left[c] = {} /\ session[c] \in alive
    /\ Answer(c, [status |-> "OK",
                  routes |-> routed[session[c]] \cap {<<c, request[c].orders>>}])
    /\ UNCHANGED <<handlers, request, session, gridId, sessions, alive, routed, left, revoked>>

\* ExportRoutes: every route of the grid; the status does not depend on errors.
ExportRoutes(c) ==
    /\ doing[c] = "routing" /\ left[c] = {} /\ session[c] \in alive
    /\ Answer(c, [status |-> "OK", routes |-> routed[session[c]]])
    /\ UNCHANGED <<handlers, request, session, gridId, sessions, alive, routed, left, revoked>>

\* A session that was deleted under its handler: what becomes of the call is
\* undefined, and here it ends without a known reply.
LoseSession(c) ==
    /\ doing[c] = "routing" /\ session[c] \notin alive
    /\ Answer(c, [status |-> "undefined"])
    /\ UNCHANGED <<handlers, request, session, gridId, sessions, alive, routed, left, revoked>>

\* The session goes with its entry.  (The handler erases the id again before
\* it answers; see EraseAgain.)
DeleteSession(c) ==
    /\ doing[c] = "deleting"
    /\ LET id == request[c].id
       IN  IF sessions[id] = NoSession
           THEN /\ Answer(c, [status |-> "GRID_NOT_FOUND"])
                /\ UNCHANGED <<handlers, sessions, alive, revoked>>
           ELSE /\ sessions' = [sessions EXCEPT ![id] = NoSession]
                /\ alive' = alive \ {sessions[id]}
                /\ revoked' = revoked \cup {d \in Calls : Created(d) /\ reply[d].id = id}
                /\ doing' = [doing EXCEPT ![c] = "erasing"]
                /\ UNCHANGED reply
    /\ UNCHANGED <<handlers, request, session, gridId, routed, left>>

\* The second erase: by then another Create may have been given the id.
EraseAgain(c) ==
    /\ doing[c] = "erasing"
    /\ LET id == request[c].id
       IN  /\ sessions' = [sessions EXCEPT ![id] = NoSession]
           /\ alive' = alive \ {sessions[id]}
    /\ Answer(c, [status |-> "OK"])
    /\ UNCHANGED <<handlers, request, session, gridId, routed, left, revoked>>

Handle(c) ==
    \/ BuildSession(c) \/ RejectDefinition(c) \/ NameGrid(c) \/ InsertSession(c)
    \/ FindNothing(c) \/ Query(c) \/ FindSession(c) \/ PerformOrder(c) \/ ExportRoutes(c)
    \/ LoseSession(c)
    \/ DeleteSession(c) \/ EraseAgain(c)

AllDone == (\A c \in Calls : doing[c] = "done") /\ UNCHANGED vars

Next == (\E c \in Calls : Receive(c) \/ Handle(c)) \/ AllDone

Spec == Init /\ [][Next]_vars
-----------------------------------------------------------------------------
\* Properties.

Stored == {sessions[id] : id \in Ids} \ {NoSession}
BeingNamed == {c \in Calls : doing[c] \in {"naming", "inserting"}}

\* A session exists while it is in the table or its Create is on the way there,
\* and it is in the table only once: none leaks, and no entry dangles, however
\* handlers interleave.
SessionsAreOwned ==
    /\ alive = Stored \cup BeingNamed
    /\ Stored \cap BeingNamed = {}
    /\ \A i, j \in Ids : sessions[i] = sessions[j] /\ sessions[i] # NoSession => i = j

\* The reply to AddRoutes holds every route that the call itself installed, and
\* none that its grid does not have.
RoutesAreReported ==
    \A c \in Calls : request[c].op = "add" /\ reply[c].status = "OK" =>
        /\ routed[session[c]] \cap ({c} \X (1..MaxOrders)) \subseteq reply[c].routes
        /\ reply[c].routes \subseteq routed[session[c]]

\* While a handler routes in a grid, that grid exists, if calls are handled one
\* after the other.
GridsInUseExist ==
    handlers = 1 => \A c \in Calls : doing[c] = "routing" => session[c] \in alive

\* The id in the reply to a Create leads to the grid that this call built, until
\* somebody deletes that id after the reply, if calls are handled one after the
\* other.
RepliesNameOwnGrid ==
    handlers = 1 => \A c \in Calls : Created(c) => c \in revoked \/ sessions[reply[c].id] = c
====
