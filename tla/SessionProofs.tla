---- MODULE SessionProofs ----
(***************************************************************************)
(* Proofs about RouterSessions for any calls, any number of handlers at a  *)
(* time and requests of any length.                                        *)
(***************************************************************************)
EXTENDS RouterSessions, FiniteSetTheorems, TLAPS

Creating == {"building", "naming", "inserting"}
Deleting == {"deleting", "erasing"}
Serving == {"finding", "routing"}
Stages == {"waiting", "done"} \cup Creating \cup Deleting \cup Serving

\* What the variables hold, and what a handler knows at each stage.
Typed ==
    /\ handlers \in Nat \ {0}
    /\ doing \in [Calls -> Stages]
    /\ request \in [Calls -> Requests \cup {NoRequest}]
    /\ session \in [Calls -> Calls \cup {NoSession}]
    /\ gridId \in [Calls -> Ids \cup {0}]
    /\ sessions \in [Ids -> Calls \cup {NoSession}]
    /\ routed \in [Calls -> SUBSET (Calls \X Nat)]
    /\ left \in [Calls -> SUBSET Nat]
    /\ DOMAIN reply = Calls
    /\ \A c \in Calls :
           /\ doing[c] \in Creating => request[c] \in [op : {"create"}]
           /\ doing[c] \in Deleting => request[c] \in [op : {"delete"}, id : Ids]
           /\ doing[c] = "finding" => request[c].op # "create" /\ request[c].id \in Ids
           /\ doing[c] = "routing" => request[c].op = "add" /\ session[c] \in Calls
           /\ doing[c] = "inserting" => gridId[c] \in Ids
           /\ reply[c].status = "OK" => doing[c] = "done"
           /\ Created(c) => reply[c].id \in Ids

\* A session is in the table at most once, after its Create has ended.
StoredAreDone ==
    \A i \in Ids : sessions[i] # NoSession => doing[sessions[i]] = "done"

OwnedInv == Typed /\ StoredAreDone /\ SessionsAreOwned

LEMMA RequestFields ==
    ASSUME NEW r \in Requests
    PROVE  /\ r.op \in {"create", "query", "delete", "add"}
           /\ r.op = "create" => r \in [op : {"create"}]
           /\ r.op # "create" => r.id \in Ids
           /\ r.op = "delete" => r \in [op : {"delete"}, id : Ids]
BY DEF Requests

LEMMA InitTyped == Init => OwnedInv
<1> SUFFICES ASSUME Init PROVE OwnedInv
  OBVIOUS
<1>1. Typed
  BY HandlersAssumption DEF Init, Typed, Stages, Creating, Deleting, Created, NoReply, NoRequest
<1>2. StoredAreDone /\ SessionsAreOwned
  BY SessionAssumption DEF Init, StoredAreDone, SessionsAreOwned, Stored, BeingNamed
<1> QED
  BY <1>1, <1>2 DEF OwnedInv

LEMMA ReceiveTyped ==
    ASSUME Typed, NEW c \in Calls, Receive(c)
    PROVE  Typed'
<1>1. PICK r \in Requests :
        /\ request' = [request EXCEPT ![c] = r]
        /\ doing' = [doing EXCEPT ![c] = CASE r.op = "create" -> "building"
                                           [] r.op = "delete" -> "deleting"
                                           [] OTHER -> "finding"]
        /\ left' = [left EXCEPT ![c] = IF r.op = "add" THEN 1..r.orders ELSE {}]
  BY DEF Receive
<1>2. doing' \in [Calls -> Stages]
  BY <1>1 DEF Typed, Stages, Creating, Deleting, Serving
<1>3. left' \in [Calls -> SUBSET Nat]
  <2>1. (IF r.op = "add" THEN 1..r.orders ELSE {}) \in SUBSET Nat
    <3>1. r.op = "add" => r.orders \in Nat
      BY HandlersAssumption DEF Requests
    <3> QED
      BY <3>1
  <2> QED
    BY <1>1, <2>1 DEF Typed
<1>4. \A d \in Calls : d # c => /\ doing'[d] = doing[d] /\ request'[d] = request[d]
  BY <1>1 DEF Typed
<1>5. doing'[c] \in {"building", "deleting", "finding"} /\ request'[c] = r
      /\ (doing'[c] = "building" <=> r.op = "create") /\ (doing'[c] = "deleting" <=> r.op = "delete")
  BY <1>1 DEF Typed
<1>6. reply[c].status # "OK" /\ UNCHANGED <<handlers, session, gridId, sessions, routed, reply>>
  BY DEF Receive, Typed
<1> QED
  BY <1>1, <1>2, <1>3, <1>4, <1>5, <1>6, RequestFields DEF Typed, Created, Creating, Deleting

\* What the other steps of a handler change is its own stage and the entries
\* named here; the rest of a step's proof is to look at that handler.
LEMMA HandleTyped ==
    ASSUME Typed, NEW c \in Calls, Handle(c)
    PROVE  Typed'
<1>1. CASE BuildSession(c)
  BY <1>1, SessionAssumption DEF BuildSession, Typed, Created, Stages, Creating, Deleting, Serving
<1>2. CASE RejectDefinition(c)
  BY <1>2 DEF RejectDefinition, Answer, Typed, Created, Stages, Creating, Deleting, Serving
<1>3. CASE NameGrid(c)
  BY <1>3 DEF NameGrid, Typed, Created, Stages, Creating, Deleting, Serving
<1>4. CASE InsertSession(c)
  BY <1>4 DEF InsertSession, Answer, Typed, Created, Stages, Creating, Deleting, Serving
<1>5. CASE FindNothing(c)
  BY <1>5 DEF FindNothing, Answer, Typed, Created, Stages, Creating, Deleting, Serving
<1>6. CASE Query(c)
  BY <1>6 DEF Query, Answer, Typed, Created, Stages, Creating, Deleting, Serving
<1>7. CASE FindSession(c)
  BY <1>7 DEF FindSession, Typed, Created, Stages, Creating, Deleting, Serving
<1>8. CASE PerformOrder(c)
  BY <1>8 DEF PerformOrder, Typed, Created, Stages, Creating, Deleting, Serving
<1>9. CASE ExportRoutes(c)
  BY <1>9 DEF ExportRoutes, Answer, Typed, Created, Stages, Creating, Deleting, Serving
<1>10. CASE LoseSession(c)
  BY <1>10 DEF LoseSession, Answer, Typed, Created, Stages, Creating, Deleting, Serving
<1>11. CASE DeleteSession(c)
  BY <1>11 DEF DeleteSession, Answer, Typed, Created, Stages, Creating, Deleting, Serving
<1>12. CASE EraseAgain(c)
  BY <1>12 DEF EraseAgain, Answer, Typed, Created, Stages, Creating, Deleting, Serving
<1> QED
  BY <1>1, <1>2, <1>3, <1>4, <1>5, <1>6, <1>7, <1>8, <1>9, <1>10, <1>11, <1>12 DEF Handle
-----------------------------------------------------------------------------
\* Who owns a session.

\* Steps that touch neither the table nor a Create on its way there.
LEMMA OwnersStay ==
    ASSUME OwnedInv, Typed', UNCHANGED <<sessions, alive>>, BeingNamed' = BeingNamed,
           \A c \in Calls : doing[c] = "done" => doing'[c] = "done"
    PROVE  OwnedInv'
<1>1. Stored' = Stored
  BY DEF Stored
<1>2. StoredAreDone'
  BY DEF OwnedInv, StoredAreDone, Typed
<1> QED
  BY <1>1, <1>2 DEF OwnedInv, SessionsAreOwned

\* Steps that empty an entry, with the session that was there.
LEMMA OwnersLeave ==
    ASSUME OwnedInv, Typed', NEW id \in Ids,
           sessions' = [sessions EXCEPT ![id] = NoSession],
           alive' = alive \ {sessions[id]}, BeingNamed' = BeingNamed,
           \A c \in Calls : doing[c] = "done" => doing'[c] = "done"
    PROVE  OwnedInv'
<1>1. \A i \in Ids : sessions'[i] = IF i = id THEN NoSession ELSE sessions[i]
  BY DEF OwnedInv, Typed
<1>2. StoredAreDone'
  BY <1>1 DEF OwnedInv, StoredAreDone, Typed
<1>3. Stored' = Stored \ {sessions[id]}
  BY <1>1 DEF Stored, OwnedInv, SessionsAreOwned
<1>4. sessions[id] \notin BeingNamed
  BY SessionAssumption DEF OwnedInv, SessionsAreOwned, Stored, BeingNamed
<1>5. SessionsAreOwned'
  BY <1>1, <1>3, <1>4 DEF OwnedInv, SessionsAreOwned
<1> QED
  BY <1>2, <1>5 DEF OwnedInv

LEMMA InsertOwned ==
    ASSUME OwnedInv, Typed', NEW c \in Calls, InsertSession(c)
    PROVE  OwnedInv'
<1> DEFINE id == gridId[c]
<1>1. id \in Ids /\ c \in BeingNamed /\ c \notin Stored /\ c # NoSession
  BY SessionAssumption DEF InsertSession, OwnedInv, Typed, BeingNamed, SessionsAreOwned
<1>2. \A d \in Calls : doing'[d] = IF d = c THEN "done" ELSE doing[d]
  BY DEF InsertSession, Answer, OwnedInv, Typed
<1>3. BeingNamed' = BeingNamed \ {c}
  BY <1>2 DEF BeingNamed
<1>4. CASE sessions[id] = NoSession
  <2>1. \A i \in Ids : sessions'[i] = IF i = id THEN c ELSE sessions[i]
    BY <1>1, <1>4 DEF InsertSession, OwnedInv, Typed
  <2>2. Stored' = Stored \cup {c}
    BY <1>1, <1>4, <2>1 DEF Stored
  <2>3. StoredAreDone'
    BY <1>2, <2>1 DEF OwnedInv, StoredAreDone, Typed
  <2>4. alive' = alive
    BY <1>4 DEF InsertSession
  <2>5. \A i, j \in Ids : sessions'[i] = sessions'[j] /\ sessions'[i] # NoSession => i = j
    BY <1>1, <2>1 DEF OwnedInv, SessionsAreOwned, Stored
  <2>6. SessionsAreOwned'
    BY <1>1, <1>3, <2>2, <2>4, <2>5 DEF OwnedInv, SessionsAreOwned
  <2> QED
    BY <2>3, <2>6 DEF OwnedInv
<1>5. CASE sessions[id] # NoSession
  <2>1. sessions' = sessions /\ alive' = alive \ {c}
    BY <1>5 DEF InsertSession
  <2>2. Stored' = Stored
    BY <2>1 DEF Stored
  <2>3. StoredAreDone'
    BY <1>2, <2>1 DEF OwnedInv, StoredAreDone, Typed
  <2>4. SessionsAreOwned'
    BY <1>1, <1>3, <2>1, <2>2 DEF OwnedInv, SessionsAreOwned
  <2> QED
    BY <2>3, <2>4 DEF OwnedInv
<1> QED
  BY <1>4, <1>5

LEMMA BuildOwned ==
    ASSUME OwnedInv, Typed', NEW c \in Calls, BuildSession(c)
    PROVE  OwnedInv'
<1>1. \A d \in Calls : doing'[d] = IF d = c THEN "naming" ELSE doing[d]
  BY DEF BuildSession, OwnedInv, Typed
<1>2. BeingNamed' = BeingNamed \cup {c}
  BY <1>1 DEF BeingNamed
<1>3. doing[c] = "building" /\ c \notin Stored /\ c # NoSession
  BY SessionAssumption DEF BuildSession, OwnedInv, StoredAreDone, Stored
<1>4. Stored' = Stored /\ sessions' = sessions /\ alive' = alive \cup {c}
  BY DEF BuildSession, Stored
<1>5. StoredAreDone'
  BY <1>1, <1>3, <1>4 DEF OwnedInv, StoredAreDone, Typed, Stored
<1>6. SessionsAreOwned'
  BY <1>2, <1>3, <1>4 DEF OwnedInv, SessionsAreOwned
<1> QED
  BY <1>5, <1>6 DEF OwnedInv

LEMMA StepOwned ==
    ASSUME OwnedInv, Next
    PROVE  OwnedInv'
<1>0. Typed
  BY DEF OwnedInv
<1>1. ASSUME NEW c \in Calls, Receive(c) PROVE OwnedInv'
  <2>1. Typed'
    BY <1>0, <1>1, ReceiveTyped
  <2>2. /\ UNCHANGED <<sessions, alive>>
        /\ doing[c] = "waiting"
        /\ doing'[c] \in {"building", "deleting", "finding"}
        /\ \A d \in Calls \ {c} : doing'[d] = doing[d]
    BY <1>0, <1>1 DEF Receive, Typed
  <2>3. BeingNamed' = BeingNamed
    BY <2>2 DEF BeingNamed
  <2> QED
    BY <2>1, <2>2, <2>3, OwnersStay
<1>2. ASSUME NEW c \in Calls, Handle(c) PROVE OwnedInv'
  <2>1. Typed'
    BY <1>0, <1>2, HandleTyped
  <2>2. CASE BuildSession(c)
    BY <2>1, <2>2, BuildOwned
  <2>3. CASE InsertSession(c)
    BY <2>1, <2>3, InsertOwned
  <2>4. CASE NameGrid(c) \/ RejectDefinition(c) \/ FindNothing(c) \/ Query(c) \/ FindSession(c)
             \/ PerformOrder(c) \/ ExportRoutes(c) \/ LoseSession(c)
    <3>1. /\ UNCHANGED <<sessions, alive>>
          /\ doing[c] # "done" /\ \A d \in Calls \ {c} : doing'[d] = doing[d]
          /\ doing[c] \in {"naming", "inserting"} <=> doing'[c] \in {"naming", "inserting"}
      BY <1>0, <2>4 DEF NameGrid, RejectDefinition, FindNothing, Query, FindSession, PerformOrder,
                        ExportRoutes, LoseSession, Answer, Typed
    <3>2. BeingNamed' = BeingNamed
      BY <3>1 DEF BeingNamed
    <3> QED
      BY <2>1, <3>1, <3>2, OwnersStay
  <2>5. CASE DeleteSession(c) \/ EraseAgain(c)
    <3> DEFINE id == request[c].id
    <3>1. id \in Ids /\ doing[c] \in Deleting
      BY <1>0, <2>5 DEF DeleteSession, EraseAgain, Typed, Deleting
    <3>2. \A d \in Calls \ {c} : doing'[d] = doing[d]
      BY <1>0, <2>5 DEF DeleteSession, EraseAgain, Answer, Typed
    <3>3. doing'[c] \in {"done", "erasing"}
      BY <1>0, <2>5 DEF DeleteSession, EraseAgain, Answer, Typed
    <3>4. BeingNamed' = BeingNamed
      BY <3>1, <3>2, <3>3 DEF BeingNamed, Deleting
    <3>5. \A d \in Calls : doing[d] = "done" => doing'[d] = "done"
      BY <3>1, <3>2 DEF Deleting
    <3>6. \/ UNCHANGED <<sessions, alive>>
          \/ sessions' = [sessions EXCEPT ![id] = NoSession] /\ alive' = alive \ {sessions[id]}
      BY <2>5 DEF DeleteSession, EraseAgain
    <3> QED
      BY <2>1, <3>1, <3>4, <3>5, <3>6, OwnersStay, OwnersLeave
  <2> QED
    BY <1>2, <2>2, <2>3, <2>4, <2>5 DEF Handle
<1>3. CASE UNCHANGED vars
  <2>1. Typed'
    BY <1>0, <1>3 DEF vars, Typed, Created
  <2>2. BeingNamed' = BeingNamed
    BY <1>3 DEF vars, BeingNamed
  <2> QED
    BY <1>3, <2>1, <2>2, OwnersStay DEF vars
<1> QED
  BY <1>1, <1>2, <1>3 DEF Next, AllDone

\* A session exists exactly while the table or its Create has it, in any order
\* in which the handlers of CreateRoutingGrid and DeleteRoutingGrid step.
THEOREM SessionsOwned == Spec => []SessionsAreOwned
<1>1. OwnedInv /\ [Next]_vars => OwnedInv'
  <2> SUFFICES ASSUME OwnedInv, [Next]_vars PROVE OwnedInv'
    OBVIOUS
  <2>1. CASE UNCHANGED vars
    <3>1. Typed'
      BY <2>1 DEF OwnedInv, vars, Typed, Created
    <3>2. BeingNamed' = BeingNamed
      BY <2>1 DEF vars, BeingNamed
    <3> QED
      BY <2>1, <3>1, <3>2, OwnersStay DEF vars
  <2> QED
    BY <2>1, StepOwned
<1>2. OwnedInv => SessionsAreOwned
  BY DEF OwnedInv
<1> QED
  BY InitTyped, <1>1, <1>2, PTL DEF Spec
-----------------------------------------------------------------------------
\* What AddRoutes replies.  Once a call has its reply no order of it is left to
\* be performed, so that routes of other calls only are added to its grid.

ReportedInv ==
    /\ OwnedInv
    /\ RoutesAreReported
    /\ \A c \in Calls : request[c].op = "add" /\ reply[c].status = "OK" => session[c] \in Calls

LEMMA StepReported ==
    ASSUME ReportedInv, Next
    PROVE  ReportedInv'
<1>0. OwnedInv /\ Typed /\ OwnedInv'
  BY StepOwned DEF ReportedInv, OwnedInv
<1> DEFINE Reported(c) ==
             /\ session[c] \in Calls
             /\ routed[session[c]] \cap ({c} \X (1..MaxOrders)) \subseteq reply[c].routes
             /\ reply[c].routes \subseteq routed[session[c]]
<1>1. SUFFICES ASSUME NEW a \in Calls, (request[a].op = "add" /\ reply[a].status = "OK")'
               PROVE  Reported(a)'
  BY <1>0 DEF ReportedInv, RoutesAreReported
<1>2. request[a].op = "add" /\ reply[a].status = "OK" => Reported(a) /\ doing[a] = "done"
  BY <1>0 DEF ReportedInv, RoutesAreReported, Typed
<1>3. ASSUME request'[a] = request[a], reply'[a] = reply[a], session'[a] = session[a],
             routed' = routed
      PROVE  Reported(a)'
  BY <1>1, <1>2, <1>3
<1>4. ASSUME NEW c \in Calls, Receive(c) PROVE Reported(a)'
  <2>1. c # a
    BY <1>0, <1>1, <1>4 DEF Receive, Typed
  <2>2. request'[a] = request[a] /\ UNCHANGED <<reply, session, routed>>
    BY <1>0, <1>4, <2>1 DEF Receive, Typed
  <2> QED
    BY <1>3, <2>2
<1>5. ASSUME NEW c \in Calls, ExportRoutes(c) PROVE Reported(a)'
  <2>1. CASE c = a
    <3>1. /\ UNCHANGED <<session, routed>> /\ session[a] \in Calls
          /\ reply'[a] = [status |-> "OK", routes |-> routed[session[a]]]
      BY <1>0, <1>5, <2>1 DEF ExportRoutes, Answer, Typed
    <3> QED
      BY <3>1
  <2>2. CASE c # a
    BY <1>3, <1>5, <2>2 DEF ExportRoutes, Answer
  <2> QED
    BY <2>1, <2>2
<1>6. ASSUME NEW c \in Calls, PerformOrder(c) PROVE Reported(a)'
  <2>1. c # a
    BY <1>0, <1>1, <1>2, <1>6 DEF PerformOrder
  <2>2. UNCHANGED <<request, reply, session>> /\ session[c] \in Calls
    BY <1>0, <1>6 DEF PerformOrder, Typed
  <2>3. PICK i \in left[c] : \/ UNCHANGED routed
                             \/ routed' = [routed EXCEPT ![session[c]] = @ \cup {<<c, i>>}]
    BY <1>6 DEF PerformOrder
  <2>4. \A s \in Calls : routed[s] \subseteq routed'[s] /\ routed'[s] \subseteq routed[s] \cup {<<c, i>>}
    BY <1>0, <2>2, <2>3 DEF Typed
  <2>5. <<c, i>> \notin {a} \X (1..MaxOrders)
    BY <2>1
  <2> QED
    BY <1>1, <1>2, <2>2, <2>4, <2>5
<1>7. ASSUME NEW c \in Calls, Query(c) PROVE Reported(a)'
  <2>1. c # a
    BY <1>1, <1>7 DEF Query
  <2> QED
    BY <1>0, <1>3, <1>7, <2>1 DEF Query, Answer
<1>8. ASSUME NEW c \in Calls, RejectDefinition(c) \/ FindNothing(c) \/ LoseSession(c) PROVE Reported(a)'
  <2>1. c # a
    BY <1>0, <1>1, <1>8 DEF RejectDefinition, FindNothing, LoseSession, Answer, Typed
  <2>2. UNCHANGED <<request, session, routed>>
    BY <1>8 DEF RejectDefinition, FindNothing, LoseSession
  <2>3. reply'[a] = reply[a]
    BY <1>0, <1>8, <2>1 DEF RejectDefinition, FindNothing, LoseSession, Answer, Typed
  <2> QED
    BY <1>3, <2>2, <2>3
<1>9. ASSUME NEW c \in Calls, BuildSession(c) \/ NameGrid(c) \/ FindSession(c) PROVE Reported(a)'
  <2>1. reply' = reply /\ request' = request /\ routed' = routed /\ doing[c] # "done"
    BY <1>9 DEF BuildSession, NameGrid, FindSession
  <2>2. c # a
    BY <1>1, <1>2, <2>1
  <2>3. session'[a] = session[a]
    <3>1. session' = session \/ \E s : session' = [session EXCEPT ![c] = s]
      BY <1>9 DEF BuildSession, NameGrid, FindSession
    <3> QED
      BY <1>0, <2>2, <3>1 DEF Typed
  <2> QED
    BY <1>3, <2>1, <2>3
<1>10. ASSUME NEW c \in Calls, InsertSession(c) \/ DeleteSession(c) \/ EraseAgain(c) PROVE Reported(a)'
  <2>1. c # a
    BY <1>0, <1>1, <1>2, <1>10 DEF InsertSession, DeleteSession, EraseAgain, Typed, Creating, Deleting
  <2> QED
    BY <1>3, <1>10, <2>1, <1>0 DEF InsertSession, DeleteSession, EraseAgain, Answer, Typed
<1>11. CASE UNCHANGED vars
  BY <1>3, <1>11 DEF vars
<1> QED
  BY <1>4, <1>5, <1>6, <1>7, <1>8, <1>9, <1>10, <1>11 DEF Next, Handle, AllDone

\* Whatever else is handled meanwhile, the reply to AddRoutes holds every route
\* that the call installed and none that its grid does not have.
THEOREM RoutesReported == Spec => []RoutesAreReported
<1>1. Init => ReportedInv
  <2>1. Init => OwnedInv
    BY InitTyped
  <2> QED
    BY <2>1 DEF Init, ReportedInv, RoutesAreReported, NoRequest
<1>2. ReportedInv /\ [Next]_vars => ReportedInv'
  <2> SUFFICES ASSUME ReportedInv, UNCHANGED vars PROVE ReportedInv'
    BY StepReported
  <2>1. OwnedInv'
    <3>1. Typed'
      BY DEF ReportedInv, OwnedInv, vars, Typed, Created
    <3>2. BeingNamed' = BeingNamed
      BY DEF vars, BeingNamed
    <3> QED
      BY <3>1, <3>2, OwnersStay DEF vars, ReportedInv
  <2> QED
    BY <2>1 DEF vars, ReportedInv, RoutesAreReported
<1>3. ReportedInv => RoutesAreReported
  BY DEF ReportedInv
<1> QED
  BY <1>1, <1>2, <1>3, PTL DEF Spec
-----------------------------------------------------------------------------
\* Calls that are handled one after the other.  What a handler has looked up
\* stands until it is done.

OneByOne == handlers = 1 => \A c, d \in InHand : c = d

LookedUp ==
    handlers = 1 => \A c \in Calls :
        /\ doing[c] = "inserting" => sessions[gridId[c]] = NoSession
        /\ doing[c] = "erasing" => sessions[request[c].id] = NoSession

SerialInv == OwnedInv /\ OneByOne /\ LookedUp /\ GridsInUseExist /\ RepliesNameOwnGrid

LEMMA ReceiveOneByOne ==
    ASSUME OwnedInv, OneByOne, NEW c \in Calls, Receive(c), handlers = 1
    PROVE  InHand = {} /\ OneByOne'
<1>1. IsFiniteSet(InHand) /\ Cardinality(InHand) \in Nat
  BY CallsAssumption, FS_Subset, FS_CardinalityType DEF InHand
<1>2. InHand = {}
  BY <1>1, FS_EmptySet DEF Receive
<1>3. \A d \in Calls \ {c} : doing'[d] = doing[d]
  BY DEF Receive, OwnedInv, Typed
<1>4. InHand' \subseteq {c}
  BY <1>2, <1>3 DEF InHand
<1> QED
  BY <1>2, <1>4 DEF OneByOne

LEMMA HandleOneByOne ==
    ASSUME OwnedInv, OneByOne, NEW c \in Calls, Handle(c), handlers = 1
    PROVE  /\ \A d \in Calls \ {c} : doing[d] \in {"waiting", "done"} /\ doing'[d] = doing[d]
           /\ OneByOne'
<1>1. c \in InHand
  BY DEF Handle, InHand, BuildSession, RejectDefinition, NameGrid, InsertSession, FindNothing, Query,
         FindSession, PerformOrder, ExportRoutes, LoseSession, DeleteSession, EraseAgain
<1>2. \A d \in Calls \ {c} : doing'[d] = doing[d]
  BY DEF Handle, BuildSession, RejectDefinition, NameGrid, InsertSession, FindNothing, Query, Answer,
         FindSession, PerformOrder, ExportRoutes, LoseSession, DeleteSession, EraseAgain, OwnedInv, Typed
<1>3. \A d \in Calls \ {c} : d \notin InHand
  BY <1>1 DEF OneByOne
<1>4. InHand' \subseteq {c}
  BY <1>2, <1>3 DEF InHand
<1> QED
  BY <1>2, <1>3, <1>4 DEF OneByOne, InHand

LEMMA StepSerial ==
    ASSUME SerialInv, Next, handlers = 1
    PROVE  SerialInv'
<1>0. OwnedInv /\ Typed /\ OwnedInv' /\ handlers' = handlers
  BY StepOwned DEF SerialInv, OwnedInv, Next, Receive, Handle, BuildSession, RejectDefinition, NameGrid,
         InsertSession, FindNothing, Query, FindSession, PerformOrder, ExportRoutes, LoseSession,
         DeleteSession, EraseAgain, AllDone, vars
<1>1. ASSUME NEW c \in Calls, Receive(c) PROVE SerialInv'
  <2>1. InHand = {} /\ OneByOne'
    BY <1>0, <1>1, ReceiveOneByOne DEF SerialInv
  <2>2. UNCHANGED <<sessions, alive, session, gridId, reply, revoked>>
    BY <1>1 DEF Receive
  <2>3. \A d \in Calls : /\ d # c => doing'[d] = doing[d] /\ request'[d] = request[d]
                         /\ doing'[d] \notin {"inserting", "erasing", "routing"}
    <3>1. \A d \in Calls : doing[d] \in {"waiting", "done"}
      BY <2>1 DEF InHand
    <3> QED
      BY <1>0, <1>1, <3>1 DEF Receive, Typed
  <2>4. \A d \in Calls : Created(d)' => Created(d)
    BY <1>0, <1>1, <2>2, <2>3 DEF Created, Receive, Typed
  <2> QED
    BY <1>0, <2>1, <2>2, <2>3, <2>4 DEF SerialInv, LookedUp, GridsInUseExist, RepliesNameOwnGrid
<1>2. ASSUME NEW c \in Calls, Handle(c) PROVE SerialInv'
  <2>1. OneByOne' /\ \A d \in Calls \ {c} : doing[d] \in {"waiting", "done"} /\ doing'[d] = doing[d]
    BY <1>0, <1>2, HandleOneByOne DEF SerialInv
  <2>2. UNCHANGED request
    BY <1>2 DEF Handle, BuildSession, RejectDefinition, NameGrid, InsertSession, FindNothing, Query,
           FindSession, PerformOrder, ExportRoutes, LoseSession, DeleteSession, EraseAgain
  <2>3. LookedUp'
    <3>1. doing'[c] = "inserting" => sessions'[gridId'[c]] = NoSession
      BY <1>0, <1>2 DEF Handle, BuildSession, RejectDefinition, NameGrid, InsertSession, FindNothing,
           Query, FindSession, PerformOrder, ExportRoutes, LoseSession, DeleteSession, EraseAgain,
           Answer, Typed
    <3>2. doing'[c] = "erasing" => sessions'[request[c].id] = NoSession
      BY <1>0, <1>2 DEF Handle, BuildSession, RejectDefinition, NameGrid, InsertSession, FindNothing,
           Query, FindSession, PerformOrder, ExportRoutes, LoseSession, DeleteSession, EraseAgain,
           Answer, Typed, Deleting
    <3> QED
      BY <2>1, <2>2, <3>1, <3>2 DEF LookedUp
  <2>4. GridsInUseExist'
    <3>1. ASSUME doing'[c] = "routing" PROVE session'[c] \in alive'
      <4>1. FindSession(c) \/ PerformOrder(c)
        BY <1>0, <1>2, <3>1 DEF Handle, BuildSession, RejectDefinition, NameGrid, InsertSession,
             FindNothing, Query, ExportRoutes, LoseSession, DeleteSession, EraseAgain, Answer, Typed
      <4>2. CASE FindSession(c)
        <5>1. request[c].id \in Ids
          BY <1>0, <4>2 DEF FindSession, Typed
        <5>2. sessions[request[c].id] \in alive
          BY <1>0, <4>2, <5>1 DEF FindSession, OwnedInv, SessionsAreOwned, Stored
        <5> QED
          BY <1>0, <4>2, <5>2 DEF FindSession, Typed
      <4>3. CASE PerformOrder(c)
        BY <4>3 DEF PerformOrder
      <4> QED
        BY <4>1, <4>2, <4>3
    <3> QED
      BY <2>1, <3>1 DEF GridsInUseExist
  <2>5. RepliesNameOwnGrid'
    <3> SUFFICES ASSUME NEW a \in Calls, Created(a)'
                 PROVE  (a \in revoked \/ sessions[reply[a].id] = a)'
      BY DEF RepliesNameOwnGrid
    <3>1. Created(a) => a # NoSession /\ reply[a].id \in Ids /\ (a \in revoked \/ sessions[reply[a].id] = a)
      BY <1>0, SessionAssumption DEF SerialInv, RepliesNameOwnGrid, Typed
    <3>2. CASE InsertSession(c)
      <4>1. sessions[gridId[c]] = NoSession /\ gridId[c] \in Ids
        BY <1>0, <3>2 DEF InsertSession, SerialInv, LookedUp, Typed
      <4>2. sessions' = [sessions EXCEPT ![gridId[c]] = c] /\ revoked' = revoked
            /\ reply' = [reply EXCEPT ![c] = [status |-> "OK", id |-> gridId[c]]]
        BY <3>2, <4>1 DEF InsertSession, Answer
      <4>3. CASE a = c
        BY <1>0, <4>1, <4>2, <4>3 DEF Typed
      <4>4. CASE a # c
        <5>1. reply'[a] = reply[a] /\ Created(a)
          BY <1>0, <2>2, <4>2, <4>4 DEF Typed, Created
        <5>2. \A i \in Ids : sessions[i] = a => sessions'[i] = a
          BY <1>0, <3>1, <4>1, <4>2, <5>1 DEF Typed
        <5> QED
          BY <3>1, <4>2, <5>1, <5>2
      <4> QED
        BY <4>3, <4>4
    <3>3. CASE DeleteSession(c)
      <4>1. Created(a) /\ reply'[a] = reply[a]
        BY <1>0, <2>2, <3>3 DEF DeleteSession, Answer, Typed, Created, Deleting
      <4>2. CASE reply[a].id = request[c].id /\ sessions[request[c].id] # NoSession
        BY <3>3, <4>1, <4>2 DEF DeleteSession
      <4>3. CASE reply[a].id # request[c].id \/ sessions[request[c].id] = NoSession
        BY <1>0, <3>1, <3>3, <4>1, <4>3 DEF DeleteSession, Typed
      <4> QED
        BY <4>2, <4>3
    <3>4. CASE EraseAgain(c)
      <4>1. Created(a) /\ reply'[a] = reply[a] /\ revoked' = revoked
        BY <1>0, <2>2, <3>4 DEF EraseAgain, Answer, Typed, Created, Deleting
      <4>2. sessions[request[c].id] = NoSession
        BY <3>4 DEF EraseAgain, SerialInv, LookedUp
      <4> QED
        BY <1>0, <3>1, <3>4, <4>1, <4>2 DEF EraseAgain, Typed
    <3>5. CASE ~(InsertSession(c) \/ DeleteSession(c) \/ EraseAgain(c))
      <4>1. UNCHANGED <<sessions, revoked>>
        BY <1>2, <3>5 DEF Handle, BuildSession, RejectDefinition, NameGrid, FindNothing, Query, FindSession,
               PerformOrder, ExportRoutes, LoseSession
      <4>2. reply'[a] = reply[a] /\ Created(a)
        BY <1>0, <1>2, <2>2, <3>5 DEF Handle, BuildSession, RejectDefinition, NameGrid, FindNothing, Query,
               FindSession, PerformOrder, ExportRoutes, LoseSession, Answer, Typed, Created
      <4> QED
        BY <3>1, <4>1, <4>2
    <3> QED
      BY <3>2, <3>3, <3>4, <3>5
  <2> QED
    BY <1>0, <2>1, <2>3, <2>4, <2>5 DEF SerialInv
<1>3. CASE AllDone
  BY <1>0, <1>3 DEF AllDone, vars, SerialInv, OneByOne, InHand, LookedUp, GridsInUseExist,
                   RepliesNameOwnGrid, Created
<1> QED
  BY <1>1, <1>2, <1>3 DEF Next

LEMMA SerialInvariant == Spec => []SerialInv
<1>1. Init => SerialInv
  <2>1. Init => OwnedInv
    BY InitTyped
  <2> QED
    BY <2>1 DEF Init, SerialInv, OneByOne, InHand, LookedUp, GridsInUseExist, RepliesNameOwnGrid,
                Created, NoReply
<1>2. SerialInv /\ [Next]_vars => SerialInv'
  <2> SUFFICES ASSUME SerialInv, [Next]_vars PROVE SerialInv'
    OBVIOUS
  <2>1. CASE UNCHANGED vars
    <3>1. OwnedInv'
      <4>1. Typed'
        BY <2>1 DEF SerialInv, OwnedInv, vars, Typed, Created
      <4>2. BeingNamed' = BeingNamed
        BY <2>1 DEF vars, BeingNamed
      <4> QED
        BY <2>1, <4>1, <4>2, OwnersStay DEF vars, SerialInv
    <3> QED
      BY <2>1, <3>1 DEF vars, SerialInv, OneByOne, InHand, LookedUp, GridsInUseExist,
                        RepliesNameOwnGrid, Created
  <2>2. CASE Next /\ handlers = 1
    BY <2>2, StepSerial
  <2>3. CASE Next /\ handlers # 1
    <3>1. OwnedInv' /\ handlers' = handlers
      BY <2>3, StepOwned DEF SerialInv, Next, Receive, Handle, BuildSession, RejectDefinition, NameGrid,
         InsertSession, FindNothing, Query, FindSession, PerformOrder, ExportRoutes, LoseSession,
         DeleteSession, EraseAgain, AllDone, vars
    <3> QED
      BY <2>3, <3>1 DEF SerialInv, OneByOne, LookedUp, GridsInUseExist, RepliesNameOwnGrid
  <2> QED
    BY <2>1, <2>2, <2>3
<1> QED
  BY <1>1, <1>2, PTL DEF Spec

\* Handled one after the other, no call loses its grid while it routes in it.
THEOREM SerialGridsExist == Spec => []GridsInUseExist
<1>1. SerialInv => GridsInUseExist
  BY DEF SerialInv
<1> QED
  BY <1>1, SerialInvariant, PTL

\* Handled one after the other, the id in a reply leads to the grid of that call
\* until it is deleted.
THEOREM SerialRepliesNameGrids == Spec => []RepliesNameOwnGrid
<1>1. SerialInv => RepliesNameOwnGrid
  BY DEF SerialInv
<1> QED
  BY <1>1, SerialInvariant, PTL
====
