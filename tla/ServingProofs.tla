--------------------------- MODULE ServingProofs ---------------------------
(***************************************************************************)
(* Proofs about what serves the clients.  The serve command, for any set   *)
(* of requests and any limit: the handler counts what is in flight, the    *)
(* storage handle outlives the requests, and the exit code is true.  The   *)
(* bounded listener: permits are counted.  One request of the MCP handler, *)
(* for any request: its answer and its audit record are true.              *)
(***************************************************************************)
EXTENDS Serving, BoundedListener, McpRequest, FiniteSetTheorems, WellFoundedInduction, TLAPS

-----------------------------------------------------------------------------
(* The inductive invariant. *)

InPlace == {"reading", "calling", "delete", "free"}
InFlight == InPlace \cup {"leave"}
InRegister == {"reading", "calling", "delete"}
RequestLabels == InFlight \cup {"idle", "authenticate", "admit"}

Starting == {"source", "handler", "runtime", "listen"}
BeforeClose == Starting \cup {"start", "serving", "shutdown"}
MainLabels == BeforeClose \cup {"drain", "join", "failing", "exit"}

\* The handler's own state.
HandlerTypes ==
    /\ closed \in BOOLEAN /\ cancelled \in BOOLEAN
    /\ admission \in Nat /\ active \in Nat
    /\ requests \subseteq Requests
    /\ pc \in [Requests -> RequestLabels]
    /\ closer \in {"idle", "mark", "cancel", "wait", "source", "done"}
    /\ source \in {"none", "open", "closed", "broken"}

ServingTypes ==
    /\ main \in MainLabels
    /\ http \in {"off", "serving", "failed", "shutdown"}
    /\ ready \in BOOLEAN /\ signal \in BOOLEAN /\ deadline \in BOOLEAN
    /\ exit \in {"none", "0", "1"}

\* How far Close has come, and what that means for the requests.
Closing ==
    /\ closed <=> closer \in {"cancel", "wait", "source", "done"}
    /\ closer \in {"source", "done"} => Admitted = {}
    /\ closer = "done" => source # "open"
    /\ source \in {"closed", "broken"} => closer = "done" \/ (main = "exit" /\ http = "off")

\* How far the main goroutine has come, and what that means for the rest.
Progress ==
    /\ http = "off" => \A r \in Requests : pc[r] = "idle"
    /\ main \in Starting => http = "off"
    /\ main \in BeforeClose => closer = "idle"
    /\ main \in {"drain", "join"} => http \in {"shutdown", "failed"}
    /\ ready => main = "serving"
    /\ exit = "none" <=> main # "exit"

IInv ==
    /\ HandlerTypes /\ ServingTypes
    /\ AdmissionCounted
    /\ Closing /\ Progress
    /\ ExitIsTrue /\ OpenedIsClosed

-----------------------------------------------------------------------------
(* Counting. *)

\* The requests are finitely many, so the sets below can be counted.
LEMMA FlightsFinite ==
  /\ IsFiniteSet(Placed) /\ Cardinality(Placed) \in Nat
  /\ IsFiniteSet(Admitted) /\ Cardinality(Admitted) \in Nat
  <1>1. Placed \subseteq Requests /\ Admitted \subseteq Requests  BY Zenon DEF Placed, Admitted
  <1>2. IsFiniteSet(Placed) /\ IsFiniteSet(Admitted)  BY <1>1, HandlerConstants, FS_Subset, Zenon
  <1> QED  BY <1>2, FS_CardinalityType, Zenon

\* Where a request goes decides which of the three sets it is in.
LEMMA Moved ==
  ASSUME HandlerTypes, NEW r \in Requests, NEW l \in RequestLabels, Goto(r, l)
  PROVE  /\ Placed' = IF l \in InPlace THEN Placed \cup {r} ELSE Placed \ {r}
         /\ Admitted' = IF l \in InFlight THEN Admitted \cup {r} ELSE Admitted \ {r}
         /\ Registered' = IF l \in InRegister THEN Registered \cup {r} ELSE Registered \ {r}
         /\ pc' \in [Requests -> RequestLabels]
         /\ \A q \in Requests : pc'[q] = IF q = r THEN l ELSE pc[q]
  <1>1. pc' = [pc EXCEPT ![r] = l]  BY Zenon DEF Goto
  <1>2. pc \in [Requests -> RequestLabels]  BY Zenon DEF HandlerTypes
  <1>3. \A q \in Requests : pc'[q] = IF q = r THEN l ELSE pc[q]  BY <1>1, <1>2, Zenon
  <1>4. pc' \in [Requests -> RequestLabels]  BY <1>1, <1>2, Zenon
  <1>5. Placed' = IF l \in InPlace THEN Placed \cup {r} ELSE Placed \ {r}
    BY <1>3, Zenon DEF Placed, InPlace
  <1>6. Admitted' = IF l \in InFlight THEN Admitted \cup {r} ELSE Admitted \ {r}
    BY <1>3, Zenon DEF Admitted, InFlight, InPlace
  <1>7. Registered' = IF l \in InRegister THEN Registered \cup {r} ELSE Registered \ {r}
    BY <1>3, Zenon DEF Registered, InRegister
  <1> QED  BY <1>3, <1>4, <1>5, <1>6, <1>7, Zenon

\* admit and release count by one (admit, release).
LEMMA Counted ==
  ASSUME NEW S, IsFiniteSet(S), NEW r
  PROVE  /\ r \notin S => Cardinality(S \cup {r}) = Cardinality(S) + 1
         /\ r \in S => Cardinality(S \ {r}) = Cardinality(S) - 1
  BY FS_AddElement, FS_RemoveElement, Zenon

-----------------------------------------------------------------------------
(* The steps of a request. *)

\* A step that moves a request between places that count alike.
LEMMA Uncounted ==
  ASSUME HandlerTypes, AdmissionCounted,
         NEW r \in Requests, NEW l \in RequestLabels, Goto(r, l),
         pc[r] \in InPlace <=> l \in InPlace,
         pc[r] \in InFlight <=> l \in InFlight,
         pc[r] \in InRegister <=> l \in InRegister,
         UNCHANGED <<admission, active, requests>>
  PROVE  AdmissionCounted' /\ Admitted' = Admitted
  <1>1. Placed' = Placed  BY Moved, Zenon DEF Placed, InPlace
  <1>2. Admitted' = Admitted  BY Moved, Zenon DEF Admitted, InFlight, InPlace
  <1>3. Registered' = Registered  BY Moved, Zenon DEF Registered, InRegister
  <1> QED  BY <1>1, <1>2, <1>3, Zenon DEF AdmissionCounted

\* Every step of ServeHTTP keeps the counters right and the types.
LEMMA ServeCounts ==
  ASSUME HandlerTypes, AdmissionCounted, NEW r \in Requests, Arrive(r) \/ Serve(r)
  PROVE  HandlerTypes' /\ AdmissionCounted' /\ (closed => Admitted' \subseteq Admitted)
  <1> USE HandlerConstants, FlightsFinite
  <1>1. CASE Arrive(r)
    <2>1. Goto(r, "authenticate") /\ pc[r] = "idle"  BY <1>1, Zenon DEF Arrive
    <2>2. AdmissionCounted' /\ Admitted' = Admitted
      BY <1>1, <2>1, Uncounted, Zenon DEF Arrive, InPlace, InFlight, InRegister, RequestLabels
    <2>3. pc' \in [Requests -> RequestLabels]  BY <2>1, Moved, Zenon DEF RequestLabels
    <2>4. HandlerTypes'  BY <1>1, <2>3, Zenon DEF HandlerTypes, Arrive
    <2> QED  BY <2>2, <2>4, Zenon
  <1>2. CASE Authenticate(r)
    <2>1. PICK l \in {"admit", "idle"} : Goto(r, l)  BY <1>2, Zenon DEF Authenticate
    <2>2. AdmissionCounted' /\ Admitted' = Admitted
      BY <1>2, <2>1, Uncounted, Zenon DEF Authenticate, InPlace, InFlight, InRegister, RequestLabels
    <2>3. pc' \in [Requests -> RequestLabels]  BY <2>1, Moved, Zenon DEF RequestLabels
    <2>4. HandlerTypes'  BY <1>2, <2>3, Zenon DEF HandlerTypes, Authenticate
    <2> QED  BY <2>2, <2>4, Zenon
  <1>3. CASE Admit(r) /\ (closed \/ admission = Limit)
    <2>1. Goto(r, "idle") /\ pc[r] = "admit"  BY <1>3, Zenon DEF Admit
    <2>2. AdmissionCounted' /\ Admitted' = Admitted
      BY <1>3, <2>1, Uncounted, Zenon DEF Admit, InPlace, InFlight, InRegister, RequestLabels
    <2>3. pc' \in [Requests -> RequestLabels]  BY <2>1, Moved, Zenon DEF RequestLabels
    <2>4. HandlerTypes'  BY <1>3, <2>3, Zenon DEF HandlerTypes, Admit
    <2> QED  BY <2>2, <2>4, Zenon
  <1>4. CASE Admit(r) /\ ~(closed \/ admission = Limit)
    <2>1. Goto(r, "reading") /\ pc[r] = "admit"  BY <1>4, Zenon DEF Admit
    <2>2. /\ Placed' = Placed \cup {r} /\ Admitted' = Admitted \cup {r}
          /\ Registered' = Registered \cup {r} /\ pc' \in [Requests -> RequestLabels]
      BY <2>1, Moved, Zenon DEF RequestLabels, InPlace, InFlight, InRegister
    <2>3. r \notin Placed /\ r \notin Admitted  BY <2>1, Zenon DEF Placed, Admitted
    <2>4. Cardinality(Placed') = Cardinality(Placed) + 1  BY <2>2, <2>3, Counted, Zenon
    <2>5. Cardinality(Admitted') = Cardinality(Admitted) + 1  BY <2>2, <2>3, Counted, Zenon
    <2>6. /\ admission' = admission + 1 /\ active' = active + 1
          /\ requests' = requests \cup {r} /\ admission # Limit
      BY <1>4, Zenon DEF Admit
    <2>7. AdmissionCounted'
      BY <2>2, <2>4, <2>5, <2>6 DEF AdmissionCounted, HandlerTypes
    <2>8. HandlerTypes'  BY <1>4, <2>2, <2>6 DEF HandlerTypes, Admit
    <2> QED  BY <1>4, <2>7, <2>8, Zenon
  <1>5. CASE Dispatch(r)
    <2>1. Goto(r, "calling") /\ pc[r] = "reading"  BY <1>5, Zenon DEF Dispatch
    <2>2. AdmissionCounted' /\ Admitted' = Admitted
      BY <1>5, <2>1, Uncounted, Zenon DEF Dispatch, InPlace, InFlight, InRegister, RequestLabels
    <2>3. pc' \in [Requests -> RequestLabels]
      BY <2>1, Moved, Zenon DEF RequestLabels, InFlight, InPlace
    <2>4. HandlerTypes'  BY <1>5, <2>3, Zenon DEF HandlerTypes, Dispatch
    <2> QED  BY <2>2, <2>4, Zenon
  <1>6. CASE Respond(r)
    <2>1. Goto(r, "delete") /\ pc[r] \in {"reading", "calling"}  BY <1>6, Zenon DEF Respond
    <2>2. AdmissionCounted' /\ Admitted' = Admitted
      BY <1>6, <2>1, Uncounted, Zenon DEF Respond, InPlace, InFlight, InRegister, RequestLabels
    <2>3. pc' \in [Requests -> RequestLabels]
      BY <2>1, Moved, Zenon DEF RequestLabels, InFlight, InPlace
    <2>4. HandlerTypes'  BY <1>6, <2>3, Zenon DEF HandlerTypes, Respond
    <2> QED  BY <2>2, <2>4, Zenon
  <1>7. CASE Delete(r)
    <2>1. Goto(r, "free") /\ pc[r] = "delete"  BY <1>7, Zenon DEF Delete
    <2>2. /\ Placed' = Placed \cup {r} /\ Admitted' = Admitted \cup {r}
          /\ Registered' = Registered \ {r} /\ pc' \in [Requests -> RequestLabels]
      BY <2>1, Moved DEF RequestLabels, InPlace, InFlight, InRegister
    <2>3. Placed' = Placed /\ Admitted' = Admitted  BY <2>1, <2>2, Zenon DEF Placed, Admitted
    <2>4. AdmissionCounted'  BY <1>7, <2>2, <2>3, Zenon DEF AdmissionCounted, Delete
    <2>5. HandlerTypes'  BY <1>7, <2>2, Zenon DEF HandlerTypes, Delete
    <2> QED  BY <2>3, <2>4, <2>5, Zenon
  <1>8. CASE Free(r)
    <2>1. Goto(r, "leave") /\ pc[r] = "free"  BY <1>8, Zenon DEF Free
    <2>2. /\ Placed' = Placed \ {r} /\ Admitted' = Admitted \cup {r}
          /\ Registered' = Registered \ {r} /\ pc' \in [Requests -> RequestLabels]
      BY <2>1, Moved DEF RequestLabels, InPlace, InFlight, InRegister
    <2>3. r \in Placed /\ Admitted' = Admitted /\ Registered' = Registered
      BY <2>1, <2>2, Zenon DEF Placed, Admitted, Registered
    <2>4. Cardinality(Placed') = Cardinality(Placed) - 1  BY <2>2, <2>3, Counted, Zenon
    <2>5. admission' = admission - 1 /\ admission > 0 /\ UNCHANGED <<active, requests>>
      BY <1>8, Zenon DEF Free
    <2>6. AdmissionCounted'
      BY <2>3, <2>4, <2>5 DEF AdmissionCounted, HandlerTypes
    <2>7. admission' \in Nat  BY <2>5 DEF HandlerTypes
    <2>8. HandlerTypes'  BY <1>8, <2>2, <2>7, Zenon DEF HandlerTypes, Free
    <2> QED  BY <2>3, <2>6, <2>8, Zenon
  <1>9. CASE Leave(r)
    <2>1. Goto(r, "idle") /\ pc[r] = "leave"  BY <1>9, Zenon DEF Leave
    <2>2. /\ Placed' = Placed \ {r} /\ Admitted' = Admitted \ {r}
          /\ Registered' = Registered \ {r} /\ pc' \in [Requests -> RequestLabels]
      BY <2>1, Moved DEF RequestLabels, InPlace, InFlight, InRegister
    <2>3. r \in Admitted /\ Placed' = Placed /\ Registered' = Registered
      BY <2>1, <2>2, Zenon DEF Placed, Admitted, Registered
    <2>4. Cardinality(Admitted') = Cardinality(Admitted) - 1  BY <2>2, <2>3, Counted, Zenon
    <2>5. active' = active - 1 /\ UNCHANGED <<admission, requests>>  BY <1>9, Zenon DEF Leave
    <2>6. AdmissionCounted'  BY <2>3, <2>4, <2>5, Zenon DEF AdmissionCounted
    <2>7. active' \in Nat  BY <2>4, <2>5, FlightsFinite, FS_CardinalityType, <2>6, <2>2, FS_RemoveElement
      DEF AdmissionCounted
    <2>8. HandlerTypes'  BY <1>9, <2>2, <2>7, Zenon DEF HandlerTypes, Leave
    <2> QED  BY <2>2, <2>6, <2>8, Zenon
  <1> QED  BY <1>1, <1>2, <1>3, <1>4, <1>5, <1>6, <1>7, <1>8, <1>9, Zenon DEF Serve

-----------------------------------------------------------------------------
(* The invariant holds at the start and every step keeps it. *)

\* Before runServe has opened anything, nothing is counted.
LEMMA ServingStarts == Init => IInv
  <1> SUFFICES ASSUME Init PROVE IInv  OBVIOUS
  <1> USE DEF Init, HandlerInit
  <1>1. \A r \in Requests : pc[r] = "idle"  OBVIOUS
  <1>2. Placed = {} /\ Admitted = {} /\ Registered = {}
    BY <1>1, Zenon DEF Placed, Admitted, Registered
  <1>3. Cardinality({}) = 0  BY FS_EmptySet, Zenon
  <1>4. AdmissionCounted  BY <1>2, <1>3, HandlerConstants DEF AdmissionCounted
  <1>5. HandlerTypes  BY Zenon DEF HandlerTypes, RequestLabels
  <1>6. ServingTypes  BY Zenon DEF ServingTypes, MainLabels, BeforeClose, Starting
  <1>7. Closing  BY Zenon DEF Closing
  <1>8. Progress  BY <1>1, Zenon DEF Progress
  <1>9. ExitIsTrue /\ OpenedIsClosed  BY Zenon DEF ExitIsTrue, OpenedIsClosed, Running
  <1> QED  BY <1>4, <1>5, <1>6, <1>7, <1>8, <1>9, Zenon DEF IInv

\* A step of a request (ServeHTTP): the main goroutine and Close stand still.
LEMMA RequestStep ==
  ASSUME IInv, Running, NEW r \in Requests, UNCHANGED servingVars,
         (Delivering /\ Arrive(r)) \/ Serve(r)
  PROVE  IInv'
  <1>1. HandlerTypes' /\ AdmissionCounted' /\ (closed => Admitted' \subseteq Admitted)
    BY ServeCounts, Zenon DEF IInv
  <1>2. UNCHANGED <<closed, cancelled, closer, source>>
    BY Zenon DEF Serve, Arrive, Authenticate, Admit, Dispatch, Respond, Delete, Free, Leave
  <1>3. UNCHANGED <<main, http, ready, signal, deadline, exit, reason>>  BY Zenon DEF servingVars
  <1>4. ServingTypes'  BY <1>3, Zenon DEF IInv, ServingTypes
  <1>5. Closing'
    <2>1. closer \in {"source", "done"} => closed /\ Admitted = {}  BY Zenon DEF IInv, Closing
    <2>2. closer' \in {"source", "done"} => Admitted' = {}  BY <1>1, <1>2, <2>1, Zenon
    <2> QED  BY <1>2, <1>3, <2>2, Zenon DEF IInv, Closing
  <1>6. http # "off"
    <2>1. CASE Delivering  BY <2>1, Zenon DEF Delivering
    <2>2. CASE Serve(r)
      <3>1. pc[r] # "idle"
        BY <2>2, Zenon DEF Serve, Authenticate, Admit, Dispatch, Respond, Delete, Free, Leave
      <3> QED  BY <3>1, Zenon DEF IInv, Progress
    <2> QED  BY <2>1, <2>2, Zenon
  <1>7. Progress'  BY <1>2, <1>3, <1>6, Zenon DEF IInv, Progress
  <1>8. ExitIsTrue' /\ OpenedIsClosed'
    BY <1>3, Zenon DEF ExitIsTrue, OpenedIsClosed, Running
  <1> QED  BY <1>1, <1>4, <1>5, <1>7, <1>8, Zenon DEF IInv

\* A step that moves no request leaves the counts as they are.
LEMMA CountsKept ==
  ASSUME AdmissionCounted, UNCHANGED <<admission, active, requests, pc>>
  PROVE  AdmissionCounted' /\ Admitted' = Admitted
  <1>1. Placed' = Placed  BY Zenon DEF Placed
  <1>2. Admitted' = Admitted  BY Zenon DEF Admitted
  <1>3. Registered' = Registered  BY Zenon DEF Registered
  <1> QED  BY <1>1, <1>2, <1>3, Zenon DEF AdmissionCounted

\* A step of mcpReadCloser.Close: the handle is closed after the wait has ended.
LEMMA CloseStep ==
  ASSUME IInv, Running, Close, UNCHANGED servingVars
  PROVE  IInv'
  <1>1. UNCHANGED <<admission, active, requests, pc>>
    BY Zenon DEF Close, CloseMark, CloseCancel, CloseWait, CloseSource
  <1>2. AdmissionCounted' /\ Admitted' = Admitted  BY <1>1, CountsKept, Zenon DEF IInv
  <1>3. UNCHANGED <<main, http, ready, signal, deadline, exit, reason>>  BY Zenon DEF servingVars
  <1>4. ServingTypes'  BY <1>3, Zenon DEF IInv, ServingTypes
  <1>5. HandlerTypes'
    BY <1>1, Zenon DEF IInv, HandlerTypes, Close, CloseMark, CloseCancel, CloseWait, CloseSource
  <1>6. closer # "idle" /\ closer' # "idle"
    BY Zenon DEF Close, CloseMark, CloseCancel, CloseWait, CloseSource
  <1>7. Progress'  BY <1>1, <1>3, <1>6, Zenon DEF IInv, Progress
  <1>8. ExitIsTrue' /\ OpenedIsClosed'
    BY <1>3, Zenon DEF ExitIsTrue, OpenedIsClosed, Running
  <1>9. Closing'
    <2>1. CASE CloseMark  BY <1>2, <1>3, <2>1, Zenon DEF IInv, Closing, CloseMark
    <2>2. CASE CloseCancel  BY <1>2, <1>3, <2>2, Zenon DEF IInv, Closing, CloseCancel
    <2>3. CASE CloseWait
      <3>1. Cardinality(Admitted) = 0  BY <2>3, Zenon DEF IInv, AdmissionCounted, CloseWait
      <3>2. Admitted = {}  BY <3>1, FlightsFinite, FS_EmptySet, Zenon
      <3> QED  BY <1>2, <1>3, <2>3, <3>2, Zenon DEF IInv, Closing, CloseWait
    <2>4. CASE CloseSource  BY <1>2, <1>3, <2>4, Zenon DEF IInv, Closing, CloseSource
    <2> QED  BY <2>1, <2>2, <2>3, <2>4, Zenon DEF Close
  <1> QED  BY <1>2, <1>4, <1>5, <1>7, <1>8, <1>9, Zenon DEF IInv

\* A step of runServe and ListenAndServe, or of the environment.
LEMMA MainStep ==
  ASSUME IInv, Running, Main \/ ServeFails \/ Signal \/ Deadline
  PROVE  IInv'
  <1> DEFINE State == <<closed, cancelled, admission, active, requests, pc>>
  <1> USE DEF Quit, CloseAndQuit, handlerVars
  <1>1. UNCHANGED State
    BY Zenon DEF Main, OpenSource, NewHandler, NewRuntime, StartServe, Started, ServeEnded, Failed,
           Signalled, BeginShutdown, Drained, Joined, ServeFails, Signal, Deadline
  <1>2. AdmissionCounted' /\ Admitted' = Admitted  BY <1>1, CountsKept, Zenon DEF IInv
  <1>3. source' \in {"none", "open", "closed", "broken"} /\ closer' \in {"mark", closer}
    BY Zenon DEF IInv, HandlerTypes, Main, OpenSource, NewHandler, NewRuntime, StartServe, Started,
           ServeEnded, Failed, Signalled, BeginShutdown, Drained, Joined, ServeFails, Signal, Deadline
  <1>4. HandlerTypes'  BY <1>1, <1>3, Zenon DEF IInv, HandlerTypes
  <1> DEFINE Rest == ServingTypes' /\ Closing' /\ Progress' /\ ExitIsTrue' /\ OpenedIsClosed'
  <1> USE <1>1, <1>2 DEF IInv, ServingTypes, Closing, Progress, ExitIsTrue, OpenedIsClosed,
                         Running, MainLabels, BeforeClose, Starting
  <1>5. CASE OpenSource
    <2>1. Rest  BY <1>5 DEF OpenSource
    <2> QED  BY <2>1, <1>4, <1>2, Zenon
  <1>6. CASE NewHandler
    <2>1. Rest  BY <1>6 DEF NewHandler
    <2> QED  BY <2>1, <1>4, <1>2, Zenon
  <1>7. CASE NewRuntime
    <2>1. Rest  BY <1>7 DEF NewRuntime
    <2> QED  BY <2>1, <1>4, <1>2, Zenon
  <1>8. CASE StartServe
    <2>1. Rest  BY <1>8 DEF StartServe
    <2> QED  BY <2>1, <1>4, <1>2, Zenon
  <1>9. CASE Started
    <2>1. Rest  BY <1>9 DEF Started
    <2> QED  BY <2>1, <1>4, <1>2, Zenon
  <1>10. CASE ServeEnded
    <2>1. ServingTypes'  BY <1>10, Zenon DEF ServeEnded
    <2>2. Closing'  BY <1>10 DEF ServeEnded
    <2>3. Progress'  BY <1>10, Zenon DEF ServeEnded
    <2>4. ExitIsTrue'  BY <1>10, Zenon DEF ServeEnded
    <2>5. OpenedIsClosed'  BY <1>10, Zenon DEF ServeEnded
    <2> QED  BY <2>1, <2>2, <2>3, <2>4, <2>5, <1>4, <1>2, Zenon
  <1>11. CASE Failed
    <2>1. ServingTypes'  BY <1>11, Zenon DEF Failed
    <2>2. Closing'  BY <1>11 DEF Failed
    <2>3. Progress'  BY <1>11, Zenon DEF Failed
    <2>4. ExitIsTrue'  BY <1>11, Zenon DEF Failed
    <2>5. OpenedIsClosed'  BY <1>11, Zenon DEF Failed
    <2> QED  BY <2>1, <2>2, <2>3, <2>4, <2>5, <1>4, <1>2, Zenon
  <1>12. CASE Signalled
    <2>1. ServingTypes'  BY <1>12, Zenon DEF Signalled
    <2>2. Closing'  BY <1>12 DEF Signalled
    <2>3. Progress'  BY <1>12, Zenon DEF Signalled
    <2>4. ExitIsTrue'  BY <1>12, Zenon DEF Signalled
    <2>5. OpenedIsClosed'  BY <1>12, Zenon DEF Signalled
    <2> QED  BY <2>1, <2>2, <2>3, <2>4, <2>5, <1>4, <1>2, Zenon
  <1>13. CASE BeginShutdown
    <2>1. ServingTypes'  BY <1>13, Zenon DEF BeginShutdown
    <2>2. Closing'  BY <1>13 DEF BeginShutdown
    <2>3. Progress'  BY <1>13, Zenon DEF BeginShutdown
    <2>4. ExitIsTrue'  BY <1>13, Zenon DEF BeginShutdown
    <2>5. OpenedIsClosed'  BY <1>13, Zenon DEF BeginShutdown
    <2> QED  BY <2>1, <2>2, <2>3, <2>4, <2>5, <1>4, <1>2, Zenon
  <1>14. CASE Drained
    <2>1. ServingTypes'  BY <1>14, Zenon DEF Drained
    <2>2. Closing'  BY <1>14 DEF Drained
    <2>3. Progress'  BY <1>14, Zenon DEF Drained
    <2>4. ExitIsTrue'  BY <1>14, Zenon DEF Drained
    <2>5. OpenedIsClosed'  BY <1>14, Zenon DEF Drained
    <2> QED  BY <2>1, <2>2, <2>3, <2>4, <2>5, <1>4, <1>2, Zenon
  <1>15. CASE Joined
    <2>1. main = "join" /\ main' = "exit" /\ exit' \in {"0", "1"}  BY <1>15, Zenon DEF Joined
    <2>2. UNCHANGED <<source, closer, http, ready, signal, deadline>>  BY <1>15, Zenon DEF Joined
    <2>3. exit' = "0" => closer = "done" /\ source # "broken" /\ http # "failed"
      BY <1>15, Zenon DEF Joined
    <2>4. closer = "done" \/ reason' = "shutdown_timeout"  BY <1>15, Zenon DEF Joined
    <2>5. ServingTypes' /\ Closing'  BY <2>1, <2>2, Zenon
    <2>6. Progress'  BY <2>1, <2>2, Zenon
    <2>7. ExitIsTrue'  BY <2>1, <2>2, <2>3, Zenon DEF HandlerTypes
    <2>8. OpenedIsClosed'  BY <2>1, <2>2, <2>4, Zenon
    <2> QED  BY <2>5, <2>6, <2>7, <2>8, <1>4, <1>2, Zenon
  <1>16. CASE ServeFails
    <2>1. Rest  BY <1>16 DEF ServeFails
    <2> QED  BY <2>1, <1>4, <1>2, Zenon
  <1>17. CASE Signal
    <2>1. Rest  BY <1>17 DEF Signal
    <2> QED  BY <2>1, <1>4, <1>2, Zenon
  <1>18. CASE Deadline
    <2>1. Rest  BY <1>18 DEF Deadline
    <2> QED  BY <2>1, <1>4, <1>2, Zenon
  <1> QED
    BY <1>5, <1>6, <1>7, <1>8, <1>9, <1>10, <1>11, <1>12, <1>13, <1>14, <1>15, <1>16, <1>17, <1>18, Zenon
    DEF Main

\* The invariant is inductive.
LEMMA ServingStep == IInv /\ [Next]_vars => IInv'
  <1> SUFFICES ASSUME IInv, [Next]_vars PROVE IInv'  OBVIOUS
  <1>1. CASE UNCHANGED vars
    <2>1. AdmissionCounted' /\ Admitted' = Admitted
      BY <1>1, CountsKept, Zenon DEF IInv, vars, handlerVars
    <2>2. HandlerTypes' /\ ServingTypes'
      BY <1>1 DEF IInv, HandlerTypes, ServingTypes, vars, handlerVars, servingVars
    <2>3. Closing' /\ Progress'
      BY <1>1, <2>1, Zenon DEF IInv, Closing, Progress, vars, handlerVars, servingVars
    <2>4. ExitIsTrue' /\ OpenedIsClosed'
      BY <1>1, <2>1, Zenon DEF IInv, ExitIsTrue, OpenedIsClosed, Running, vars, handlerVars, servingVars
    <2> QED  BY <2>1, <2>2, <2>3, <2>4, Zenon DEF IInv
  <1>2. CASE Next
    <2>1. Running  BY <1>2, Zenon DEF Next
    <2>2. CASE Main \/ ServeFails \/ Signal \/ Deadline  BY <2>1, <2>2, MainStep, Zenon
    <2>3. CASE Close /\ UNCHANGED servingVars  BY <2>1, <2>3, CloseStep, Zenon
    <2>4. ASSUME NEW r \in Requests,
                 ((Delivering /\ Arrive(r)) \/ Serve(r)) /\ UNCHANGED servingVars
          PROVE  IInv'
      BY <2>1, <2>4, RequestStep, Zenon
    <2> QED  BY <1>2, <2>2, <2>3, <2>4, Zenon DEF Next
  <1> QED  BY <1>1, <1>2, Zenon

\* What every reachable state of the serve command satisfies.
LEMMA ServingInvariance == Spec => []IInv
  <1> QED  BY ServingStarts, ServingStep, PTL DEF Spec

-----------------------------------------------------------------------------
(* The results. *)

\* The counters of the handler are what the requests in flight make them, so at
\* most Limit requests work at once, for any number of clients (admit, release).
THEOREM AdmissionIsCounted == Spec => []AdmissionCounted
  <1>1. IInv => AdmissionCounted  BY Zenon DEF IInv
  <1> QED  BY <1>1, ServingInvariance, PTL

\* No tool reads from a storage handle that Close has closed under it
\* (Handler.Close waits before mcpReadCloser closes the handle).
THEOREM SourceOutlives == Spec => []SourceOutlivesRequests
  <1>1. IInv => SourceOutlivesRequests
    <2> SUFFICES ASSUME IInv, NEW r \in Requests, pc[r] = "calling"
                 PROVE  source \in {"none", "open"}
      BY Zenon DEF SourceOutlivesRequests
    <2>1. r \in Admitted  BY Zenon DEF Admitted
    <2>2. closer # "done"  BY <2>1, Zenon DEF IInv, Closing
    <2>3. http # "off"  BY Zenon DEF IInv, Progress
    <2>4. source \notin {"closed", "broken"}  BY <2>2, <2>3, Zenon DEF IInv, Closing
    <2> QED  BY <2>4, Zenon DEF IInv, HandlerTypes
  <1> QED  BY <1>1, ServingInvariance, PTL

\* Readiness is withdrawn before the handler is closed (ListenAndServe).
THEOREM ReadyIsOpen == Spec => []ReadyMeansOpen
  <1>1. IInv => ReadyMeansOpen
    <2> SUFFICES ASSUME IInv, ready PROVE ~closed  BY Zenon DEF ReadyMeansOpen
    <2>1. main \in BeforeClose  BY Zenon DEF IInv, Progress, BeforeClose, Starting
    <2>2. closer = "idle"  BY <2>1, Zenon DEF IInv, Progress
    <2> QED  BY <2>2, Zenon DEF IInv, Closing
  <1> QED  BY <1>1, ServingInvariance, PTL

\* Exit code 0 means a complete shutdown (runServe, ListenAndServe).
THEOREM ExitHolds == Spec => []ExitIsTrue
  <1>1. IInv => ExitIsTrue  BY Zenon DEF IInv
  <1> QED  BY <1>1, ServingInvariance, PTL

\* The storage handle is closed however the command ends, a shutdown that ran
\* out of time or failed excepted (runServe).
THEOREM HandleIsClosed == Spec => []OpenedIsClosed
  <1>1. IInv => OpenedIsClosed  BY Zenon DEF IInv
  <1> QED  BY <1>1, ServingInvariance, PTL

\* The storage handle lives as long as it is used, and readiness and exit code
\* say what is so.
THEOREM ServingSound == Spec => []ServeIsSound
  <1>1. SourceOutlivesRequests /\ ReadyMeansOpen /\ ExitIsTrue /\ OpenedIsClosed => ServeIsSound
    BY Zenon DEF ServeIsSound
  <1> QED  BY <1>1, SourceOutlives, ReadyIsOpen, ExitHolds, HandleIsClosed, PTL

-----------------------------------------------------------------------------
(* The listener. *)

ListenerTypes ==
    /\ permits \in Nat
    /\ shut \in BOOLEAN /\ inner \in BOOLEAN
    /\ accept \in {"permit", "recheck", "accept", "returned"}
    /\ conn \in [Conns -> {"open", "release", "closed"}]

ListenerInv == ListenerTypes /\ PermitsCounted

\* There are finitely many connections, so their number is a natural number.
LEMMA HeldFinite == IsFiniteSet(Held) /\ Cardinality(Held) \in Nat
  <1>1. Held \subseteq Conns  BY Zenon DEF Held
  <1>2. IsFiniteSet(Held)  BY <1>1, ListenerConstants, FS_Subset, Zenon
  <1> QED  BY <1>2, FS_CardinalityType, Zenon

\* Accept adds one connection to those that hold a permit (Accepted).
LEMMA HeldGrows ==
  ASSUME NEW c \in Conns, ListenerTypes, Accepted(c)
  PROVE  Cardinality(Held') = Cardinality(Held) + 1
  <1>1. Held' = Held \cup {c}  BY Zenon DEF Held, Accepted, ListenerTypes
  <1>2. c \notin Held  BY Zenon DEF Held, Accepted
  <1> QED  BY <1>1, <1>2, HeldFinite, FS_AddElement, Zenon

\* The release of a connection takes one away (boundedConnection.Close).
LEMMA HeldShrinks ==
  ASSUME NEW c \in Conns, ListenerTypes, ConnRelease(c)
  PROVE  Cardinality(Held') = Cardinality(Held) - 1
  <1>1. Held' = Held \ {c}  BY Zenon DEF Held, ConnRelease, ListenerTypes
  <1>2. c \in Held  BY Zenon DEF Held, ConnRelease
  <1> QED  BY <1>1, <1>2, HeldFinite, FS_RemoveElement, Zenon

\* A step that leaves every connection with or without its permit.
LEMMA HeldKept ==
  ASSUME UNCHANGED conn
  PROVE  Held' = Held
  BY Zenon DEF Held

\* A connection that is being closed holds its permit until the inner close has
\* returned (boundedConnection.Close).
LEMMA ClosingKeeps ==
  ASSUME NEW c \in Conns, ListenerTypes, ConnClose(c)
  PROVE  Held' = Held
  BY Zenon DEF Held, ConnClose, ListenerTypes

\* The invariant holds when newBoundedListener returns.
LEMMA ListenerStarts == ListenerInit => ListenerInv
  <1> SUFFICES ASSUME ListenerInit PROVE ListenerInv  OBVIOUS
  <1>1. ListenerTypes  BY Zenon DEF ListenerInit, ListenerTypes
  <1>2. Held = {}  BY Zenon DEF ListenerInit, Held
  <1>3. Cardinality(Held) = 0  BY <1>2, FS_EmptySet, Zenon
  <1>4. permits = 0 /\ accept = "permit"  BY Zenon DEF ListenerInit
  <1>5. PermitsCounted  BY <1>3, <1>4, ListenerConstants DEF PermitsCounted
  <1> QED  BY <1>1, <1>5, Zenon DEF ListenerInv

\* Every step of Accept, of the Close of the listener and of the Close of a
\* connection keeps it.
LEMMA ListenerStep == ListenerInv /\ [ListenerNext]_listenerVars => ListenerInv'
  <1> SUFFICES ASSUME ListenerInv, [ListenerNext]_listenerVars PROVE ListenerInv'  OBVIOUS
  <1> USE ListenerConstants, HeldFinite
  <1>1. CASE AcceptPermit
    <2>1. Held' = Held  BY <1>1, HeldKept, Zenon DEF AcceptPermit
    <2>2. ListenerTypes'  BY <1>1 DEF ListenerInv, ListenerTypes, AcceptPermit
    <2>3. PermitsCounted'  BY <1>1, <2>1 DEF ListenerInv, ListenerTypes, PermitsCounted, AcceptPermit
    <2> QED  BY <2>2, <2>3, Zenon DEF ListenerInv
  <1>2. CASE AcceptRecheck
    <2>1. Held' = Held  BY <1>2, HeldKept, Zenon DEF AcceptRecheck
    <2>2. permits - 1 \in Nat  BY <1>2 DEF ListenerInv, ListenerTypes, PermitsCounted, AcceptRecheck
    <2>3. ListenerTypes'  BY <1>2, <2>2, Zenon DEF ListenerInv, ListenerTypes, AcceptRecheck
    <2>4. PermitsCounted'  BY <1>2, <2>1 DEF ListenerInv, ListenerTypes, PermitsCounted, AcceptRecheck
    <2> QED  BY <2>3, <2>4, Zenon DEF ListenerInv
  <1>3. CASE AcceptFailed
    <2>1. Held' = Held  BY <1>3, HeldKept, Zenon DEF AcceptFailed
    <2>2. permits - 1 \in Nat  BY <1>3 DEF ListenerInv, ListenerTypes, PermitsCounted, AcceptFailed
    <2>3. ListenerTypes'  BY <1>3, <2>2, Zenon DEF ListenerInv, ListenerTypes, AcceptFailed
    <2>4. PermitsCounted'  BY <1>3, <2>1 DEF ListenerInv, ListenerTypes, PermitsCounted, AcceptFailed
    <2> QED  BY <2>3, <2>4, Zenon DEF ListenerInv
  <1>4. ASSUME NEW c \in Conns, Accepted(c) PROVE ListenerInv'
    <2>1. Cardinality(Held') = Cardinality(Held) + 1  BY <1>4, HeldGrows, Zenon DEF ListenerInv
    <2>2. ListenerTypes'  BY <1>4, Zenon DEF ListenerInv, ListenerTypes, Accepted
    <2>3. PermitsCounted'  BY <1>4, <2>1 DEF ListenerInv, ListenerTypes, PermitsCounted, Accepted
    <2> QED  BY <2>2, <2>3, Zenon DEF ListenerInv
  <1>5. CASE ListenerMark \/ CloseInner
    <2>1. Held' = Held  BY <1>5, HeldKept, Zenon DEF ListenerMark, CloseInner
    <2>2. ListenerTypes'  BY <1>5, Zenon DEF ListenerInv, ListenerTypes, ListenerMark, CloseInner
    <2>3. PermitsCounted'  BY <1>5, <2>1, Zenon DEF ListenerInv, PermitsCounted, ListenerMark, CloseInner
    <2> QED  BY <2>2, <2>3, Zenon DEF ListenerInv
  <1>6. ASSUME NEW c \in Conns, ConnClose(c) PROVE ListenerInv'
    <2>1. Held' = Held  BY <1>6, ClosingKeeps, Zenon DEF ListenerInv
    <2>2. ListenerTypes'  BY <1>6, Zenon DEF ListenerInv, ListenerTypes, ConnClose
    <2>3. PermitsCounted'  BY <1>6, <2>1, Zenon DEF ListenerInv, PermitsCounted, ConnClose
    <2> QED  BY <2>2, <2>3, Zenon DEF ListenerInv
  <1>7. ASSUME NEW c \in Conns, ConnRelease(c) PROVE ListenerInv'
    <2>1. Cardinality(Held') = Cardinality(Held) - 1  BY <1>7, HeldShrinks, Zenon DEF ListenerInv
    <2>2. ListenerTypes'  BY <1>7 DEF ListenerInv, ListenerTypes, ConnRelease
    <2>3. PermitsCounted'  BY <1>7, <2>1 DEF ListenerInv, ListenerTypes, PermitsCounted, ConnRelease
    <2> QED  BY <2>2, <2>3, Zenon DEF ListenerInv
  <1>8. CASE UNCHANGED listenerVars
    <2>1. Held' = Held  BY <1>8, HeldKept, Zenon DEF listenerVars
    <2> QED  BY <1>8, <2>1, Zenon DEF listenerVars, ListenerInv, ListenerTypes, PermitsCounted
  <1> QED  BY <1>1, <1>2, <1>3, <1>4, <1>5, <1>6, <1>7, <1>8, Zenon DEF ListenerNext, Accept

\* PermitsCounted holds for every limit and every number of connections: at most
\* MaxConnections are open, and no permit is lost or given back twice.
THEOREM PermitsAreCounted == ListenerSpec => []PermitsCounted
  <1>1. ListenerInv => PermitsCounted  BY Zenon DEF ListenerInv
  <1> QED  BY <1>1, ListenerStarts, ListenerStep, PTL DEF ListenerSpec

-----------------------------------------------------------------------------
(* One request, for any requests, outcomes of the SDK and configurations. *)

\* A set of numbers that is not empty has a least one.
LEMMA LeastExists ==
    ASSUME NEW S \in SUBSET Nat, S # {}
    PROVE  \E i \in S : \A j \in S : i <= j
<1>1. \E i \in S : \A j \in S : ~(<<j, i>> \in OpToRel(<, Nat))
  BY WFMin, NatLessThanWellFounded, Zenon
<1>2. PICK i \in S : \A j \in S : ~(<<j, i>> \in OpToRel(<, Nat))
  BY <1>1, Zenon
<1>3. ASSUME NEW j \in S PROVE i <= j
  <2>1. ~(<<j, i>> \in OpToRel(<, Nat)) /\ i \in Nat /\ j \in Nat
    BY <1>2, Zenon
  <2> QED
    BY <2>1 DEF OpToRel
<1> QED
  BY <1>3, Zenon

\* The members of two lists one after the other.
LEMMA Appended ==
    ASSUME NEW S, NEW s \in Seq(S), NEW t \in Seq(S)
    PROVE  /\ DOMAIN (s \o t) = 1 .. Len(s) + Len(t)
           /\ \A i \in 1 .. Len(s) + Len(t) : (s \o t)[i] \in S
           /\ \A i \in 1 .. Len(s) : (s \o t)[i] = s[i]
           /\ \A i \in 1 .. Len(t) : (s \o t)[Len(s) + i] = t[i]
  OBVIOUS

\* The order of the checks, as far as it matters: the token is looked at second.
LEMMA ChecksAre ==
    ASSUME NEW r
    PROVE  /\ DOMAIN Checks(r) = 1 .. 14
           /\ Checks(r)[1].status = 404 /\ (Checks(r)[1].failed <=> "route" \in r.fails)
           /\ Checks(r)[2].status = 401 /\ (Checks(r)[2].failed <=> "token" \in r.fails)
           /\ Checks(r)[8].failed <=> ~Required(r.mheader)
           /\ Checks(r)[9].failed <=> ~Optional(r.nheader)
           /\ \A i \in DOMAIN Checks(r) : Checks(r)[i].outcome # "success"
<1> DEFINE a1 == Check("route" \in r.fails, 404, "failure")
           a2 == Check("token" \in r.fails, 401, "rejected")
           a3 == Check("method" \in r.fails, 405, "failure")
           a4 == Check("browser" \in r.fails, 403, "rejected")
           b1 == Check("host" \in r.fails, 400, "failure")
           b2 == Check("content_type" \in r.fails, 415, "failure")
           b3 == Check("accept" \in r.fails, 406, "failure")
           b4 == Check(~Required(r.mheader), 400, "failure")
           b5 == Check(~Optional(r.nheader), 400, "failure")
           b6 == Check("protocol" \in r.fails, 400, "failure")
           b7 == Check("admission" \in r.fails, 429, "failure")
           b8 == Check("length" \in r.fails, 413, "failure")
           b9 == Check("read" \in r.fails, 500, "failure")
           b10 == Check("size" \in r.fails, 413, "failure")
           S == {a1, a2, a3, a4, b1, b2, b3, b4, b5, b6, b7, b8, b9, b10}
           A == <<a1, a2, a3, a4>>
           B == <<b1, b2, b3, b4, b5, b6, b7, b8, b9, b10>>
<1>1. Checks(r) = A \o B
  BY Zenon DEF Checks, Access, Envelope
<1>2. ASSUME NEW b, NEW s PROVE Check(b, s, "failure").outcome # "success"
                                /\ Check(b, s, "rejected").outcome # "success"
  BY Zenon DEF Check
<1>3. \A x \in S : x.outcome # "success"
  BY <1>2
<1>9. /\ a1.status = 404 /\ (a1.failed <=> "route" \in r.fails)
      /\ a2.status = 401 /\ (a2.failed <=> "token" \in r.fails)
      /\ b4.failed <=> ~Required(r.mheader)
      /\ b5.failed <=> ~Optional(r.nheader)
  BY Zenon DEF Check
<1> HIDE DEF a1, a2, a3, a4, b1, b2, b3, b4, b5, b6, b7, b8, b9, b10
<1>4. A \in Seq(S) /\ B \in Seq(S) /\ Len(A) = 4 /\ Len(B) = 10
  OBVIOUS
<1>5. A[1] = a1 /\ A[2] = a2 /\ B[4] = b4 /\ B[5] = b5
  OBVIOUS
<1> HIDE DEF S, A, B
<1>6. /\ DOMAIN Checks(r) = 1 .. 14 /\ \A i \in 1 .. 14 : Checks(r)[i] \in S
      /\ \A i \in 1 .. 4 : Checks(r)[i] = A[i]
      /\ \A i \in 1 .. 10 : Checks(r)[4 + i] = B[i]
  <2>1. PICK T, s, t : T = S /\ s = A /\ t = B
    BY Zenon
  <2>2. s \in Seq(T) /\ t \in Seq(T)
    BY <1>4, <2>1, Zenon
  <2>3. /\ DOMAIN (s \o t) = 1 .. Len(s) + Len(t)
        /\ \A i \in 1 .. Len(s) + Len(t) : (s \o t)[i] \in T
        /\ \A i \in 1 .. Len(s) : (s \o t)[i] = s[i]
        /\ \A i \in 1 .. Len(t) : (s \o t)[Len(s) + i] = t[i]
    BY <2>2, Appended
  <2>4. Len(s) = 4 /\ Len(t) = 10 /\ Checks(r) = s \o t
    BY <1>1, <1>4, <2>1, Zenon
  <2>5. 4 + 10 = 14
    OBVIOUS
  <2> QED
    BY <2>1, <2>3, <2>4, <2>5, Zenon
<1>7. Checks(r)[1] = a1 /\ Checks(r)[2] = a2 /\ Checks(r)[8] = b4 /\ Checks(r)[9] = b5
  <2>1. Checks(r)[4 + 4] = B[4] /\ Checks(r)[4 + 5] = B[5] /\ Checks(r)[1] = A[1] /\ Checks(r)[2] = A[2]
    BY <1>6
  <2> QED
    BY <1>5, <2>1
<1>8. \A i \in DOMAIN Checks(r) : Checks(r)[i].outcome # "success"
  BY <1>3, <1>6, Zenon
<1> QED
  BY <1>6, <1>7, <1>8, <1>9

\* The least of the checks that fail is that of the path, then that of the token.
LEMMA TokenSecond ==
    ASSUME NEW r, "token" \in r.fails
    PROVE  /\ FailedChecks(r) # {}
           /\ FirstFailed(r).status = IF "route" \in r.fails THEN 404 ELSE 401
<1> DEFINE F == FailedChecks(r)
           first == CHOOSE i \in F : \A j \in F : i <= j
<1>1. F \subseteq 1 .. 14 /\ 2 \in F /\ (1 \in F <=> "route" \in r.fails)
  <2>1. 2 \in 1 .. 14 /\ 1 \in 1 .. 14
    OBVIOUS
  <2>2. /\ DOMAIN Checks(r) = 1 .. 14
        /\ Checks(r)[1].failed <=> "route" \in r.fails
        /\ Checks(r)[2].failed <=> "token" \in r.fails
    BY ChecksAre
  <2> QED
    BY <2>1, <2>2, Zenon DEF FailedChecks
<1>2. /\ Checks(r)[1].status = 404 /\ Checks(r)[2].status = 401
      /\ FirstFailed(r) = Checks(r)[first]
  BY ChecksAre DEF FirstFailed
<1> HIDE DEF F
<1>3. CASE 1 \in F
  <2>1. ASSUME NEW i \in F, \A j \in F : i <= j PROVE i = 1
    <3>1. i \in 1 .. 14 /\ i <= 1
      BY <1>1, <1>3, <2>1, Zenon
    <3> QED
      BY <3>1
  <2>2. ASSUME NEW j \in F PROVE 1 <= j
    <3>1. j \in 1 .. 14
      BY <1>1, <1>3, Zenon
    <3> QED
      BY <3>1
  <2>3. first = 1
    BY <1>1, <1>3, <2>1, <2>2, Zenon
  <2> QED
    BY <1>1, <1>2, <1>3, <2>3 DEF F
<1>4. CASE 1 \notin F
  <2>1. ASSUME NEW i \in F, \A j \in F : i <= j PROVE i = 2
    <3>1. i \in 1 .. 14 /\ i <= 2 /\ i # 1
      BY <1>1, <1>4, <2>1, Zenon
    <3> QED
      BY <3>1
  <2>2. ASSUME NEW j \in F PROVE 2 <= j
    <3>1. j \in 1 .. 14 /\ j # 1
      BY <1>1, <1>4, Zenon
    <3> QED
      BY <3>1
  <2>3. first = 2
    BY <1>1, <1>4, <2>1, <2>2, Zenon
  <2> QED
    BY <1>1, <1>2, <1>4, <2>3 DEF F
<1> QED
  BY <1>3, <1>4, Zenon

\* No check that fails is audited as a success.
LEMMA FirstIsNoSuccess ==
    ASSUME NEW r, FailedChecks(r) # {}
    PROVE  FirstFailed(r).outcome # "success"
<1> DEFINE F == FailedChecks(r)
<1>1. F \in SUBSET Nat /\ F # {} /\ F \subseteq DOMAIN Checks(r)
  <2>1. DOMAIN Checks(r) = 1 .. 14
    BY ChecksAre
  <2> QED
    BY <2>1 DEF FailedChecks
<1> HIDE DEF F
<1>2. \E i \in F : \A j \in F : i <= j
  BY <1>1, LeastExists, Zenon
<1>3. (CHOOSE i \in F : \A j \in F : i <= j) \in F
  BY <1>2, Zenon
<1> QED
  BY <1>1, <1>3, ChecksAre DEF FirstFailed, F

\* What writeFixed leaves behind.
LEMMA FixedIs ==
    ASSUME NEW r, NEW status, NEW outcome, NEW ran
    PROVE  LET a == Fixed(r, status, outcome, ran)
           IN  /\ a.operation = OperationForHeaders(r) /\ a.status = status /\ a.written = status
               /\ a.outcome = outcome /\ a.code = 0 /\ a.ran = ran
  BY Zenon DEF Fixed, Answer

\* What writeJSONRPCError leaves behind.
LEMMA FailureIs ==
    ASSUME NEW r, NEW status, NEW code, NEW ran
    PROVE  LET a == Failure(r, status, code, ran)
           IN  /\ a.operation = OperationForHeaders(r) /\ a.status = a.written
               /\ a.outcome = "failure" /\ a.ran = ran
<1> DEFINE big == r.bigId /\ code # ParseError
           a == Failure(r, status, code, ran)
<1>1. a = IF big THEN Fixed(r, 500, "failure", ran) ELSE Answer(r, status, "failure", status, code, ran)
  BY Zenon DEF Failure
<1> HIDE DEF big, a
<1>2. CASE big
  <2>1. a = Fixed(r, 500, "failure", ran)
    BY <1>1, <1>2, Zenon
  <2> QED
    BY <2>1, FixedIs DEF a
<1>3. CASE ~big
  <2>1. a = Answer(r, status, "failure", status, code, ran)
    BY <1>1, <1>3, Zenon
  <2>2. /\ a.operation = OperationForHeaders(r) /\ a.status = a.written
        /\ a.outcome = "failure" /\ a.ran = ran
    BY <2>1, Zenon DEF Answer
  <2> QED
    BY <2>2, Zenon DEF a
<1> QED
  BY <1>2, <1>3, Zenon

\* The end of ServeHTTP: what the SDK made of the request is passed on.
LEMMA DeliverIs ==
    ASSUME NEW r, NEW c, NEW on, NEW result
    PROVE  LET a == Deliver(r, c, on, result)
           IN  /\ a.operation = OperationForHeaders(r) /\ a.status = a.written /\ a.ran = Executed(c, on)
               /\ a.outcome = "success" => a.written = 200 /\ a.code = 0 /\ a.ran # Nothing
<1> DEFINE a == Deliver(r, c, on, result)
           ran == Executed(c, on)
           got == IF c.code # 0 THEN [kind |-> "error", code |-> ParseError]
                  ELSE IF ran = Nothing THEN [kind |-> "error", code |-> InvalidParams] ELSE result
<1>2. ran = Nothing => got.kind = "error"
  <2> HIDE DEF ran
  <2> QED
    OBVIOUS
<1>3. \/ a = Failure(r, 200, InternalError, ran)
      \/ a = Failure(r, 200, ParseError, ran)
      \/ a = Failure(r, 200, Normalized(got.code), ran)
      \/ a = Fixed(r, 500, "failure", ran)
      \/ got.kind # "error" /\ a = Fixed(r, 200, "success", ran)
  <2> DEFINE bounded == c.method = "tools/call" /\ c.name \in OperatorTools \union ReviewTools
             f1 == Failure(r, 200, InternalError, ran)
             f2 == Failure(r, 200, ParseError, ran)
             f3 == Failure(r, 200, Normalized(got.code), ran)
             f4 == Fixed(r, 500, "failure", ran)
             f5 == Fixed(r, 200, "success", ran)
  <2>1. a = IF got.kind = "exceeded" THEN (IF bounded /\ ~r.bigId THEN f1 ELSE f4)
            ELSE IF got.kind = "empty" /\ bounded THEN f1
            ELSE IF c.code = ParseError THEN f2
            ELSE IF got.kind = "error" THEN f3
            ELSE IF got.kind = "status" THEN f4
            ELSE IF c.method = "server/discover" /\ r.bigId THEN f4 ELSE f5
    BY SMT DEF Deliver
  <2> HIDE DEF a, bounded, f1, f2, f3, f4, f5, got, ran
  <2>2. a \in {f1, f2, f3, f4} \/ (got.kind # "error" /\ a = f5)
    BY <2>1, SMT
  <2> QED
    BY <2>2, ZenonT(30) DEF f1, f2, f3, f4, f5
<1>4. ASSUME NEW k, a = Failure(r, 200, k, ran)
      PROVE  /\ a.operation = OperationForHeaders(r) /\ a.status = a.written
             /\ a.outcome = "failure" /\ a.ran = ran
  <2> HIDE DEF a, ran
  <2> QED
    BY <1>4, FailureIs
<1>5. ASSUME a = Fixed(r, 500, "failure", ran)
      PROVE  /\ a.operation = OperationForHeaders(r) /\ a.status = a.written
             /\ a.outcome = "failure" /\ a.ran = ran
  <2> HIDE DEF a, ran
  <2> QED
    BY <1>5, FixedIs
<1>6. ASSUME a = Fixed(r, 200, "success", ran)
      PROVE  /\ a.operation = OperationForHeaders(r) /\ a.status = 200 /\ a.written = 200
             /\ a.code = 0 /\ a.ran = ran
  <2> HIDE DEF a, ran
  <2> QED
    BY <1>6, FixedIs
<1>7. "failure" # "success"
  OBVIOUS
<1>8. /\ a.operation = OperationForHeaders(r) /\ a.status = a.written /\ a.ran = ran
      /\ a.outcome = "success" => a.written = 200 /\ a.code = 0 /\ a.ran # Nothing
  <2> HIDE DEF a, ran, got
  <2> QED
    BY <1>2, <1>3, <1>4, <1>5, <1>6, <1>7
<1> QED
  BY <1>8, Zenon

\* The fields of what classifyEnvelope returns.
LEMMA ClassifiedFields ==
    ASSUME NEW r, NEW n, NEW k, NEW c, c = Classified(r, n, k)
    PROVE  c.method = r.method /\ c.name = n /\ c.code = k /\ "code" \in DOMAIN c
  BY Zenon DEF Classified

\* A body that is classified without an error names a method, and a tool in a call.
LEMMA ClassifiedIs ==
    ASSUME NEW r, NEW on, Classify(r, on).code = 0
    PROVE  LET c == Classify(r, on)
           IN  /\ c.method = r.method /\ c.method # ""
               /\ c.method = "tools/call" => c.name = r.name /\ c.name \in Tools
               /\ c.method # "tools/call" => c.method \in {"server/discover", "tools/list"}
<1> DEFINE Asks == r.method \in {"server/discover", "tools/list"} \/ (r.method = "tools/call" /\ r.name \in Tools)
           call == r.method = "tools/call"
           bad == \/ "keys" \in r.defects
                  \/ call /\ (r.name = "" \/ "arguments" \in r.defects)
                  \/ call /\ r.name \notin ReviewTools /\ r.args # "none"
                  \/ "meta" \in r.defects
           E == {InvalidRequest, MethodNotFound, InvalidParams, ParseError}
           name == IF call /\ "keys" \notin r.defects /\ r.name # "" THEN r.name ELSE NoName
<1>1. PICK c, n : c = ClassifyEnvelope(r) /\ n = name
  BY Zenon
<1>2. \/ \E k \in E : c = [method |-> "", name |-> NoName, code |-> k]
      \/ c = Classified(r, NoName, InvalidRequest)
      \/ r.method # "" /\ c = ClassifyParams(r)
  BY <1>1, Zenon DEF ClassifyEnvelope
<1>3. c = ClassifyParams(r) => \/ \E m : \E k \in E : c = Classified(r, m, k)
                               \/ c = Classified(r, n, 0) /\ ~bad /\ Asks
  BY <1>1, Zenon DEF ClassifyParams
<1>4. E \subseteq Int \ {0}
  BY DEF InvalidRequest, MethodNotFound, InvalidParams, ParseError
<1> HIDE DEF Asks, bad, E, name, call
<1>5. ASSUME NEW m, NEW q, NEW k \in Int \ {0}, c = [method |-> q, name |-> m, code |-> k]
      PROVE  FALSE
  <2>1. c.code # 0 
    BY <1>5, Zenon
  <2> QED
    BY <1>1, <2>1, Zenon DEF Classify
<1>6. /\ r.method # "" /\ c = Classified(r, n, 0) /\ ~bad /\ Asks
  BY <1>2, <1>3, <1>4, <1>5, Zenon DEF Classified, E
<1>7. c.method = r.method /\ c.name = n /\ c.code = 0 /\ [c EXCEPT !.code = MethodNotFound].code # 0
  <2>1. ASSUME NEW m, NEW q, NEW d, d = [method |-> q, name |-> m, code |-> 0]
        PROVE  d.method = q /\ d.name = m /\ d.code = 0 /\ [d EXCEPT !.code = MethodNotFound].code = MethodNotFound
    BY <2>1
  <2>2. MethodNotFound # 0
    BY DEF MethodNotFound
  <2> QED
    BY <1>6, <2>1, <2>2, Zenon DEF Classified
<1>8. Classify(r, on) = c
  BY <1>1, <1>7, Zenon DEF Classify
<1>9. call => n = r.name
  BY <1>1, <1>6, Zenon DEF name, bad, call
<1> QED
  BY <1>6, <1>7, <1>8, <1>9, Zenon DEF call, Asks

\* The ways of ServeHTTP: an answer before the SDK is asked, or what the SDK made of the request.
LEMMA ServeIs ==
    ASSUME NEW r, NEW on, NEW result, NEW a, NEW c, a = ServeHTTP(r, on, result), c = Classify(r, on)
    PROVE  \/ /\ FailedChecks(r) # {}
              /\ a = Fixed(r, FirstFailed(r).status, FirstFailed(r).outcome, Nothing)
           \/ FailedChecks(r) = {} /\ \E s, k : a \in {Fixed(r, s, "failure", Nothing), Failure(r, s, k, Nothing)}
           \/ /\ FailedChecks(r) = {} /\ a = Deliver(r, c, on, result)
              /\ Disagrees(r, c) \notin {"rpc", "fixed"}
              /\ c.name \in ReviewTools /\ "review" \in on => r.args = "valid"
<1> DEFINE D == Disagrees(r, c)
           args == c.name \in ReviewTools /\ "review" \in on
           m == c.method
           code == c.code
           del == Deliver(r, c, on, result)
           F == FailedChecks(r)
           first == Fixed(r, FirstFailed(r).status, FirstFailed(r).outcome, Nothing)
<1>1. PICK s, t, z : s = 400 /\ t = 200 /\ z = {0, ParseError}
  OBVIOUS
<1>2. a = IF F # {} THEN first
          ELSE IF m = "notifications/initialized" THEN Fixed(r, s, "failure", Nothing)
          ELSE IF D = "rpc" THEN Failure(r, s, RoutingMismatch, Nothing)
          ELSE IF D = "fixed" THEN Fixed(r, s, "failure", Nothing)
          ELSE IF code \notin z THEN Failure(r, t, code, Nothing)
          ELSE IF c.name \in ReviewTools /\ "review" \in on /\ r.args # "valid"
               THEN Failure(r, t, InvalidParams, Nothing)
          ELSE del
  BY <1>1, SMT DEF ServeHTTP
<1> HIDE DEF D, del, F, first, m, code
<1>3. \/ F # {} /\ a = first
      \/ F = {} /\ \E s1, k : a \in {Fixed(r, s1, "failure", Nothing), Failure(r, s1, k, Nothing)}
      \/ F = {} /\ a = del /\ D \notin {"rpc", "fixed"} /\ (args => r.args = "valid")
  BY <1>2, Zenon
<1> QED
  BY <1>3, Zenon DEF D, del, F, first

\* The status in the audit log, and when success is audited.
LEMMA AuditOf ==
    ASSUME NEW r, NEW on, NEW result
    PROVE  LET a == ServeHTTP(r, on, result)
           IN  /\ a.status = a.written
               /\ a.outcome = "success" => a.written = 200 /\ a.code = 0 /\ a.ran # Nothing
               /\ "token" \in r.fails =>
                      a.written = (IF "route" \in r.fails THEN 404 ELSE 401) /\ a.ran = Nothing
<1>1. PICK a, c : a = ServeHTTP(r, on, result) /\ c = Classify(r, on)
  BY Zenon
<1> DEFINE Audit == /\ a.status = a.written
                    /\ a.outcome = "success" => a.written = 200 /\ a.code = 0 /\ a.ran # Nothing
           Token == "token" \in r.fails =>
                      a.written = (IF "route" \in r.fails THEN 404 ELSE 401) /\ a.ran = Nothing
<1>2. "failure" # "success"
  OBVIOUS
<1>3. FailedChecks(r) = {} => Token
  BY TokenSecond, ZenonT(30)
<1>4. ASSUME FailedChecks(r) # {}, a = Fixed(r, FirstFailed(r).status, FirstFailed(r).outcome, Nothing)
      PROVE  Audit /\ Token
  <2>1. a.status = FirstFailed(r).status /\ a.written = a.status /\ a.outcome = FirstFailed(r).outcome /\ a.ran = Nothing
    BY <1>4, FixedIs
  <2>2. a.outcome # "success"
    BY <1>4, <2>1, FirstIsNoSuccess, Zenon
  <2> QED
    BY <2>1, <2>2, TokenSecond
<1>5. ASSUME FailedChecks(r) = {}, NEW s, NEW k, a \in {Fixed(r, s, "failure", Nothing), Failure(r, s, k, Nothing)}
      PROVE  Audit /\ Token
  <2>1. a.status = a.written /\ a.outcome = "failure"
    BY <1>5, FixedIs, FailureIs
  <2>2. Audit
    BY <2>1, <1>2, Zenon
  <2> HIDE DEF Audit, Token
  <2> QED
    BY <1>3, <1>5, <2>2, ZenonT(30)
<1>6. ASSUME FailedChecks(r) = {}, a = Deliver(r, c, on, result)
      PROVE  Audit /\ Token
  <2>1. Audit
    BY <1>6, DeliverIs
  <2> HIDE DEF Audit, Token
  <2> QED
    BY <1>3, <1>6, <2>1, Zenon
<1>7. Audit /\ Token
  <2>1. \/ /\ FailedChecks(r) # {}
           /\ a = Fixed(r, FirstFailed(r).status, FirstFailed(r).outcome, Nothing)
        \/ FailedChecks(r) = {} /\ \E s, k : a \in {Fixed(r, s, "failure", Nothing), Failure(r, s, k, Nothing)}
        \/ /\ FailedChecks(r) = {} /\ a = Deliver(r, c, on, result)
           /\ Disagrees(r, c) \notin {"rpc", "fixed"}
           /\ c.name \in ReviewTools /\ "review" \in on => r.args = "valid"
    BY <1>1, ServeIs
  <2> HIDE DEF Audit, Token
  <2>2. CASE FailedChecks(r) # {} /\ a = Fixed(r, FirstFailed(r).status, FirstFailed(r).outcome, Nothing)
    BY <1>4, <2>2, Zenon
  <2>3. CASE /\ FailedChecks(r) = {}
             /\ \E s, k : a \in {Fixed(r, s, "failure", Nothing), Failure(r, s, k, Nothing)}
    <3>1. PICK s, k : a \in {Fixed(r, s, "failure", Nothing), Failure(r, s, k, Nothing)}
      BY <2>3, Zenon
    <3> QED
      BY <1>5, <2>3, <3>1, SMT
  <2>4. CASE FailedChecks(r) = {} /\ a = Deliver(r, c, on, result)
    BY <1>6, <2>4, Zenon
  <2> QED
    BY <2>1, <2>2, <2>3, <2>4, ZenonT(30)
<1> QED
  BY <1>1, <1>7, Zenon

\* What is executed is what the headers name and what the body asks for.
LEMMA RanIs ==
    ASSUME NEW r, NEW on, NEW result, r.mheader \in Seq(STRING), r.nheader \in Seq(STRING),
           ServeHTTP(r, on, result).ran # Nothing
    PROVE  LET a == ServeHTTP(r, on, result)
           IN  /\ a.operation = a.ran
               /\ a.ran = IF r.method = "tools/call" THEN r.name ELSE r.method
               /\ a.ran \in OperatorTools => "operator" \in on
               /\ a.ran \in ReviewTools => "review" \in on /\ r.args = "valid"
<1>1. PICK a, c : a = ServeHTTP(r, on, result) /\ c = Classify(r, on)
  BY Zenon
<1>2. /\ FailedChecks(r) = {} /\ a = Deliver(r, c, on, result)
      /\ Disagrees(r, c) \notin {"rpc", "fixed"}
      /\ c.name \in ReviewTools /\ "review" \in on => r.args = "valid"
  <2>1. ASSUME NEW s, NEW k, NEW o
        PROVE  Fixed(r, s, o, Nothing).ran = Nothing /\ Failure(r, s, k, Nothing).ran = Nothing
    <3>1. Fixed(r, s, o, Nothing).ran = Nothing
      BY FixedIs, SMT
    <3>2. Failure(r, s, k, Nothing).ran = Nothing
      BY FailureIs, SMT
    <3> QED
      BY <3>1, <3>2, ZenonT(30)
  <2>2. \/ /\ FailedChecks(r) # {}
           /\ a = Fixed(r, FirstFailed(r).status, FirstFailed(r).outcome, Nothing)
        \/ FailedChecks(r) = {} /\ \E s, k : a \in {Fixed(r, s, "failure", Nothing), Failure(r, s, k, Nothing)}
        \/ /\ FailedChecks(r) = {} /\ a = Deliver(r, c, on, result)
           /\ Disagrees(r, c) \notin {"rpc", "fixed"}
           /\ c.name \in ReviewTools /\ "review" \in on => r.args = "valid"
    BY <1>1, ServeIs
  <2>3. a.ran # Nothing
    BY <1>1, Zenon
  <2> QED
    BY <2>1, <2>2, <2>3, Zenon
<1>3. a.operation = OperationForHeaders(r) /\ a.ran = Executed(c, on) /\ a.ran # Nothing
  BY <1>1, <1>2, DeliverIs, SMT
<1>4. c.code = 0 /\ c.code # ParseError
  BY <1>3 DEF Executed, ParseError
<1>5. /\ c.method = r.method /\ c.method # ""
      /\ c.method = "tools/call" => c.name = r.name /\ c.name \in Tools
      /\ c.method # "tools/call" => c.method \in {"server/discover", "tools/list"}
  BY <1>1, <1>4, ClassifiedIs, Zenon
<1>6. /\ r.mheader[1] = c.method
      /\ (c.method = "tools/call") <=> (r.nheader # <<>>)
      /\ c.method = "tools/call" => r.nheader[1] = c.name
  BY <1>2, <1>4, <1>5, ZenonT(30) DEF Disagrees
<1>7. Required(r.mheader) /\ Optional(r.nheader)
  <2>1. ~Checks(r)[8].failed /\ ~Checks(r)[9].failed
    <3>1. DOMAIN Checks(r) = 1 .. 14 /\ 8 \in 1 .. 14 /\ 9 \in 1 .. 14
      BY ChecksAre
    <3> QED
      BY <1>2, <3>1, Zenon DEF FailedChecks
  <2> QED
    BY <2>1, ChecksAre
<1>8. r.mheader = <<c.method>> /\ (r.nheader # <<>> => Len(r.nheader) = 1)
  <2>1. ASSUME NEW s \in Seq(STRING), Len(s) = 1 PROVE s = <<s[1]>>
    BY <2>1
  <2>2. r.mheader = <<r.mheader[1]>>
    BY <1>7, <2>1, Zenon DEF Required
  <2> QED
    BY <1>6, <1>7, <2>2, Zenon DEF Required, Optional
<1>9. CASE c.method = "tools/call"
  <2>1. a.ran = c.name /\ c.name \in RegisteredTools(on)
    BY <1>3, <1>4, <1>9, Zenon DEF Executed
  <2>2. OperationForHeaders(r) = c.name
    BY <1>5, <1>6, <1>8, <1>9, Zenon DEF OperationForHeaders
  <2> QED
    BY <1>1, <1>2, <1>3, <1>5, <1>9, <2>1, <2>2, Zenon DEF RegisteredTools, OperatorTools, ReviewTools, Capabilities
<1>10. CASE c.method # "tools/call"
  <2>1. a.ran = c.method
    BY <1>3, <1>4, <1>10, Zenon DEF Executed
  <2>2. Len(r.nheader) # 1
    <3>1. Len(<<>>) # 1
      OBVIOUS
    <3> QED
      BY <1>6, <1>10, <3>1, Zenon
  <2>3. OperationForHeaders(r) = c.method
    BY <1>5, <1>6, <1>8, <1>10, <2>2, Zenon DEF OperationForHeaders
  <2> QED
    BY <1>1, <1>3, <1>5, <1>10, <2>1, <2>3, Zenon DEF OperatorTools, ReviewTools
<1> QED
  BY <1>9, <1>10, Zenon

\* One request is answered once, and by ServeHTTP.
RequestInv ==
    /\ req \in McpRequests
    /\ answer = Unanswered \/ answer = ServeHTTP(req, enabled, sdk)

\* The caller, the audit log and the tool agree about every request: what is executed is what
\* the log names, what the body asks for and what is configured; without the token there is
\* only 404 or 401; success is audited only for an answer without an error
\* (Handler.ServeHTTP).
THEOREM AnswerTrue == RequestSpec => []AnswerIsTrue
<1>1. RequestInit => RequestInv
  BY Zenon DEF RequestInit, RequestInv
<1>2. RequestInv /\ [RequestNext]_requestVars => RequestInv'
  <2>1. CASE Answered
    BY <2>1, Zenon DEF RequestInv, Answered
  <2>2. CASE UNCHANGED requestVars
    BY <2>2, Zenon DEF RequestInv, requestVars
  <2> QED
    BY <2>1, <2>2, Zenon DEF RequestNext
<1>3. RequestInv => AnswerIsTrue
  <2> SUFFICES ASSUME RequestInv, answer # Unanswered PROVE AnswerIsTrue
    BY Zenon DEF AnswerIsTrue, AuditNamesTheTool, TokenFirst, AuditIsTrue
  <2>1. answer = ServeHTTP(req, enabled, sdk) /\ req \in McpRequests
    BY Zenon DEF RequestInv
  <2>2. req.mheader \in Seq(STRING) /\ req.nheader \in Seq(STRING)
    BY <2>1, McpConstants, Zenon
  <2>3. AuditNamesTheTool
    BY <2>1, <2>2, RanIs, ZenonT(30) DEF AuditNamesTheTool
  <2>4. TokenFirst /\ AuditIsTrue
    BY <2>1, AuditOf, SMT DEF TokenFirst, AuditIsTrue
  <2> QED
    BY <2>3, <2>4, Zenon DEF AnswerIsTrue
<1> QED
  BY <1>1, <1>2, <1>3, PTL DEF RequestSpec
=============================================================================
