---------------------------- MODULE DriverClose ----------------------------
(***************************************************************************)
(* The life of the connections of the serverless driver                    *)
(* (third_party/tursogo-serverless/driver.go) and how they are closed: by  *)
(* database/sql, one at a time, and by Connector.CloseContext, which the   *)
(* storage handle's Close (internal/storage/turso/adapter.go) calls.       *)
(***************************************************************************)
EXTENDS Integers, FiniteSets

CONSTANTS
    Conns,    \* the connections that database/sql asks for
    Callers,  \* goroutines that call Connector.CloseContext
    Workers,  \* the goroutines of closeConnections
    NoConn

ASSUME DriverConstants == NoConn \notin Conns

VARIABLES
    conn,       \* each connection: "none", "free", "busy" (its mutex is held) or "closed"
    closing,    \* its CloseContext: "no", "lock", "session", "unregister", "publish" or "done"
    failed,     \* its closeErr is not nil
    registered, \* Connector.connections
    connError,  \* Connector.connectionErr is not nil
    shutdown,   \* Connector.shutdown: closeDone exists
    published,  \* closeDone is closed
    closeError, \* Connector.closeErr is not nil
    jobs,       \* the connections that no worker has taken
    prior,      \* priorErr is not nil
    failures,   \* a worker has sent an error
    work,       \* the connection each worker closes, or NoConn
    caller,     \* each caller: "idle", "primary", "wait" or "returned"
    result      \* each caller has returned an error

connVars == <<conn, closing, failed, registered, connError>>
closeVars == <<shutdown, published, closeError, jobs, prior, failures, work, caller, result>>
driverVars == <<connVars, closeVars>>

CloseInit ==
    /\ conn = [c \in Conns |-> "none"] /\ closing = [c \in Conns |-> "no"]
    /\ failed = [c \in Conns |-> FALSE] /\ registered = {} /\ connError = FALSE
    /\ shutdown = FALSE /\ published = FALSE /\ closeError = FALSE
    /\ jobs = {} /\ prior = FALSE /\ failures = FALSE
    /\ work = [w \in Workers |-> NoConn]
    /\ caller = [k \in Callers |-> "idle"] /\ result = [k \in Callers |-> FALSE]

-----------------------------------------------------------------------------
(* Connections *)

Connect(c) ==
    /\ conn[c] = "none" /\ ~shutdown
    /\ conn' = [conn EXCEPT ![c] = "free"]
    /\ registered' = registered \union {c}
    /\ UNCHANGED <<closing, failed, connError, closeVars>>

\* Every operation holds the mutex of the connection from the look at closed to its answer.
Operate(c) ==
    /\ conn[c] = "free"
    /\ conn' = [conn EXCEPT ![c] = "busy"]
    /\ UNCHANGED <<closing, failed, registered, connError, closeVars>>

Answered(c) ==
    /\ conn[c] = "busy"
    /\ conn' = [conn EXCEPT ![c] = "free"]
    /\ UNCHANGED <<closing, failed, registered, connError, closeVars>>

\* conn.CloseContext: the first caller goes on, any other waits for "done".
CloseBegin(c) ==
    /\ conn[c] # "none" /\ closing[c] = "no"
    /\ closing' = [closing EXCEPT ![c] = "lock"]
    /\ UNCHANGED <<conn, failed, registered, connError>>

CloseLock(c) ==
    /\ closing[c] = "lock" /\ conn[c] = "free"
    /\ conn' = [conn EXCEPT ![c] = "closed"]
    /\ closing' = [closing EXCEPT ![c] = "session"]
    /\ UNCHANGED <<failed, registered, connError, closeVars>>

\* session.close, which may fail
CloseSession(c) ==
    /\ closing[c] = "session"
    /\ failed' \in {[failed EXCEPT ![c] = b] : b \in BOOLEAN}
    /\ closing' = [closing EXCEPT ![c] = "unregister"]
    /\ UNCHANGED <<conn, registered, connError, closeVars>>

\* Mutant of Unregister: the error is left to the connection.
UnregisterSilently(c) ==
    /\ closing[c] = "unregister"
    /\ registered' = registered \ {c}
    /\ closing' = [closing EXCEPT ![c] = "publish"]
    /\ UNCHANGED <<conn, failed, connError, closeVars>>

\* Connector.unregister: both under one lock
Unregister(c) ==
    /\ closing[c] = "unregister"
    /\ registered' = registered \ {c}
    /\ connError' = (connError \/ failed[c])
    /\ closing' = [closing EXCEPT ![c] = "publish"]
    /\ UNCHANGED <<conn, failed, closeVars>>

\* Mutant of Publish: an error returns before done is closed.
PublishWithoutError(c) ==
    /\ closing[c] = "publish" /\ ~failed[c]
    /\ closing' = [closing EXCEPT ![c] = "done"]
    /\ UNCHANGED <<conn, failed, registered, connError, closeVars>>

Publish(c) ==
    /\ closing[c] = "publish"
    /\ closing' = [closing EXCEPT ![c] = "done"]
    /\ UNCHANGED <<conn, failed, registered, connError, closeVars>>

\* database/sql closes a connection that it no longer wants.
Evict(c) == CloseBegin(c) /\ UNCHANGED closeVars

-----------------------------------------------------------------------------
(* Connector.CloseContext *)

CloseStart(k) ==
    /\ caller[k] = "idle"
    /\ IF shutdown
       THEN caller' = [caller EXCEPT ![k] = "wait"] /\ UNCHANGED <<shutdown, jobs, prior>>
       ELSE /\ shutdown' = TRUE
            /\ jobs' = registered
            /\ prior' = connError
            /\ caller' = [caller EXCEPT ![k] = "primary"]
    /\ UNCHANGED <<connVars, published, closeError, failures, work, result>>

\* A worker takes a connection and calls its CloseContext.
Take(w) ==
    /\ work[w] = NoConn
    /\ \E c \in jobs :
          /\ jobs' = jobs \ {c}
          /\ work' = [work EXCEPT ![w] = c]
          /\ \/ CloseBegin(c)
             \/ closing[c] # "no" /\ UNCHANGED connVars
    /\ UNCHANGED <<shutdown, published, closeError, prior, failures, caller, result>>

Collect(w) ==
    /\ work[w] # NoConn
    /\ closing[work[w]] = "done"
    /\ failures' = (failures \/ failed[work[w]])
    /\ work' = [work EXCEPT ![w] = NoConn]
    /\ UNCHANGED <<connVars, shutdown, published, closeError, jobs, prior, caller, result>>

\* workers.Wait, then the result
CloseFinish(k) ==
    /\ caller[k] = "primary"
    /\ jobs = {} /\ \A w \in Workers : work[w] = NoConn
    /\ closeError' = (failures \/ prior)
    /\ published' = TRUE
    /\ caller' = [caller EXCEPT ![k] = "returned"]
    /\ result' = [result EXCEPT ![k] = failures \/ prior]
    /\ UNCHANGED <<connVars, shutdown, jobs, prior, failures, work>>

CloseJoin(k) ==
    /\ caller[k] = "wait" /\ published
    /\ caller' = [caller EXCEPT ![k] = "returned"]
    /\ result' = [result EXCEPT ![k] = closeError]
    /\ UNCHANGED <<connVars, shutdown, published, closeError, jobs, prior, failures, work>>

Closes(c) == CloseLock(c) \/ CloseSession(c) \/ Unregister(c) \/ Publish(c)
CloseContext(k) == CloseStart(k) \/ CloseFinish(k) \/ CloseJoin(k)

CloseNext ==
    \/ \E c \in Conns : Connect(c) \/ Operate(c) \/ Answered(c) \/ Evict(c) \/ Closes(c)
    \/ \E w \in Workers : Take(w) \/ Collect(w)
    \/ \E k \in Callers : CloseContext(k)

\* Goroutines run, an operation ends by its context, and the mutex of a connection,
\* which operations take again and again, is handed to the one that waits for it.
CloseFairness ==
    /\ \A c \in Conns :
          /\ WF_driverVars(Answered(c)) /\ SF_driverVars(CloseLock(c))
          /\ WF_driverVars(CloseSession(c) \/ Unregister(c) \/ Publish(c))
    /\ \A w \in Workers : WF_driverVars(Take(w) \/ Collect(w))
    /\ \A k \in Callers : WF_driverVars(CloseFinish(k) \/ CloseJoin(k))

CloseSpec == CloseInit /\ [][CloseNext]_driverVars /\ CloseFairness

-----------------------------------------------------------------------------
\* When CloseContext returns, to whichever caller, every connection there ever
\* was is closed, its stream too, and none can be opened.
NothingLeftOpen ==
    (\E k \in Callers : caller[k] = "returned") =>
        /\ registered = {}
        /\ \A c \in Conns : conn[c] \in {"none", "closed"} /\ closing[c] \notin {"lock", "session"}

\* CloseContext returns nil only if every connection was closed without an
\* error, also one that database/sql was closing meanwhile: such a connection is
\* still registered and is waited for, or its error is in connectionErr.
FailuresReported ==
    \A k \in Callers : caller[k] = "returned" /\ ~result[k] => \A c \in Conns : ~failed[c]

\* CloseContext returns with everything closed and every failure known.
CloseIsComplete == NothingLeftOpen /\ FailuresReported

\* CloseContext returns, however connections, evictions and callers interleave.
CloseReturns == \A k \in Callers : caller[k] # "idle" ~> caller[k] = "returned"
=============================================================================
