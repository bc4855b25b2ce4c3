------------------------------ MODULE Serving ------------------------------
(***************************************************************************)
(* The serve command: runServe (cmd/inboxgate/main.go) builds the MCP      *)
(* handler and the runtime, Runtime.ListenAndServe                         *)
(* (internal/server/server.go) serves until a signal or a failure and      *)
(* shuts down within one deadline.  net/http is external: Serve ends with  *)
(* a failure or when Shutdown is called, Shutdown returns when no request  *)
(* is served any more.                                                     *)
(***************************************************************************)
EXTENDS McpHandler

VARIABLES
    main,      \* where runServe and ListenAndServe are
    http,      \* Serve: "off", "serving", "failed" or "shutdown"
    ready,     \* Runtime.readiness
    signal,    \* a signal waits in the channel
    deadline,  \* the context of the shutdown has ended
    exit,      \* the exit code, or "none"
    reason     \* the failure that was logged last

servingVars == <<main, http, ready, signal, deadline, exit, reason>>
vars == <<handlerVars, servingVars>>

Init ==
    /\ HandlerInit
    /\ main = "source" /\ http = "off" /\ exit = "none" /\ reason = "none"
    /\ ready = FALSE /\ signal = FALSE /\ deadline = FALSE

Running == exit = "none"

Quit(code, why) == main' = "exit" /\ exit' = code /\ reason' = why

\* closeMCP, or mcpCloser.Close, called by the main goroutine itself.
CloseAndQuit(why) == main' = "failing" /\ closer' = "mark" /\ reason' = why /\ exit' = exit

-----------------------------------------------------------------------------
(* runServe *)

\* openMCPReadServices: a service that cannot be built closes the handle again.
OpenSource ==
    /\ main = "source"
    /\ \/ main' = "handler" /\ source' \in {"none", "open"} /\ UNCHANGED <<exit, reason>>
       \/ source' \in {"none", "closed"} /\ Quit("1", "construct")
    /\ UNCHANGED <<closed, admission, requests, active, cancelled, pc, closer, http, ready, signal, deadline>>

\* mcp.New
NewHandler ==
    /\ main = "handler"
    /\ \/ main' = "runtime" /\ UNCHANGED <<source, exit, reason>>
       \/ source' = (IF source = "open" THEN "closed" ELSE source) /\ Quit("1", "construct")
    /\ UNCHANGED <<closed, admission, requests, active, cancelled, pc, closer, http, ready, signal, deadline>>

\* server.New, then net.Listen in ListenAndServe
NewRuntime ==
    /\ main \in {"runtime", "listen"}
    /\ \/ main' = (IF main = "runtime" THEN "listen" ELSE "start") /\ UNCHANGED <<closer, exit, reason>>
       \/ CloseAndQuit(IF main = "runtime" THEN "construct" ELSE "listen_failed")
    /\ UNCHANGED <<closed, admission, requests, active, cancelled, pc, source, http, ready, signal, deadline>>

-----------------------------------------------------------------------------
(* ListenAndServe *)

StartServe ==
    /\ main = "start" /\ http = "off"
    /\ http' = "serving"
    /\ UNCHANGED <<handlerVars, main, ready, signal, deadline, exit, reason>>

\* <-started, then the readiness
Started ==
    /\ main = "start" /\ http # "off"
    /\ ready' = TRUE
    /\ main' = "serving"
    /\ UNCHANGED <<handlerVars, http, signal, deadline, exit, reason>>

\* case err := <-serveResult
ServeEnded ==
    /\ main = "serving" /\ http = "failed"
    /\ ready' = FALSE
    /\ CloseAndQuit("serve_failed")
    /\ UNCHANGED <<closed, admission, requests, active, cancelled, pc, source, http, signal, deadline>>

\* The main goroutine's own call of Close has returned.
Failed ==
    /\ main = "failing" /\ closer = "done"
    /\ Quit("1", reason)
    /\ UNCHANGED <<handlerVars, http, ready, signal, deadline>>

\* case <-signals
Signalled ==
    /\ main = "serving" /\ signal
    /\ ready' = FALSE
    /\ main' = "shutdown"
    /\ UNCHANGED <<handlerVars, http, signal, deadline, exit, reason>>

\* The goroutine that calls closeMCP, and the call of Shutdown.
BeginShutdown ==
    /\ main = "shutdown"
    /\ main' = "drain"
    /\ closer' = "mark"
    /\ http' = IF http = "failed" THEN http ELSE "shutdown"
    /\ UNCHANGED <<closed, admission, requests, active, cancelled, pc, source, ready, signal, deadline, exit, reason>>

\* Shutdown has returned: with nil, with the error of the listener, or because time is up.
Drained ==
    /\ main = "drain"
    /\ \/ /\ \A r \in Requests : pc[r] = "idle"
          /\ \/ main' = "join" /\ UNCHANGED <<exit, reason>>
             \/ Quit("1", "shutdown_failed")
       \/ deadline /\ Quit("1", "shutdown_timeout")
    /\ UNCHANGED <<handlerVars, http, ready, signal, deadline>>

\* case mcpErr = <-mcpResult, the end of Serve, or case <-shutdownContext.Done()
Joined ==
    /\ main = "join"
    /\ \/ /\ closer = "done"
          /\ IF http = "failed" THEN Quit("1", "serve_failed")
             ELSE IF source = "broken" THEN Quit("1", "shutdown_failed")
             ELSE Quit("0", "none")
       \/ deadline /\ Quit("1", "shutdown_timeout")
    /\ UNCHANGED <<handlerVars, http, ready, signal, deadline>>

Main ==
    \/ OpenSource \/ NewHandler \/ NewRuntime \/ StartServe \/ Started \/ ServeEnded
    \/ Failed \/ Signalled \/ BeginShutdown \/ Drained \/ Joined

-----------------------------------------------------------------------------
(* The environment: connections bring requests until Shutdown has returned, *)
(* Serve fails, a signal arrives, time passes.                              *)

Delivering == http # "off" /\ main \in {"start", "serving", "shutdown", "drain", "failing"}

ServeFails ==
    /\ http = "serving"
    /\ http' = "failed"
    /\ UNCHANGED <<handlerVars, main, ready, signal, deadline, exit, reason>>

Signal ==
    /\ ~signal
    /\ signal' = TRUE
    /\ UNCHANGED <<handlerVars, main, http, ready, deadline, exit, reason>>

Deadline ==
    /\ main \in {"drain", "join"} /\ ~deadline
    /\ deadline' = TRUE
    /\ UNCHANGED <<handlerVars, main, http, ready, signal, exit, reason>>

Next ==
    /\ Running
    /\ \/ Main \/ ServeFails \/ Signal \/ Deadline
       \/ Close /\ UNCHANGED servingVars
       \/ \E r \in Requests :
             \/ Delivering /\ Arrive(r) /\ UNCHANGED servingVars
             \/ Serve(r) /\ UNCHANGED servingVars

Spec == Init /\ [][Next]_vars

\* The goroutine of the command runs.
FairSpec == Spec /\ WF_vars(Running /\ Main)

\* The timer of the shutdown fires; no request and no Close need move.
DeadlineFires == WF_vars(Running /\ Deadline)

\* Goroutines run; a client and a tool owe nothing until they are interrupted.
Goroutine(r) ==
    Authenticate(r) \/ Admit(r) \/ Interrupted(r) \/ Delete(r) \/ Free(r) \/ Leave(r)

HandlerRuns ==
    /\ WF_vars(Running /\ Close /\ UNCHANGED servingVars)
    /\ \A r \in Requests : WF_vars(Running /\ Goroutine(r) /\ UNCHANGED servingVars)

-----------------------------------------------------------------------------
Admitted == {r \in Requests : pc[r] \in {"reading", "calling", "delete", "free", "leave"}}
Placed == {r \in Requests : pc[r] \in {"reading", "calling", "delete", "free"}}
Registered == {r \in Requests : pc[r] \in {"reading", "calling", "delete"}}

\* The counters and the register of the handler are what the requests in flight
\* make them, so no more than Limit requests work at once: admit counts under
\* the lock, release gives back in three steps of which two hold no lock.
AdmissionCounted ==
    /\ admission = Cardinality(Placed)
    /\ active = Cardinality(Admitted)
    /\ requests = Registered
    /\ admission <= Limit

\* A tool never reads from a storage handle that was closed under it: Close stops
\* admission, cancels and drains before mcpReadCloser closes the handle.
SourceOutlivesRequests ==
    \A r \in Requests : pc[r] = "calling" => source \in {"none", "open"}

\* Readiness is withdrawn before the MCP handler is closed, on every path.
ReadyMeansOpen == ready => ~closed

\* Exit code 0 is returned only after a complete shutdown: nothing is in flight
\* and the storage handle was closed without an error.
ExitIsTrue ==
    exit = "0" =>
        /\ closer = "done" /\ Admitted = {}
        /\ source \in {"none", "closed"}
        /\ http = "shutdown"

\* Whatever way the command ends, it has closed the storage handle that it
\* opened, unless the shutdown itself ran out of time or failed.
OpenedIsClosed ==
    ~Running /\ source = "open" => reason \in {"shutdown_timeout", "shutdown_failed"}

\* The storage handle lives from its opening to the end of the last request that
\* uses it, and what readiness and exit code say of the process is so (runServe,
\* ListenAndServe, Handler.Close).
ServeIsSound == SourceOutlivesRequests /\ ReadyMeansOpen /\ ExitIsTrue /\ OpenedIsClosed

\* After a signal the process ends, even when no request ever finishes and Close
\* never returns: Shutdown and the wait for closeMCP share one deadline.
SignalEnds == DeadlineFires => (main = "shutdown" ~> ~Running)

\* After a failure of Serve there is no deadline, and the process ends because
\* Close cancels what is in flight: neither a client nor a tool has to move.
FailureEnds == HandlerRuns => (main = "failing" ~> ~Running)

\* The process ends on both ways out of ListenAndServe, each for its own reason.
ServeEnds == SignalEnds /\ FailureEnds
=============================================================================
