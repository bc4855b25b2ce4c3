----------------------------- MODULE McpHandler -----------------------------
(***************************************************************************)
(* The life of the requests of an MCP handler and its Close                *)
(* (internal/mcp/handler.go), with the storage handle that the tools read  *)
(* and that mcpReadCloser closes after the handler (cmd/inboxgate).        *)
(* McpRequest.tla has what a request is answered.                          *)
(***************************************************************************)
EXTENDS Integers, FiniteSets

CONSTANTS
    Requests,  \* the goroutines of net/http that serve requests
    Limit      \* MaximumConcurrentRequests

ASSUME HandlerConstants == IsFiniteSet(Requests) /\ Limit \in Nat \ {0}

VARIABLES
    closed,     \* Handler.closed
    admission,  \* how many values Handler.admission holds
    requests,   \* Handler.requests
    active,     \* the counter of Handler.active
    cancelled,  \* the contexts below Handler.rootContext are cancelled
    pc,         \* where each request is
    closer,     \* where mcpCloser.Close is
    source      \* the storage handle: "none", "open", "closed" or "broken"

handlerVars == <<closed, admission, requests, active, cancelled, pc, closer, source>>

HandlerInit ==
    /\ closed = FALSE /\ cancelled = FALSE
    /\ admission = 0 /\ active = 0 /\ requests = {}
    /\ pc = [r \in Requests |-> "idle"]
    /\ closer = "idle" /\ source = "none"

Goto(r, l) == pc' = [pc EXCEPT ![r] = l]

-----------------------------------------------------------------------------
(* ServeHTTP.  A request that is answered leaves its goroutine idle. *)

\* isClosed, and the checks of the route
Arrive(r) ==
    /\ pc[r] = "idle"
    /\ ~closed
    /\ Goto(r, "authenticate")
    /\ UNCHANGED <<closed, admission, requests, active, cancelled, closer, source>>

\* authenticate, and the checks of the headers
Authenticate(r) ==
    /\ pc[r] = "authenticate"
    /\ \E authorized \in BOOLEAN : Goto(r, IF authorized /\ ~closed THEN "admit" ELSE "idle")
    /\ UNCHANGED <<closed, admission, requests, active, cancelled, closer, source>>

\* Mutant of Admit: whether the handler is closed was looked at before.
AdmitUnchecked(r) ==
    /\ pc[r] = "admit"
    /\ IF admission = Limit
       THEN Goto(r, "idle") /\ UNCHANGED <<admission, requests, active>>
       ELSE /\ admission' = admission + 1
            /\ active' = active + 1
            /\ requests' = requests \union {r}
            /\ Goto(r, "reading")
    /\ UNCHANGED <<closed, cancelled, closer, source>>

\* admit
Admit(r) ==
    /\ pc[r] = "admit"
    /\ IF closed \/ admission = Limit
       THEN Goto(r, "idle") /\ UNCHANGED <<admission, requests, active>>
       ELSE /\ admission' = admission + 1
            /\ active' = active + 1
            /\ requests' = requests \union {r}
            /\ Goto(r, "reading")
    /\ UNCHANGED <<closed, cancelled, closer, source>>

\* The client has sent its body; a tool reads from the storage handle.
Dispatch(r) ==
    /\ pc[r] = "reading"
    /\ Goto(r, "calling")
    /\ UNCHANGED <<closed, admission, requests, active, cancelled, closer, source>>

\* The body is refused, or the tool has answered.
Respond(r) ==
    /\ pc[r] \in {"reading", "calling"}
    /\ Goto(r, "delete")
    /\ UNCHANGED <<closed, admission, requests, active, cancelled, closer, source>>

\* The context is cancelled: the body is closed under the reader, the tool returns.
Interrupted(r) == cancelled /\ Respond(r)

\* release, in three steps
Delete(r) ==
    /\ pc[r] = "delete"
    /\ requests' = requests \ {r}
    /\ Goto(r, "free")
    /\ UNCHANGED <<closed, admission, active, cancelled, closer, source>>

\* Mutant of Free: the place in Handler.admission is kept.
FreeKeeps(r) ==
    /\ pc[r] = "free"
    /\ Goto(r, "leave")
    /\ UNCHANGED <<closed, admission, requests, active, cancelled, closer, source>>

Free(r) ==
    /\ pc[r] = "free"
    /\ admission > 0
    /\ admission' = admission - 1
    /\ Goto(r, "leave")
    /\ UNCHANGED <<closed, requests, active, cancelled, closer, source>>

Leave(r) ==
    /\ pc[r] = "leave"
    /\ active' = active - 1
    /\ Goto(r, "idle")
    /\ UNCHANGED <<closed, admission, requests, cancelled, closer, source>>

Serve(r) ==
    \/ Authenticate(r) \/ Admit(r) \/ Dispatch(r) \/ Respond(r)
    \/ Delete(r) \/ Free(r) \/ Leave(r)

-----------------------------------------------------------------------------
(* mcpReadCloser.Close: Handler.Close, then the Close of the storage handle. *)

CloseMark ==
    /\ closer = "mark"
    /\ closed' = TRUE
    /\ closer' = "cancel"
    /\ UNCHANGED <<admission, requests, active, cancelled, pc, source>>

\* Mutant of CloseCancel: no context is cancelled.
CloseWithoutCancel ==
    /\ closer = "cancel"
    /\ closer' = "wait"
    /\ UNCHANGED <<closed, admission, requests, active, cancelled, pc, source>>

CloseCancel ==
    /\ closer = "cancel"
    /\ cancelled' = TRUE
    /\ closer' = "wait"
    /\ UNCHANGED <<closed, admission, requests, active, pc, source>>

CloseWait ==
    /\ closer = "wait"
    /\ active = 0
    /\ closer' = "source"
    /\ UNCHANGED <<closed, admission, requests, active, cancelled, pc, source>>

CloseSource ==
    /\ closer = "source"
    /\ source' \in IF source = "open" THEN {"closed", "broken"} ELSE {source}
    /\ closer' = "done"
    /\ UNCHANGED <<closed, admission, requests, active, cancelled, pc>>

Close == CloseMark \/ CloseCancel \/ CloseWait \/ CloseSource
=============================================================================
