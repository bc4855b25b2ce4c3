----------------------------- MODULE McpRequest -----------------------------
(***************************************************************************)
(* What Handler.ServeHTTP (internal/mcp/handler.go) answers to one         *)
(* request of an open handler, and what it writes to the audit log.  The   *)
(* body is classified by classifyEnvelope (internal/mcp/envelope.go) and   *)
(* the SDK runs the tool.  A request is a record:                          *)
(*   fails    the checks of its headers and its size that it fails         *)
(*   mheader  the values of Mcp-Method, nheader those of Mcp-Name          *)
(*   decode   what decodeJSONValue makes of the body                       *)
(*   defects  what is wrong in the decoded body                            *)
(*   method, name, args  what the decoded body asks for                    *)
(*   bigId    the id is too large for an error that repeats it             *)
(* and sdk is what the SDK and the tool it runs make of the request.       *)
(***************************************************************************)
EXTENDS Integers, Sequences, FiniteSets

CONSTANTS
    McpRequests,  \* the requests that are considered
    Outcomes,     \* what the SDK can make of a call that it accepts
    Configs       \* the sets of groups of tools that a configuration enables

ASSUME McpConstants == \A r \in McpRequests : {r.mheader, r.nheader} \subseteq Seq(STRING)

VARIABLES req, sdk, enabled, answer

requestVars == <<req, sdk, enabled, answer>>

OperatorTools == {"accounts_list", "mail_sync_status"}
ReviewTools == {"mail_list_review_candidates", "mail_get_gate_reason"}
Capabilities == "system_capabilities"
Tools == OperatorTools \union ReviewTools \union {Capabilities}

NoName == ""
Nothing == "nothing"

\* The errors of JSON-RPC (jsonRPCMessage).
ParseError == -32700
InvalidRequest == -32600
MethodNotFound == -32601
InvalidParams == -32602
InternalError == -32603
RoutingMismatch == -32020
Errors == {ParseError, InvalidRequest, MethodNotFound, InvalidParams, InternalError, RoutingMismatch}

-----------------------------------------------------------------------------
(* The checks before the body is looked at. *)

\* requiredRoutingHeader and optionalRoutingHeader
Required(values) == Len(values) = 1 /\ values[1] # ""
Optional(values) == values = <<>> \/ Required(values)

\* One check of ServeHTTP: what fails it, the status and the audited outcome.
Check(failed, status, outcome) == [failed |-> failed, status |-> status, outcome |-> outcome]

\* ServeHTTP: who may ask at all.
Access(r) ==
    << Check("route" \in r.fails, 404, "failure"),
       Check("token" \in r.fails, 401, "rejected"),
       Check("method" \in r.fails, 405, "failure"),
       Check("browser" \in r.fails, 403, "rejected") >>

\* ServeHTTP: the headers, the admission and the size, in its order.
Envelope(r) ==
    << Check("host" \in r.fails, 400, "failure"),
       Check("content_type" \in r.fails, 415, "failure"),
       Check("accept" \in r.fails, 406, "failure"),
       Check(~Required(r.mheader), 400, "failure"),
       Check(~Optional(r.nheader), 400, "failure"),
       Check("protocol" \in r.fails, 400, "failure"),
       Check("admission" \in r.fails, 429, "failure"),
       Check("length" \in r.fails, 413, "failure"),
       Check("read" \in r.fails, 500, "failure"),
       Check("size" \in r.fails, 413, "failure") >>

Checks(r) == Access(r) \o Envelope(r)

FailedChecks(r) == {i \in DOMAIN Checks(r) : Checks(r)[i].failed}
FirstFailed(r) == Checks(r)[CHOOSE i \in FailedChecks(r) : \A j \in FailedChecks(r) : i <= j]

-----------------------------------------------------------------------------
(* classifyEnvelope *)

Classified(r, name, code) == [method |-> r.method, name |-> name, code |-> code]

\* The part of classifyEnvelope that looks at the params of a request.
ClassifyParams(r) ==
    LET call == r.method = "tools/call"
        name == IF call /\ "keys" \notin r.defects /\ r.name # "" THEN r.name ELSE NoName
    IN  IF "params" \in r.defects THEN Classified(r, NoName, InvalidParams)
        ELSE IF r.method = "initialize" THEN Classified(r, NoName, MethodNotFound)
        ELSE IF r.method = "notifications/initialized" THEN Classified(r, NoName, InvalidRequest)
        ELSE IF \/ "keys" \in r.defects
                \/ call /\ (r.name = "" \/ "arguments" \in r.defects)
                \/ call /\ r.name \notin ReviewTools /\ r.args # "none"
                \/ "meta" \in r.defects
             THEN Classified(r, name, InvalidParams)
        ELSE IF r.method \in {"server/discover", "tools/list"} \/ (call /\ r.name \in Tools)
             THEN Classified(r, name, 0)
        ELSE Classified(r, name, MethodNotFound)

ClassifyEnvelope(r) ==
    IF r.decode = "parse" THEN [method |-> "", name |-> NoName, code |-> ParseError]
    ELSE IF r.decode = "invalid" THEN [method |-> "", name |-> NoName, code |-> InvalidRequest]
    ELSE IF "envelope" \in r.defects \/ r.method = "" THEN Classified(r, NoName, InvalidRequest)
    ELSE ClassifyParams(r)

\* What ServeHTTP adds to it: the operator tools can be switched off.
Classify(r, on) ==
    LET c == ClassifyEnvelope(r)
    IN  IF c.code = 0 /\ c.name \in OperatorTools /\ "operator" \notin on
        THEN [c EXCEPT !.code = MethodNotFound] ELSE c

\* operationForHeaders
OperationForHeaders(r) ==
    IF r.mheader \in {<<"server/discover">>, <<"tools/list">>} /\ Len(r.nheader) # 1 THEN r.mheader[1]
    ELSE IF r.mheader = <<"tools/call">> /\ Len(r.nheader) = 1 /\ r.nheader[1] \in Tools THEN r.nheader[1]
    ELSE "other"

-----------------------------------------------------------------------------
(* The answers.  status is what the audit log gets, written what the client *)
(* gets, code the error of a JSON-RPC reply and ran what the SDK executed.  *)

Answer(r, status, outcome, written, code, ran) ==
    [operation |-> OperationForHeaders(r), status |-> status, outcome |-> outcome,
     written |-> written, code |-> code, ran |-> ran]

\* writeFixed
Fixed(r, status, outcome, ran) == Answer(r, status, outcome, status, 0, ran)

\* writeJSONRPCError: an id that does not fit leaves a fixed 500.
Failure(r, status, code, ran) ==
    IF r.bigId /\ code # ParseError THEN Fixed(r, 500, "failure", ran)
    ELSE Answer(r, status, "failure", status, code, ran)

\* newSDKHandler: the tools that are registered.
RegisteredTools(on) ==
    {Capabilities} \union (IF "operator" \in on THEN OperatorTools ELSE {})
                   \union (IF "review" \in on THEN ReviewTools ELSE {})

\* What the SDK executes: nothing for a body it cannot decode or for a tool it does not know.
Executed(c, on) ==
    IF c.code # 0 THEN Nothing
    ELSE IF c.method # "tools/call" THEN c.method
    ELSE IF c.name \in RegisteredTools(on) THEN c.name
    ELSE Nothing

\* normalizeSDKError
Normalized(code) == IF code \in Errors THEN code ELSE InternalError

\* ServeHTTP after the SDK has filled its buffer.
Deliver(r, c, on, result) ==
    LET ran == Executed(c, on)
        got == IF c.code # 0 THEN [kind |-> "error", code |-> ParseError]
               ELSE IF ran = Nothing THEN [kind |-> "error", code |-> InvalidParams] ELSE result
        bounded == c.method = "tools/call" /\ c.name \in OperatorTools \union ReviewTools
    IN  IF got.kind = "exceeded"
        THEN IF bounded /\ ~r.bigId THEN Failure(r, 200, InternalError, ran) ELSE Fixed(r, 500, "failure", ran)
        ELSE IF got.kind = "empty" /\ bounded THEN Failure(r, 200, InternalError, ran)
        ELSE IF c.code = ParseError THEN Failure(r, 200, ParseError, ran)
        ELSE IF got.kind = "error" THEN Failure(r, 200, Normalized(got.code), ran)
        ELSE IF got.kind = "status" THEN Fixed(r, 500, "failure", ran)
        ELSE IF c.method = "server/discover" /\ r.bigId THEN Fixed(r, 500, "failure", ran)
        ELSE Fixed(r, 200, "success", ran)

\* Mutant of Disagrees: the name of the tool is not compared.
DisagreesMethodOnly(r, c) ==
    IF c.code = ParseError \/ c.method = "" THEN Nothing
    ELSE IF r.mheader[1] # c.method THEN "rpc"
    ELSE IF (c.method = "tools/call") # (r.nheader # <<>>) THEN "fixed"
    ELSE Nothing

\* Headers and body have to name one method and one tool.
Disagrees(r, c) ==
    IF c.code = ParseError \/ c.method = "" THEN Nothing
    ELSE IF r.mheader[1] # c.method THEN "rpc"
    ELSE IF (c.method = "tools/call") # (r.nheader # <<>>) THEN "fixed"
    ELSE IF c.method = "tools/call" /\ r.nheader[1] # c.name THEN "rpc"
    ELSE Nothing

\* ServeHTTP
ServeHTTP(r, on, result) ==
    LET c == Classify(r, on)
    IN  IF FailedChecks(r) # {} THEN Fixed(r, FirstFailed(r).status, FirstFailed(r).outcome, Nothing)
        ELSE IF c.method = "notifications/initialized" THEN Fixed(r, 400, "failure", Nothing)
        ELSE IF Disagrees(r, c) = "rpc" THEN Failure(r, 400, RoutingMismatch, Nothing)
        ELSE IF Disagrees(r, c) = "fixed" THEN Fixed(r, 400, "failure", Nothing)
        ELSE IF c.code \notin {0, ParseError} THEN Failure(r, 200, c.code, Nothing)
        ELSE IF c.name \in ReviewTools /\ "review" \in on /\ r.args # "valid"
             THEN Failure(r, 200, InvalidParams, Nothing)
        ELSE Deliver(r, c, on, result)

-----------------------------------------------------------------------------
Unanswered == [status |-> 0]

RequestInit == req \in McpRequests /\ sdk \in Outcomes /\ enabled \in Configs /\ answer = Unanswered

Answered ==
    /\ answer = Unanswered
    /\ answer' = ServeHTTP(req, enabled, sdk)
    /\ UNCHANGED <<req, sdk, enabled>>

RequestNext == Answered

RequestSpec == RequestInit /\ [][RequestNext]_requestVars

\* What was executed is what the audit log names and what the body asked for,
\* and the configuration allows it: the log takes the operation from the
\* headers before the body is read (operationForHeaders), the SDK takes it from
\* the body, so only the comparison in between ties the two together.
AuditNamesTheTool ==
    answer # Unanswered /\ answer.ran # Nothing =>
        /\ answer.operation = answer.ran
        /\ answer.ran = IF req.method = "tools/call" THEN req.name ELSE req.method
        /\ answer.ran \in OperatorTools => "operator" \in enabled
        /\ answer.ran \in ReviewTools => "review" \in enabled /\ req.args = "valid"

\* Without the token a caller learns only that a path is not the endpoint: 404
\* or 401, whatever else is wrong with the request, and nothing is executed.
TokenFirst ==
    answer # Unanswered /\ "token" \in req.fails =>
        /\ answer.written = IF "route" \in req.fails THEN 404 ELSE 401
        /\ answer.ran = Nothing

\* The status in the audit log is the one that the client received, and success
\* is audited only when the SDK executed something and the client got no error:
\* writeJSONRPCError and writeDiscovery may replace the planned status by 500.
AuditIsTrue ==
    answer # Unanswered =>
        /\ answer.status = answer.written
        /\ answer.outcome = "success" =>
               answer.written = 200 /\ answer.code = 0 /\ answer.ran # Nothing

\* The caller, the audit log and the tool agree about every request (ServeHTTP).
AnswerIsTrue == AuditNamesTheTool /\ TokenFirst /\ AuditIsTrue
=============================================================================
