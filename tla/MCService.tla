----------------------------- MODULE MCService -----------------------------
(***************************************************************************)
(* What an MCP client meets: the listener, the life of the process and its *)
(* handler, the answer to one request, and the pages of a review.  None of *)
(* the four reads a variable of another, so a behaviour moves one of them  *)
(* and leaves the others as they start: each property says the same as in  *)
(* the product of the four, on the sum of their states.                    *)
(***************************************************************************)
EXTENDS Serving, BoundedListener, McpRequest, Review

VARIABLE part

Flags == {"route", "token", "method", "browser", "host", "content_type", "accept",
          "protocol", "admission", "length", "read", "size"}

Plain ==
    [fails |-> {}, mheader |-> <<"tools/call">>, nheader |-> <<Capabilities>>, decode |-> "ok",
     defects |-> {}, method |-> "tools/call", name |-> Capabilities, args |-> "none", bigId |-> FALSE]

\* Requests with up to two failing checks.
HeaderRequests ==
    {[Plain EXCEPT !.fails = {a, b}, !.mheader = m, !.nheader = n] :
        a \in Flags, b \in Flags, m \in {<<"tools/call">>, <<>>, <<"">>},
        n \in {<<Capabilities>>, <<"", "">>}}

MethodHeaders == {<<"server/discover">>, <<"tools/list">>, <<"tools/call">>, <<"initialize">>}

NameHeaders == {<<>>, <<"accounts_list">>, <<"mail_get_gate_reason">>, <<Capabilities>>, <<"other">>}

\* Every body with up to one defect under every pair of routing headers.
BodyRequests ==
    [fails : {{}}, mheader : MethodHeaders, nheader : NameHeaders, decode : {"ok", "parse", "invalid"},
     defects : {{}} \union {{d} : d \in {"envelope", "params", "keys", "arguments", "meta"}},
     method : {"", "server/discover", "tools/list", "tools/call", "initialize", "notifications/initialized"},
     name : {"", "accounts_list", "mail_get_gate_reason", Capabilities, "other"},
     args : {"none", "valid", "invalid"}, bigId : BOOLEAN]

\* A field that the decoder or the method leaves unread has one value.
Sensible(r) ==
    /\ r.bigId => r.defects = {}
    /\ r.decode # "ok" => r.method = "" /\ r.defects = {} /\ ~r.bigId
    /\ r.method # "tools/call" => r.name = "" /\ r.args = "none"
    /\ "arguments" \in r.defects => r.args = "none"

AllRequests == HeaderRequests \union {r \in BodyRequests : Sensible(r)}

AllOutcomes ==
    {[kind |-> k, code |-> 0] : k \in {"result", "empty", "exceeded", "status"}}
        \union {[kind |-> "error", code |-> c] : c \in {-1}}

AllConfigs == SUBSET {"operator", "review"}

MCKinds ==
    {[outcome |-> "none", policy |-> 1], [outcome |-> "standard", policy |-> 1],
     [outcome |-> "urgent", policy |-> 1], [outcome |-> "urgent", policy |-> 2]}

MCQueries ==
    {[urgency |-> "urgent", recent |-> FALSE, size |-> 1],
     [urgency |-> "all", recent |-> TRUE, size |-> 1],
     [urgency |-> "all", recent |-> TRUE, size |-> 2]}

-----------------------------------------------------------------------------
\* The one request and the one walk that wait while another part moves.
RequestWaits ==
    /\ req = Plain /\ sdk = [kind |-> "result", code |-> 0] /\ enabled = {}
    /\ answer = Unanswered

ReviewWaits ==
    /\ policy = 1 /\ rows = [k \in Keys |-> [outcome |-> "none", policy |-> 1]]
    /\ start = 0 /\ changes = 0 /\ pageCursor = NoCursor
    /\ request = [urgency |-> "urgent", recent |-> FALSE, size |-> 1]
    /\ walk = "idle" /\ seen = <<>> /\ steady = {} /\ origins = {}

MCInit ==
    /\ part \in {"serving", "listener", "request", "review"}
    /\ Init /\ ListenerInit
    /\ IF part = "request" THEN RequestInit ELSE RequestWaits
    /\ IF part = "review" THEN ReviewInit ELSE ReviewWaits

ServingMoves ==
    part = "serving" /\ Next /\ UNCHANGED <<listenerVars, requestVars, reviewVars, part>>
ListenerMoves ==
    part = "listener" /\ ListenerNext /\ UNCHANGED <<vars, requestVars, reviewVars, part>>
RequestMoves ==
    part = "request" /\ RequestNext /\ UNCHANGED <<vars, listenerVars, reviewVars, part>>
ReviewMoves ==
    part = "review" /\ ReviewNext /\ UNCHANGED <<vars, listenerVars, requestVars, part>>

MCNext == ServingMoves \/ ListenerMoves \/ RequestMoves \/ ReviewMoves

mcVars == <<vars, listenerVars, requestVars, reviewVars, part>>

\* The fairness of FairSpec, ListenerSpec and ReviewSpec, for the part that moves.
MCSpec ==
    /\ MCInit /\ [][MCNext]_mcVars
    /\ WF_vars(part = "serving" /\ Running /\ Main)
    /\ WF_listenerVars(part = "listener" /\ AcceptPermit)
    /\ WF_listenerVars(AcceptRecheck) /\ WF_listenerVars(~inner /\ AcceptFailed)
    /\ WF_listenerVars(CloseInner)
    /\ \A c \in Conns : WF_listenerVars(ConnRelease(c))
    /\ WF_reviewVars(part = "review" /\ Begin) /\ WF_reviewVars(List)
=============================================================================
