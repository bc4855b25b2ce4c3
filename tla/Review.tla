------------------------------- MODULE Review -------------------------------
(***************************************************************************)
(* A client walks the pages of Service.List (internal/reviewinspect) over  *)
(* rows that change between the pages (ListReviewCandidates in             *)
(* internal/storage/turso/review_inspection.go reads them with one         *)
(* statement).  A key stands for account, thread and message in the order  *)
(* of the statement.  A cursor holds the last key that was looked at and   *)
(* is bound to the request, to the policy and to the key that a service    *)
(* draws when it starts.                                                   *)
(***************************************************************************)
EXTENDS Integers, Sequences, FiniteSetsExt

CONSTANTS
    Keys,         \* the keys of rows, natural numbers above 0
    Recent,       \* the keys whose date is in the range that a request may ask for
    Policies,     \* the gate policies of a configuration, 1 is the first
    Kinds,        \* the rows that a key may have
    ScanRows,     \* MaximumReviewScanRows
    Queries,      \* the requests of clients: urgency, whether only recent, page size
    MaxStarts,    \* bounds the restarts of the service
    MaxChanges    \* bounds the changes of rows

ASSUME ReviewConstants ==
    /\ Keys \subseteq Nat \ {0} /\ IsFiniteSet(Keys) /\ Recent \subseteq Keys
    /\ ScanRows \in Nat \ {0} /\ MaxStarts \in Nat /\ MaxChanges \in Nat
    /\ 1 \in Policies
    /\ Kinds \subseteq [outcome : {"none", "standard", "urgent"}, policy : Policies]
    /\ Queries \subseteq [urgency : {"all", "standard", "urgent"}, recent : BOOLEAN,
                            size : Nat \ {0}]

VARIABLES
    rows,     \* the row of each key: the outcome of its decision, and under which policy
    policy,   \* the policy of the running service
    start,    \* which start of the service this is: it draws another cursor key
    request,  \* what the client asks for in this walk
    pageCursor,  \* the cursor that the client holds
    walk,     \* "idle", "walking", "done" or "refused"
    seen,     \* the pages of this walk that were not empty, each a set of keys
    steady,   \* the keys that matched the request during the whole walk
    origins,  \* what selected the pages of this walk, and the candidates in them
    changes

reviewVars == <<rows, policy, start, request, pageCursor, walk, seen, steady, origins, changes>>

NoCursor == [key |-> 0]

-----------------------------------------------------------------------------
(* ListReviewCandidates and List *)

Chosen(rq, k) == rows[k].outcome # "none" /\ rq.urgency \in {"all", rows[k].outcome}

Lowest(S, n) == {k \in S : Cardinality({j \in S : j < k}) < n}

\* Mutant of SourceRows: no row more than are scanned.
SourceRowsExact(rq, after) == Lowest({k \in Keys : Chosen(rq, k) /\ k > after}, ScanRows)

\* The first rows after the cursor that the statement selects, one more than are scanned.
SourceRows(rq, after) == Lowest({k \in Keys : Chosen(rq, k) /\ k > after}, ScanRows + 1)

\* What List keeps of the scanned rows: the decision is that of the current policy.
Kept(rq, k) == rows[k].policy = policy /\ (rq.recent => k \in Recent)

Matches(rq, k) == Chosen(rq, k) /\ Kept(rq, k)

\* The rows up to the one that fills the page or to the last that is scanned.
Scan(rq, source) ==
    {k \in Lowest(source, ScanRows) : Cardinality({j \in source : j < k /\ Kept(rq, j)}) < rq.size}

\* Mutant of Binding: the page size is left out of what is signed.
BindingAnySize == [request |-> [request EXCEPT !.size = 1], policy |-> policy, start |-> start]

\* requestBinding, encodeCursor and decodeCursor
Binding == [request |-> request, policy |-> policy, start |-> start]
Encode(key) == [key |-> key, binding |-> Binding]

Accepts(c) == c = NoCursor \/ c.binding = Binding

\* Mutant of NextCursor: the next page starts where this one did.
NextCursorKept(source, scanned, page) ==
    IF scanned # {} /\ (Cardinality(page) = request.size \/ source # scanned)
    THEN Encode(IF page = {} THEN pageCursor.key ELSE Max(page)) ELSE NoCursor

\* The cursor of the next page: the page is full, or there are rows that were not scanned.
NextCursor(source, scanned, page) ==
    IF scanned # {} /\ (Cardinality(page) = request.size \/ source # scanned)
    THEN Encode(Max(scanned)) ELSE NoCursor

\* A page was selected by the request and the service at that time, and each candidate in
\* it by the policy under which its stored decision was made.
OriginsOf(page) ==
    {[request |-> request, policy |-> p, start |-> start] :
        p \in {policy} \union {rows[k].policy : k \in page}}

-----------------------------------------------------------------------------
ReviewInit ==
    /\ policy = 1 /\ rows \in [Keys -> Kinds]
    /\ start = 0 /\ changes = 0
    /\ request \in Queries /\ pageCursor = NoCursor
    /\ walk = "idle" /\ seen = <<>> /\ steady = {} /\ origins = {}

Begin ==
    /\ walk = "idle"
    /\ walk' = "walking"
    /\ steady' = {k \in Keys : Matches(request, k)}
    /\ UNCHANGED <<rows, policy, start, request, pageCursor, seen, origins, changes>>

\* One call of List with the cursor of the page before.
List ==
    /\ walk = "walking"
    /\ IF ~Accepts(pageCursor)
       THEN walk' = "refused" /\ UNCHANGED <<pageCursor, seen, origins>>
       ELSE LET source == SourceRows(request, pageCursor.key)
                scanned == Scan(request, source)
                page == {k \in scanned : Kept(request, k)}
            IN  /\ seen' = IF page = {} THEN seen ELSE Append(seen, page)
                /\ origins' = origins \union OriginsOf(page)
                /\ pageCursor' = NextCursor(source, scanned, page)
                /\ walk' = IF pageCursor' = NoCursor THEN "done" ELSE "walking"
    /\ UNCHANGED <<rows, policy, start, request, steady, changes>>

\* A message is discovered, evaluated again or gone, or its account is paused.
Change(k) ==
    /\ walk # "idle" /\ changes < MaxChanges
    /\ \E r \in Kinds : rows' = [rows EXCEPT ![k] = r]
    /\ changes' = changes + 1
    /\ UNCHANGED <<policy, start, request, pageCursor, walk, seen, origins>>
    /\ steady' = {j \in steady : Matches(request, j)'}

\* The service starts again, perhaps with another policy.
Restart ==
    /\ start < MaxStarts
    /\ start' = start + 1
    /\ policy' \in Policies
    /\ UNCHANGED <<rows, request, pageCursor, walk, seen, origins, changes>>
    /\ steady' = {j \in steady : Matches(request, j)'}

\* The client asks for something else with the cursor that it holds.
Switch ==
    /\ walk = "walking" /\ pageCursor # NoCursor
    /\ request' \in Queries \ {request}
    /\ steady' = {j \in steady : Matches(request', j)}
    /\ UNCHANGED <<rows, policy, start, pageCursor, walk, seen, origins, changes>>

ReviewNext == Begin \/ List \/ Restart \/ Switch \/ \E k \in Keys : Change(k)

ReviewSpec == ReviewInit /\ [][ReviewNext]_reviewVars /\ WF_reviewVars(Begin) /\ WF_reviewVars(List)

-----------------------------------------------------------------------------
Walked == UNION {seen[i] : i \in DOMAIN seen}

\* A candidate that matched during the whole walk was returned by the time the
\* walk is done: rows that appear, vanish or stop matching between two pages,
\* and pages that end at the scan limit, never hide it.
SteadyAreSeen == walk = "done" => steady \subseteq Walked

\* No candidate is returned twice in a walk, and they come in the order of keys,
\* although each page is read with a statement of its own.
EachOnce == \A i, j \in DOMAIN seen : i < j => \A a \in seen[i], b \in seen[j] : a < b

\* A walk shows each candidate that stays, once (List).
SeenOnce == SteadyAreSeen /\ EachOnce

\* The pages that a client puts together belong together: all of them were selected by
\* one request and one start of the service, and all candidates in them were decided
\* under one policy, although the client may ask for something else in between, the
\* service may start again with another policy, and rows are decided again
\* (requestBinding, decodeCursor, classificationMatchesDecision).
PagesBelongTogether == \A a, b \in origins : a = b

\* Every walk ends, whatever changes: each page moves the cursor on.
WalkEnds == walk = "walking" ~> walk \in {"done", "refused"}
=============================================================================
