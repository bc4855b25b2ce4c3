-------------------------- MODULE BoundedListener --------------------------
(***************************************************************************)
(* The listener with permits of internal/server/connection_limit.go: one   *)
(* goroutine accepts, others close connections and the listener.           *)
(***************************************************************************)
EXTENDS Integers, FiniteSets

CONSTANTS
    Conns,          \* identities of connections
    MaxConnections  \* the permits that newBoundedListener makes

ASSUME ListenerConstants == IsFiniteSet(Conns) /\ MaxConnections \in Nat \ {0}

VARIABLES
    permits,  \* how many values the channel of permits holds
    shut,     \* the channel that Close closes
    inner,    \* the listener of the operating system is open
    accept,   \* where the loop of Serve is in Accept
    conn      \* each boundedConnection

listenerVars == <<permits, shut, inner, accept, conn>>

ListenerInit ==
    /\ permits = 0 /\ shut = FALSE /\ inner = TRUE /\ accept = "permit"
    /\ conn = [c \in Conns |-> "closed"]

-----------------------------------------------------------------------------
(* Accept *)

\* Mutant of AcceptPermit: a full listener waits for a permit only.
AcceptPermitOnly ==
    /\ accept = "permit"
    /\ permits < MaxConnections /\ permits' = permits + 1 /\ accept' = "recheck"
    /\ UNCHANGED <<shut, inner, conn>>

\* The first select: either case when both can go on.
AcceptPermit ==
    /\ accept = "permit"
    /\ \/ shut /\ accept' = "returned" /\ UNCHANGED permits
       \/ permits < MaxConnections /\ permits' = permits + 1 /\ accept' = "recheck"
    /\ UNCHANGED <<shut, inner, conn>>

\* The second select.
AcceptRecheck ==
    /\ accept = "recheck"
    /\ IF shut THEN accept' = "returned" /\ permits' = permits - 1
       ELSE accept' = "accept" /\ UNCHANGED permits
    /\ UNCHANGED <<shut, inner, conn>>

\* Listener.Accept has a connection.
Accepted(c) ==
    /\ accept = "accept" /\ inner
    /\ conn[c] = "closed"
    /\ conn' = [conn EXCEPT ![c] = "open"]
    /\ accept' = "permit"
    /\ UNCHANGED <<permits, shut, inner>>

\* Mutant of AcceptFailed: the permit is lost.
AcceptFailedHolding ==
    /\ accept = "accept"
    /\ accept' = IF inner THEN "permit" ELSE "returned"
    /\ UNCHANGED <<permits, shut, inner, conn>>

\* Listener.Accept fails: Serve calls again after a temporary error.
AcceptFailed ==
    /\ accept = "accept"
    /\ permits' = permits - 1
    /\ accept' = IF inner THEN "permit" ELSE "returned"
    /\ UNCHANGED <<shut, inner, conn>>

-----------------------------------------------------------------------------
(* Close of the listener, in two steps, and of a connection, once. *)

ListenerMark ==
    /\ ~shut
    /\ shut' = TRUE
    /\ UNCHANGED <<permits, inner, accept, conn>>

CloseInner ==
    /\ shut /\ inner
    /\ inner' = FALSE
    /\ UNCHANGED <<permits, shut, accept, conn>>

ConnClose(c) ==
    /\ conn[c] = "open"
    /\ conn' = [conn EXCEPT ![c] = "release"]
    /\ UNCHANGED <<permits, shut, inner, accept>>

ConnRelease(c) ==
    /\ conn[c] = "release"
    /\ permits > 0
    /\ permits' = permits - 1
    /\ conn' = [conn EXCEPT ![c] = "closed"]
    /\ UNCHANGED <<shut, inner, accept>>

Accept == AcceptPermit \/ AcceptRecheck \/ AcceptFailed \/ \E c \in Conns : Accepted(c)

ListenerNext == Accept \/ ListenerMark \/ CloseInner \/ \E c \in Conns : ConnClose(c) \/ ConnRelease(c)

\* Goroutines run, and a closed socket ends Accept; connections may stay open for ever.
ListenerSpec ==
    /\ ListenerInit /\ [][ListenerNext]_listenerVars
    /\ WF_listenerVars(AcceptPermit) /\ WF_listenerVars(AcceptRecheck) /\ WF_listenerVars(~inner /\ AcceptFailed)
    /\ WF_listenerVars(CloseInner)
    /\ \A c \in Conns : WF_listenerVars(ConnRelease(c))

-----------------------------------------------------------------------------
Held == {c \in Conns : conn[c] # "closed"}

\* One permit for every connection that is not closed, and one for an Accept
\* under way: none is lost when Accept fails or finds the listener closed, and
\* none is given back twice, so at most MaxConnections are open.
PermitsCounted ==
    /\ permits = Cardinality(Held) + (IF accept \in {"recheck", "accept"} THEN 1 ELSE 0)
    /\ permits <= MaxConnections

\* Serve ends after Close even when every permit is held by a connection that
\* stays open: the wait for a permit also waits for the close.
CloseEndsAccept == shut ~> accept = "returned"
=============================================================================
