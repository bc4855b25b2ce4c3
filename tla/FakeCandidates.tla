--------------------------- MODULE FakeCandidates ---------------------------
(***************************************************************************)
(* The operations of the contract fake (internal/storage/fake/fake.go) on  *)
(* the decision and the content of one message, each one step under its    *)
(* mutex, beside the operations that change the message and the account.   *)
(* The rows of the database may change in no other way                     *)
(* (Candidates!ImplementsFake).                                            *)
(***************************************************************************)
EXTENDS Integers

CONSTANTS
    None, Candidate, NoDecision, NoContent,
    DecisionRevision(_), ContentRevision(_)

VARIABLES lifecycle, meta, decision, content

vars == <<lifecycle, meta, decision, content>>

Init == meta = None /\ decision = NoDecision /\ content = NoContent

\* expected is None for an insertion.
CommitGateDecision(source, expected, next) ==
    /\ meta # None /\ meta = source /\ next.source = meta
    /\ IF decision = NoDecision THEN expected = None
       ELSE /\ DecisionRevision(decision) # DecisionRevision(next)
            /\ expected = DecisionRevision(decision)
    /\ decision' = next
    /\ UNCHANGED <<lifecycle, meta, content>>

CommitCandidateContent(version, source, gate, expected, next) ==
    /\ lifecycle.state = "active" /\ lifecycle.version = version
    /\ meta # None /\ meta = source
    /\ decision = gate /\ decision.class \in Candidate /\ decision.source = meta
    /\ IF content = NoContent THEN expected = None
       ELSE /\ ContentRevision(content) # ContentRevision(next)
            /\ expected = ContentRevision(content)
    /\ content' = next
    /\ UNCHANGED <<lifecycle, meta, decision>>

\* finalizeCurrentDiscovery stores the message for an active account.
CommitCurrentDiscovery ==
    /\ lifecycle.state = "active"
    /\ meta' # None
    /\ UNCHANGED <<lifecycle, decision, content>>

CommitAccountLifecycle ==
    /\ lifecycle'.version = lifecycle.version + 1
    /\ lifecycle.state # "revoked"
    /\ UNCHANGED <<meta, decision, content>>

Next ==
    \/ CommitGateDecision(meta, IF decision = NoDecision THEN None ELSE DecisionRevision(decision),
                          decision')
    \/ CommitCandidateContent(lifecycle.version, meta, decision,
                              IF content = NoContent THEN None ELSE ContentRevision(content),
                              content')
    \/ CommitCurrentDiscovery \/ CommitAccountLifecycle

Spec == Init /\ [][Next]_vars
=============================================================================
