----------------------------- MODULE Candidates -----------------------------
(***************************************************************************)
(* Evaluators and extractors on one message, while discovery reads the     *)
(* message again with other metadata and the account's lifecycle changes.  *)
(***************************************************************************)
EXTENDS GateEvaluation, ContentExtraction

\* A discovery commit stores the message, for the first time or again; only
\* an active account gets one.
Rediscover(m) ==
    /\ Active
    /\ m # meta
    /\ meta' = m
    /\ UNCHANGED <<lifecycle, decision, content, late, faults, pc, loc>>

Transitions ==
    [active |-> {"paused", "reauthorization_required", "revoked"},
     paused |-> {"active", "revoked"},
     reauthorization_required |-> {"revoked"},
     revoked |-> {}]

\* CommitAccountLifecycle by someone else.
ChangeLifecycle(s) ==
    /\ s \in Transitions[lifecycle.state]
    /\ lifecycle.version < MaxVersion
    /\ lifecycle' = [state |-> s, version |-> lifecycle.version + 1]
    /\ UNCHANGED <<meta, decision, content, late, faults, pc, loc>>

Init == StoreInit

Next ==
    \/ \E p \in Evaluators : Evaluate(p) \/ EvaluatorFaults(p)
    \/ \E p \in Extractors : Extract(p) \/ ExtractorFaults(p)
    \/ \E s \in late : LateExecute(s)
    \/ \E m \in Metas : Rediscover(m)
    \/ \E s \in DOMAIN Transitions : ChangeLifecycle(s)

Spec == Init /\ [][Next]_vars

\* A call that has begun runs on, and evaluations are made again and again.
FairSpec == Spec /\ \A p \in Evaluators : WF_vars(Evaluate(p))

-----------------------------------------------------------------------------
(* Properties. *)

HasLifecycle ==
    {"extract.message", "extract.decision", "extract.content", "extract.cached", "extract.refresh",
     "extract.verify", "extract.verify_source", "extract.get", "extract.mark", "extract.prior"}

HasDecision ==
    HasLifecycle \ {"extract.message", "extract.decision"}

Labels ==
    HasLifecycle \cup
    {"idle", "evaluate.decision", "evaluate.fresh", "gate.inspect", "gate.mutate", "gate.verify",
     "content.inspect", "content.mutate", "content.verify", "extract.fresh"}

Errors ==
    {"nil", "not_found", "recovery", "conflict", "inactive", "ineligible", "unavailable",
     "reauthorization", "crash"}

Lifecycles == [state : DOMAIN Transitions, version : 1 .. MaxVersion]

DecisionRevisions == [source : Metas, policy : Policies]

ContentRevisions == [source : Metas, policy : Policies, limit : Limits, body : Bodies]

GateStatements ==
    [table : {"decision"}, source : Metas, expected : DecisionRevisions \cup {None}, next : Decision]

ContentStatements ==
    [table : {"content"}, version : 1 .. MaxVersion, source : Metas, gate : Decision,
     expected : ContentRevisions \cup {None}, next : Content]

Locals ==
    [err : Errors, life : Lifecycles \cup {None}, msg : Metas \cup {None},
     seen : Decision \cup {NoDecision}, limit : Limits \cup {None},
     stmt : GateStatements \cup ContentStatements \cup {None}, next : Content \cup {NoContent}]

\* Type invariant.
TypeOK ==
    /\ lifecycle \in Lifecycles
    /\ meta \in Metas \cup {None}
    /\ decision \in Decision \cup {NoDecision}
    /\ content \in Content \cup {NoContent}
    /\ late \subseteq GateStatements \cup ContentStatements
    /\ faults \in 0 .. MaxFaults
    /\ pc \in [Procs -> Labels]
    /\ loc \in [Procs -> Locals]

\* What a gate statement says of itself: it is about the metadata it was
\* computed from.
GateBound(s) == s \in GateStatements /\ s.next.source = s.source

\* What a content statement says of itself: metadata, policy and decision
\* belong together, and the provider answered after the lifecycle was read.
ContentBound(s) ==
    /\ s \in ContentStatements
    /\ s.gate.source = s.source
    /\ s.next.source = s.source /\ s.next.policy = s.gate.policy
    /\ s.version <= s.next.grant /\ s.next.grant <= lifecycle.version

\* The row a statement replaces is never the row it writes.
Replaces(s) ==
    IF s.table = "decision"
    THEN GateBound(s) /\ (s.expected # None => s.expected # DecisionRevision(s.next))
    ELSE ContentBound(s) /\ (s.expected # None => s.expected # ContentRevision(s.next))

\* The strengthening that makes the properties below inductive: every
\* statement, late or about to be sent, was built from one consistent
\* preflight (Evaluate, preflight, Extract), and the initial inspections of
\* CommitGateDecision and CommitCandidateContent answer for an equal row
\* without a statement.
StatementsBound ==
    /\ \A s \in late : Replaces(s)
    /\ \A p \in Procs :
        LET l == loc[p] IN
        /\ pc[p] \in {"gate.mutate", "content.mutate"} => Replaces(l.stmt)
        /\ pc[p] = "gate.inspect" => GateBound(l.stmt)
        /\ pc[p] = "content.inspect" => ContentBound(l.stmt)
        /\ pc[p] \in {"evaluate.decision", "extract.decision"} => l.msg # None
        /\ pc[p] \in HasLifecycle => l.life \in Lifecycles /\ l.life.version <= lifecycle.version
        /\ pc[p] \in HasLifecycle =>
            l.life.state = "active" /\ l.life.version < MaxVersion /\ l.limit # None
        /\ pc[p] \in HasDecision => l.seen \in Decision /\ l.seen.source = l.msg
        /\ pc[p] = "extract.prior" =>
            /\ l.next \in Content
            /\ l.next.source = l.msg /\ l.next.policy = l.seen.policy
            /\ l.life.version <= l.next.grant /\ l.next.grant <= lifecycle.version

\* The inductive invariant: types, and what every process and every statement
\* knows of the rows it has read (Evaluate, Extract and their commits).
BoundToReads == TypeOK /\ StatementsBound

\* An evaluation keeps the time of the first one: a decision is replaced only
\* by one with another input, whatever evaluators of any release and late
\* statements do (docs/adr/0012-deterministic-persisted-gate.md:60,
\* gateDecisionCommitSQL, resolveGateDecisionCommit).
FirstEvaluationKept ==
    [][decision' # decision => DecisionRevision(decision') # DecisionRevision(decision)]_vars

\* A decision is written only about the metadata the message has at that
\* moment, although it was computed from a row read long before and its
\* statement may run after its evaluator has given up (gateDecisionCommitSQL).
DecisionFollowsMetadata ==
    [][decision' # decision => decision'.source = meta]_vars

\* Content is written only for the decision that makes the message a
\* candidate now: same metadata, same policy, account active (the joins of
\* candidateContentCommitSQL).  And it was read from the provider under the
\* lifecycle version it is stored under: nothing fetched before a pause or
\* while paused is stored after a resume (Extract).
ContentIsCurrent ==
    [][content' # content =>
        /\ Active
        /\ DecisionCurrent /\ decision.class \in Candidate
        /\ content'.source = meta /\ content'.policy = decision.policy
        /\ content'.grant = lifecycle.version]_vars

\* Content keeps the time of its first fetch: the same excerpt for the same
\* decision input and limit is not written again (CommitCandidateContent).
FirstFetchKept ==
    [][content' # content => ContentRevision(content') # ContentRevision(content)]_vars

\* Evaluation catches up: metadata that stays gets a decision about it,
\* although calls fail, statements are lost and other policies interfere
\* (Evaluate is called again; each call starts from the row that is there).
EvaluationCatchesUp ==
    \A m \in Metas : meta = m ~> (decision.source = m \/ meta # m)

\* The rows change only as the contract fake would change them, one whole
\* operation at a time: lost and late statements, crashes and releases with
\* different policies or classifiers never show (internal/storage/fake).
Fake ==
    INSTANCE FakeCandidates
        WITH DecisionRevision <- DecisionRevision, ContentRevision <- ContentRevision,
             NoDecision <- NoDecision, NoContent <- NoContent

ImplementsFake == Fake!Spec

\* The evaluator "returns a concurrent idempotent winner's durable timestamp"
\* (docs/threat-model.md:306): its commit does not fail when the verifying
\* inspection finds the decision it wanted, durable and current, only with
\* the time of an evaluator that came first.
WinnerReturned ==
    [][\A p \in Evaluators :
        pc[p] = "gate.verify" /\ pc'[p] = "idle" => ~(DecisionCurrent /\ Matches(p, decision))]_vars
=============================================================================
