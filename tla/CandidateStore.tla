--------------------------- MODULE CandidateStore ---------------------------
(***************************************************************************)
(* What is stored of one message after discovery: its metadata, the gate's *)
(* decision on it and its extracted content, with the lifecycle of its     *)
(* account (internal/storage/{gate_decision,candidate_content}.go,         *)
(* internal/mail/candidate_content.go, migrations 0006 and 0007), and the  *)
(* two statements that write decision and content                          *)
(* (internal/storage/turso/{gate_decision,candidate_content}.go).          *)
(*                                                                         *)
(* A hash stands for what it is computed from: the metadata hash is the    *)
(* metadata, the gate's input hash is the metadata and the policy, the     *)
(* content hash is the content without its time.  A statement whose sender *)
(* no longer waits for it is in late and runs at any later moment, or      *)
(* never.                                                                  *)
(***************************************************************************)
EXTENDS Integers

CONSTANTS
    Evaluators, Extractors,  \* processes that evaluate, and that extract
    Metas,                   \* versions of the message's metadata
    Policies, Classes,       \* gate policies; classifications (outcome and reasons)
    Candidate,               \* the classifications CandidateOutcome accepts
    Limits, Bodies,          \* excerpt limits; extracted excerpts
    Times,                   \* clock readings
    None,                    \* SQL NULL / Go nil
    MaxVersion,              \* stands for math.MaxInt64, the largest state_version
    MaxFaults                \* bound: failed reads, lost statements and crashes

Procs == Evaluators \cup Extractors

ASSUME CandidateConstants ==
    /\ Evaluators \cap Extractors = {}
    /\ Candidate \subseteq Classes
    /\ None \notin Metas \cup Limits
    /\ MaxVersion \in Nat \ {0}
    /\ MaxFaults \in Nat

VARIABLES
    lifecycle,  \* the account's state and version
    meta,       \* the inboxgate_messages row's metadata, or None
    decision,   \* the inboxgate_gate_decisions row, or NoDecision
    content,    \* the inboxgate_candidate_content row, or NoContent
    late,       \* statements sent whose sender no longer waits for them
    faults,     \* faults so far
    pc,         \* per process: the next step
    loc         \* per process: its local variables

rows == <<lifecycle, meta, decision, content>>
vars == <<lifecycle, meta, decision, content, late, faults, pc, loc>>

-----------------------------------------------------------------------------
(* The rows. *)

NoDecision == [source |-> None, policy |-> None, class |-> None, at |-> None]

Decision == [source : Metas, policy : Policies, class : Classes, at : Times]

\* GateDecision.Revision: gate version and input hash.
DecisionRevision(d) == [source |-> d.source, policy |-> d.policy]

\* GateDecision.SemanticEqual; Equal is equality.
SameDecision(d, e) == DecisionRevision(d) = DecisionRevision(e) /\ d.class = e.class

NoContent ==
    [source |-> None, policy |-> None, limit |-> None, body |-> None, at |-> None, grant |-> 0]

\* A content row.  Its grant is not stored: it is the lifecycle version at
\* the moment the provider answered, for the properties to speak of.
Content ==
    [source : Metas, policy : Policies, limit : Limits, body : Bodies, at : Times,
     grant : 1 .. MaxVersion]

\* CandidateContent.Revision, which determines SemanticEqual.
ContentRevision(c) ==
    [source |-> c.source, policy |-> c.policy, limit |-> c.limit, body |-> c.body]

Active == lifecycle.state = "active"

\* GateDecisionState.Current
DecisionCurrent == decision # NoDecision /\ decision.source = meta

\* candidateContentInspectionCurrent
ContentCurrent(limit) ==
    /\ Active
    /\ DecisionCurrent /\ decision.class \in Candidate
    /\ content # NoContent
    /\ content.source = meta /\ content.policy = decision.policy
    /\ content.limit = limit

-----------------------------------------------------------------------------
(* The statements: gateDecisionCommitSQL and candidateContentCommitSQL.    *)

GateStatement(source, expected, next) ==
    [table |-> "decision", source |-> source, expected |-> expected, next |-> next]

ContentStatement(version, source, gate, expected, next) ==
    [table |-> "content", version |-> version, source |-> source, gate |-> gate,
     expected |-> expected, next |-> next]

GateApplies(s) ==
    /\ meta = s.source
    /\ IF s.expected = None THEN decision = NoDecision
       ELSE decision # NoDecision /\ DecisionRevision(decision) = s.expected

\* Mutant of ContentApplies: the lifecycle's version is not compared.
ContentAppliesAnyVersion(s) ==
    /\ Active
    /\ meta = s.source
    /\ decision = s.gate /\ decision.class \in Candidate
    /\ IF s.expected = None THEN content = NoContent
       ELSE content # NoContent /\ ContentRevision(content) = s.expected

\* Mutant of ContentApplies: ON CONFLICT replaces whatever is there.
ContentAppliesOverAny(s) ==
    /\ Active /\ lifecycle.version = s.version
    /\ meta = s.source
    /\ decision = s.gate /\ decision.class \in Candidate

ContentApplies(s) ==
    /\ Active /\ lifecycle.version = s.version
    /\ meta = s.source
    /\ decision = s.gate /\ decision.class \in Candidate
    /\ IF s.expected = None THEN content = NoContent
       ELSE content # NoContent /\ ContentRevision(content) = s.expected

\* The database runs s.
Execute(s) ==
    /\ decision' = IF s.table = "decision" /\ GateApplies(s) THEN s.next ELSE decision
    /\ content' = IF s.table = "content" /\ ContentApplies(s) THEN s.next ELSE content
    /\ UNCHANGED <<lifecycle, meta>>

LateExecute(s) ==
    /\ s \in late
    /\ Execute(s)
    /\ late' = late \ {s}
    /\ UNCHANGED <<faults, pc, loc>>

-----------------------------------------------------------------------------
(* Steps of a process. *)

Idle ==
    [err |-> "nil", life |-> None, msg |-> None, seen |-> NoDecision,
     limit |-> None, stmt |-> None, next |-> NoContent]

Goto(p, label, l) ==
    /\ pc' = [pc EXCEPT ![p] = label]
    /\ loc' = [loc EXCEPT ![p] = l]

\* The call returns err, or what it read and "nil".
Return(p, err) == Goto(p, "idle", [Idle EXCEPT !.err = err])

Reads == UNCHANGED <<rows, late, faults>>

Fault == faults < MaxFaults /\ faults' = faults + 1

\* The process dies; a statement it sent may already be late.
Crash(p) ==
    /\ pc[p] # "idle"
    /\ Fault
    /\ Return(p, "crash")
    /\ UNCHANGED <<rows, late>>

StoreInit ==
    /\ lifecycle = [state |-> "active", version |-> 1]
    /\ meta = None
    /\ decision = NoDecision
    /\ content = NoContent
    /\ late = {}
    /\ faults = 0
    /\ pc = [p \in Procs |-> "idle"]
    /\ loc = [p \in Procs |-> Idle]
=============================================================================
