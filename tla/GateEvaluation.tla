--------------------------- MODULE GateEvaluation ---------------------------
(***************************************************************************)
(* Evaluator.Evaluate (internal/gateeval/evaluator.go) and the             *)
(* CommitGateDecision it calls (internal/storage/turso/gate_decision.go),  *)
(* by any number of evaluators.  Each has the policy of its configuration  *)
(* and the classifier of its release.                                      *)
(***************************************************************************)
EXTENDS CandidateStore

CONSTANTS
    PolicyOf,  \* the policy of each evaluator
    ClassOf    \* gate.Classify in each evaluator: metadata -> class

ASSUME EvaluatorConstants ==
    /\ PolicyOf \in [Evaluators -> Policies]
    /\ ClassOf \in [Evaluators -> [Metas -> Classes]]

\* decisionMatchesClassification, with the evaluator's classification of msg.
Matches(p, d) ==
    /\ d.source = loc[p].msg
    /\ d.policy = PolicyOf[p]
    /\ d.class = ClassOf[p][loc[p].msg]

-----------------------------------------------------------------------------
(* Evaluate. *)

EvaluateMessage(p) ==
    /\ pc[p] = "idle"
    /\ IF meta = None THEN Return(p, "not_found")
       ELSE Goto(p, "evaluate.decision", [Idle EXCEPT !.msg = meta])
    /\ Reads

\* Mutant of EvaluateDecision: every commit is an insert.
AlwaysInsert(p) ==
    /\ pc[p] = "evaluate.decision"
    /\ IF DecisionCurrent /\ Matches(p, decision) THEN Return(p, "nil")
       ELSE \E t \in Times :
               LET next == [source |-> loc[p].msg, policy |-> PolicyOf[p],
                            class |-> ClassOf[p][loc[p].msg], at |-> t]
               IN  Goto(p, "gate.inspect", [loc[p] EXCEPT !.stmt = GateStatement(loc[p].msg, None, next)])
    /\ Reads

EvaluateDecision(p) ==
    /\ pc[p] = "evaluate.decision"
    /\ IF DecisionCurrent /\ Matches(p, decision) THEN Return(p, "nil")
       ELSE \E t \in Times :
               LET next == [source |-> loc[p].msg, policy |-> PolicyOf[p],
                            class |-> ClassOf[p][loc[p].msg], at |-> t]
                   expected == IF decision = NoDecision THEN None ELSE DecisionRevision(decision)
               IN  Goto(p, "gate.inspect",
                        [loc[p] EXCEPT !.stmt = GateStatement(loc[p].msg, expected, next)])
    /\ Reads

\* A conflict or a changed source is a conflict, anything else recovery.
CommitGateFails(p, err) == Return(p, IF err = "recovery" THEN err ELSE "conflict")

\* The fresh read after a commit that was reported as done.
EvaluateFresh(p) ==
    /\ pc[p] = "evaluate.fresh"
    /\ IF DecisionCurrent /\ Matches(p, decision) THEN Return(p, "nil")
       ELSE Return(p, "recovery")
    /\ Reads

-----------------------------------------------------------------------------
(* CommitGateDecision. *)

\* Mutant of ResolveGate: one input with two meanings is replaced.
ResolveGateBlind(s) ==
    IF meta # s.source THEN "stale"
    ELSE IF decision = NoDecision THEN (IF s.expected = None THEN "nil" ELSE "conflict")
    ELSE IF SameDecision(decision, s.next) THEN "nil"
    ELSE IF s.expected # None /\ DecisionRevision(decision) = s.expected THEN "nil"
    ELSE "conflict"

\* resolveGateDecisionCommit
ResolveGate(s) ==
    IF meta # s.source THEN "stale"
    ELSE IF decision = NoDecision THEN (IF s.expected = None THEN "nil" ELSE "conflict")
    ELSE IF SameDecision(decision, s.next) THEN "nil"
    ELSE IF /\ DecisionRevision(decision) # DecisionRevision(s.next)
            /\ s.expected # None
            /\ DecisionRevision(decision) = s.expected
         THEN "nil"
    ELSE "conflict"

GateInspect(p) ==
    /\ pc[p] = "gate.inspect"
    /\ LET s == loc[p].stmt IN
       IF ResolveGate(s) # "nil" THEN CommitGateFails(p, ResolveGate(s))
       ELSE IF decision # NoDecision /\ SameDecision(decision, s.next)
            THEN Goto(p, "evaluate.fresh", loc[p])
       ELSE Goto(p, "gate.mutate", loc[p])
    /\ Reads

GateMutate(p) ==
    /\ pc[p] = "gate.mutate"
    /\ Execute(loc[p].stmt)
    /\ Goto(p, "gate.verify", loc[p])
    /\ UNCHANGED <<late, faults>>

\* The verifying inspection: only the row that was sent, its time included,
\* is a success.
GateVerify(p) ==
    /\ pc[p] = "gate.verify"
    /\ LET s == loc[p].stmt IN
       IF meta = s.source /\ decision = s.next THEN Goto(p, "evaluate.fresh", loc[p])
       ELSE IF ResolveGate(s) # "nil" THEN CommitGateFails(p, ResolveGate(s))
       ELSE CommitGateFails(p, "recovery")
    /\ Reads

-----------------------------------------------------------------------------
(* What goes wrong. *)

\* The statement is not executed yet, or the sender does not learn of it.
GateLost(p) ==
    /\ pc[p] = "gate.mutate"
    /\ Fault
    /\ late' = late \cup {loc[p].stmt}
    /\ Goto(p, "gate.verify", loc[p])
    /\ UNCHANGED rows

EvaluateReadFails(p) ==
    /\ pc[p] \in {"evaluate.decision", "evaluate.fresh", "gate.inspect", "gate.verify"}
    /\ Fault
    /\ Return(p, "recovery")
    /\ UNCHANGED <<rows, late>>

Evaluate(p) ==
    \/ EvaluateMessage(p) \/ EvaluateDecision(p) \/ EvaluateFresh(p)
    \/ GateInspect(p) \/ GateMutate(p) \/ GateVerify(p)

EvaluatorFaults(p) == GateLost(p) \/ EvaluateReadFails(p) \/ Crash(p)
=============================================================================
