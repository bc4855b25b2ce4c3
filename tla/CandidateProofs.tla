-------------------------- MODULE CandidateProofs --------------------------
(***************************************************************************)
(* The safety of Candidates for any set of evaluators and extractors, any  *)
(* policies and classifiers and any number of faults, and of the decision  *)
(* of the Classifier for any messages, policies and weights.               *)
(***************************************************************************)
EXTENDS Candidates, Classifier, WellFoundedInduction, TLAPS

-----------------------------------------------------------------------------
(* The inductive invariant is TypeOK /\ StatementsBound; the second conjunct *)
(* is taken apart here so that one process can be looked at alone.           *)

Statements == GateStatements \cup ContentStatements

\* StatementsBound for a process at the label at with the locals l.
LocalBound(l, at) ==
    /\ at \in {"gate.mutate", "content.mutate"} => Replaces(l.stmt)
    /\ at = "gate.inspect" => GateBound(l.stmt)
    /\ at = "content.inspect" => ContentBound(l.stmt)
    /\ at \in {"evaluate.decision", "extract.decision"} => l.msg # None
    /\ at \in HasLifecycle => l.life \in Lifecycles /\ l.life.version <= lifecycle.version
    /\ at \in HasLifecycle =>
        l.life.state = "active" /\ l.life.version < MaxVersion /\ l.limit # None
    /\ at \in HasDecision => l.seen \in Decision /\ l.seen.source = l.msg
    /\ at = "extract.prior" =>
        /\ l.next \in Content
        /\ l.next.source = l.msg /\ l.next.policy = l.seen.policy
        /\ l.life.version <= l.next.grant /\ l.next.grant <= lifecycle.version

LateBound == \A s \in late : Replaces(s)

IInv ==
    /\ TypeOK
    /\ LateBound
    /\ \A p \in Procs : LocalBound(loc[p], pc[p])

\* The two ways of stating the invariant agree.
LEMMA BoundEverywhere == IInv <=> TypeOK /\ StatementsBound
  BY Zenon DEF IInv, StatementsBound, LateBound, LocalBound

\* A lifecycle's version only grows, and what a statement says of itself stays true.
LEMMA StaysBound ==
  ASSUME NEW s, Replaces(s), lifecycle \in Lifecycles, lifecycle' \in Lifecycles,
         lifecycle.version <= lifecycle'.version
  PROVE  Replaces(s)'
  <1>1. lifecycle.version \in Int /\ lifecycle'.version \in Int
    BY CandidateConstants DEF Lifecycles
  <1>2. GateBound(s) => GateBound(s)'  BY Zenon DEF GateBound
  <1>3. ContentBound(s) => ContentBound(s)'
    <2> SUFFICES ASSUME ContentBound(s) PROVE ContentBound(s)'  OBVIOUS
    <2>1. s.next \in Content  BY Zenon DEF ContentBound, ContentStatements
    <2>2. s.next.grant \in Int  BY <2>1, CandidateConstants DEF Content
    <2>3. s.next.grant <= lifecycle'.version  BY <1>1, <2>2 DEF ContentBound
    <2> QED  BY <2>3, Zenon DEF ContentBound
  <1> QED  BY <1>2, <1>3, Zenon DEF Replaces

\* The same for the locals of a process that stands still.
LEMMA LocalsStayBound ==
  ASSUME NEW l \in Locals, NEW at, LocalBound(l, at), lifecycle \in Lifecycles,
         lifecycle' \in Lifecycles, lifecycle.version <= lifecycle'.version
  PROVE  LocalBound(l, at)'
  <1>1. lifecycle.version \in Int /\ lifecycle'.version \in Int
    BY CandidateConstants DEF Lifecycles
  <1>2. at \in {"gate.mutate", "content.mutate"} => Replaces(l.stmt)'
    <2> HAVE at \in {"gate.mutate", "content.mutate"}
    <2>1. PICK s : s = l.stmt  BY Zenon
    <2>2. Replaces(s)  BY <2>1, Zenon DEF LocalBound
    <2>3. Replaces(s)'  BY <2>2, StaysBound, Zenon
    <2> QED  BY <2>1, <2>3, Zenon DEF LocalBound
  <1>3. at = "gate.inspect" => GateBound(l.stmt)'  BY Zenon DEF LocalBound, GateBound
  <1>4. at = "content.inspect" => ContentBound(l.stmt)'
    <2> HAVE at = "content.inspect"
    <2>1. PICK s : s = l.stmt  BY Zenon
    <2>2. ContentBound(s)  BY <2>1, Zenon DEF LocalBound
    <2>3. s.next \in Content  BY <2>2, Zenon DEF ContentBound, ContentStatements
    <2>4. s.next.grant \in Int  BY <2>3, CandidateConstants DEF Content
    <2>5. s.next.grant <= lifecycle'.version  BY <1>1, <2>2, <2>4 DEF ContentBound
    <2> QED  BY <2>1, <2>2, <2>5, Zenon DEF ContentBound
  <1>5. at \in HasLifecycle => l.life \in Lifecycles /\ l.life.version <= lifecycle'.version
    <2> HAVE at \in HasLifecycle
    <2>1. l.life \in Lifecycles /\ l.life.version <= lifecycle.version  BY Zenon DEF LocalBound
    <2>2. l.life.version \in Int  BY <2>1, CandidateConstants DEF Lifecycles
    <2> QED  BY <1>1, <2>1, <2>2
  <1>6. at = "extract.prior" => l.next.grant <= lifecycle'.version
    <2> HAVE at = "extract.prior"
    <2>1. l.next \in Content /\ l.next.grant <= lifecycle.version  BY Zenon DEF LocalBound
    <2>2. l.next.grant \in Int  BY <2>1, CandidateConstants DEF Content
    <2> QED  BY <1>1, <2>1, <2>2
  <1> QED  BY <1>2, <1>3, <1>4, <1>5, <1>6, Zenon DEF LocalBound

\* One process moves to at with the locals l, and the rest is as it should be.
LEMMA Moves ==
  ASSUME IInv, NEW p \in Procs, NEW at \in Labels, NEW l \in Locals, Goto(p, at, l),
         LocalBound(l, at)', LateBound', late' \subseteq Statements,
         lifecycle' \in Lifecycles, lifecycle.version <= lifecycle'.version,
         meta' \in Metas \cup {None}, decision' \in Decision \cup {NoDecision},
         content' \in Content \cup {NoContent}, faults' \in 0 .. MaxFaults
  PROVE  IInv'
  <1>1. pc \in [Procs -> Labels] /\ loc \in [Procs -> Locals] /\ lifecycle \in Lifecycles
    BY Zenon DEF IInv, TypeOK
  <1>2. pc' = [pc EXCEPT ![p] = at] /\ loc' = [loc EXCEPT ![p] = l]  BY Zenon DEF Goto
  <1>3. pc' \in [Procs -> Labels] /\ loc' \in [Procs -> Locals]  BY <1>1, <1>2, Zenon
  <1>4. TypeOK'  BY <1>3, Zenon DEF TypeOK, Statements
  <1>5. ASSUME NEW q \in Procs PROVE LocalBound(loc[q], pc[q])'
    <2>1. CASE q = p
      <3>1. loc'[q] = l /\ pc'[q] = at  BY <1>1, <1>2, <2>1, Zenon
      <3> QED  BY <3>1, Zenon DEF LocalBound
    <2>2. CASE q # p
      <3>1. PICK k \in Locals : k = loc[q]  BY <1>1, Zenon
      <3>2. PICK a : a = pc[q]  BY Zenon
      <3>3. LocalBound(k, a)  BY <3>1, <3>2, Zenon DEF IInv
      <3>4. LocalBound(k, a)'  BY <1>1, <3>3, LocalsStayBound, Zenon
      <3>5. loc'[q] = k /\ pc'[q] = a  BY <1>1, <1>2, <2>2, <3>1, <3>2, Zenon
      <3> QED  BY <3>4, <3>5, Zenon DEF LocalBound
    <2> QED  BY <2>1, <2>2, Zenon
  <1> QED  BY <1>4, <1>5, Zenon DEF IInv

\* A step that only reads.
LEMMA Reading ==
  ASSUME IInv, NEW p \in Procs, NEW at \in Labels, NEW l \in Locals, Goto(p, at, l),
         Reads, LocalBound(l, at)
  PROVE  IInv'
  <1>1. UNCHANGED <<lifecycle, meta, decision, content, late, faults>>  BY Zenon DEF Reads, rows
  <1>2. lifecycle \in Lifecycles /\ lifecycle.version \in Int
    BY CandidateConstants DEF IInv, TypeOK, Lifecycles
  <1>3. LocalBound(l, at)'  BY <1>1, <1>2, LocalsStayBound
  <1>4. LateBound'
    <2> SUFFICES ASSUME NEW s \in late PROVE Replaces(s)'  BY <1>1, Zenon DEF LateBound
    <2> QED  BY <1>1, <1>2, StaysBound DEF IInv, LateBound
  <1> QED  BY <1>1, <1>2, <1>3, <1>4, Moves DEF IInv, TypeOK, Statements

\* The locals a call ends with.
LEMMA IdleLocals ==
  ASSUME NEW err \in Errors
  PROVE  [Idle EXCEPT !.err = err] \in Locals /\ LocalBound([Idle EXCEPT !.err = err], "idle")
  <1>1. [Idle EXCEPT !.err = err] \in Locals  BY Zenon DEF Idle, Locals
  <1>2. LocalBound([Idle EXCEPT !.err = err], "idle")
    BY Zenon DEF LocalBound, HasLifecycle, HasDecision
  <1> QED  BY <1>1, <1>2, Zenon

\* A call that returns without having changed a row.
LEMMA Returning ==
  ASSUME IInv, NEW p \in Procs, NEW err \in Errors, Return(p, err), UNCHANGED <<rows, late>>,
         faults' \in 0 .. MaxFaults
  PROVE  IInv'
  <1>1. PICK l : l = [Idle EXCEPT !.err = err]  BY Zenon
  <1>2. l \in Locals /\ Goto(p, "idle", l)  BY <1>1, IdleLocals, Zenon DEF Return
  <1>3. LocalBound(l, "idle")'  BY Zenon DEF LocalBound, HasLifecycle, HasDecision
  <1>4. UNCHANGED <<lifecycle, meta, decision, content, late>>  BY Zenon DEF rows
  <1>5. lifecycle \in Lifecycles /\ lifecycle.version \in Int
    BY CandidateConstants DEF IInv, TypeOK, Lifecycles
  <1>6. LateBound'
    <2> SUFFICES ASSUME NEW s \in late PROVE Replaces(s)'  BY <1>4, Zenon DEF LateBound
    <2> QED  BY <1>4, <1>5, StaysBound DEF IInv, LateBound
  <1>7. lifecycle.version <= lifecycle'.version /\ lifecycle' \in Lifecycles  BY <1>4, <1>5
  <1>8. /\ meta' \in Metas \cup {None} /\ decision' \in Decision \cup {NoDecision}
        /\ content' \in Content \cup {NoContent} /\ late' \subseteq Statements
    BY <1>4, Zenon DEF IInv, TypeOK, Statements
  <1>9. "idle" \in Labels  BY Zenon DEF Labels
  <1> QED  BY <1>2, <1>3, <1>6, <1>7, <1>8, <1>9, Moves, Zenon

-----------------------------------------------------------------------------
(* Evaluate and CommitGateDecision. *)

\* The reads of Evaluate: the message, the decision, and the fresh read.
LEMMA EvaluateKeeps ==
  ASSUME IInv, NEW p \in Evaluators,
         EvaluateMessage(p) \/ EvaluateDecision(p) \/ EvaluateFresh(p)
  PROVE  IInv'
  <1>p. p \in Procs  BY Zenon DEF Procs
  <1>f. Reads => UNCHANGED <<rows, late>> /\ faults' \in 0 .. MaxFaults
    BY Zenon DEF Reads, IInv, TypeOK
  <1>1. CASE EvaluateMessage(p)
    <2>1. Reads  BY <1>1, Zenon DEF EvaluateMessage
    <2>2. CASE meta = None
      <3>1. Return(p, "not_found")  BY <1>1, <2>2, Zenon DEF EvaluateMessage
      <3> QED  BY <1>p, <1>f, <2>1, <3>1, Returning, Zenon DEF Errors
    <2>3. CASE meta # None
      <3>1. PICK l : l = [Idle EXCEPT !.msg = meta]  BY Zenon
      <3>2. Goto(p, "evaluate.decision", l)  BY <1>1, <2>3, <3>1, Zenon DEF EvaluateMessage
      <3>3. l \in Locals /\ l.msg # None  BY <2>3, <3>1, Zenon DEF Idle, Locals, Errors, IInv, TypeOK
      <3>4. LocalBound(l, "evaluate.decision")  BY <3>3, Zenon DEF LocalBound, HasLifecycle, HasDecision
      <3> QED  BY <1>p, <2>1, <3>2, <3>3, <3>4, Reading, Zenon DEF Labels
    <2> QED  BY <2>2, <2>3, Zenon
  <1>2. CASE EvaluateDecision(p)
    <2>1. Reads /\ pc[p] = "evaluate.decision"  BY <1>2, Zenon DEF EvaluateDecision
    <2>2. CASE DecisionCurrent /\ Matches(p, decision)
      <3>1. Return(p, "nil")  BY <1>2, <2>2, Zenon DEF EvaluateDecision
      <3> QED  BY <1>p, <1>f, <2>1, <3>1, Returning, Zenon DEF Errors
    <2>3. CASE ~(DecisionCurrent /\ Matches(p, decision))
      <3>1. loc[p] \in Locals /\ LocalBound(loc[p], pc[p])  BY <1>p, Zenon DEF IInv, TypeOK
      <3>2. loc[p].msg \in Metas  BY <2>1, <3>1, Zenon DEF LocalBound, Locals
      <3>3. PICK t \in Times :
              LET next == [source |-> loc[p].msg, policy |-> PolicyOf[p],
                           class |-> ClassOf[p][loc[p].msg], at |-> t]
                  expected == IF decision = NoDecision THEN None ELSE DecisionRevision(decision)
              IN  Goto(p, "gate.inspect",
                       [loc[p] EXCEPT !.stmt = GateStatement(loc[p].msg, expected, next)])
        BY <1>2, <2>3, Zenon DEF EvaluateDecision
      <3>4. PICK next : next = [source |-> loc[p].msg, policy |-> PolicyOf[p],
                                class |-> ClassOf[p][loc[p].msg], at |-> t]
        BY Zenon
      <3>5. PICK expected :
              expected = IF decision = NoDecision THEN None ELSE DecisionRevision(decision)
        BY Zenon
      <3>6. PICK s : s = GateStatement(loc[p].msg, expected, next)  BY Zenon
      <3>7. PICK l : l = [loc[p] EXCEPT !.stmt = s]  BY Zenon
      <3>8. Goto(p, "gate.inspect", l)  BY <3>3, <3>4, <3>5, <3>6, <3>7, Zenon
      <3>9. next \in Decision /\ next.source = loc[p].msg
        BY <3>2, <3>4, EvaluatorConstants, Zenon DEF Decision
      <3>10. expected \in DecisionRevisions \cup {None}
        BY <3>5, Zenon DEF IInv, TypeOK, Decision, DecisionRevision, DecisionRevisions
      <3>11. s \in GateStatements /\ s.next.source = s.source
        BY <3>2, <3>6, <3>9, <3>10, Zenon DEF GateStatement, GateStatements
      <3>12. l \in Locals /\ l.stmt = s  BY <3>1, <3>7, <3>11, Zenon DEF Locals
      <3>13. LocalBound(l, "gate.inspect")
        BY <3>11, <3>12, Zenon DEF LocalBound, GateBound, HasLifecycle, HasDecision
      <3> QED  BY <1>p, <2>1, <3>8, <3>12, <3>13, Reading, Zenon DEF Labels
    <2> QED  BY <2>2, <2>3, Zenon
  <1>3. CASE EvaluateFresh(p)
    <2>1. PICK err \in {"nil", "recovery"} : Return(p, err)  BY <1>3, Zenon DEF EvaluateFresh
    <2>2. Reads  BY <1>3, Zenon DEF EvaluateFresh
    <2> QED  BY <1>p, <1>f, <2>1, <2>2, Returning, Zenon DEF Errors
  <1> QED  BY <1>1, <1>2, <1>3, Zenon

\* A statement is sent only when it replaces another input (GateInspect).
LEMMA GateInspectKeeps ==
  ASSUME IInv, NEW p \in Evaluators, GateInspect(p)
  PROVE  IInv'
  <1>p. p \in Procs  BY Zenon DEF Procs
  <1>1. Reads /\ pc[p] = "gate.inspect"  BY Zenon DEF GateInspect
  <1>2. UNCHANGED <<rows, late>> /\ faults' \in 0 .. MaxFaults
    BY <1>1, Zenon DEF Reads, IInv, TypeOK
  <1>3. loc[p] \in Locals /\ LocalBound(loc[p], pc[p])  BY <1>p, Zenon DEF IInv, TypeOK
  <1>4. PICK l \in Locals : l = loc[p]  BY <1>3, Zenon
  <1>5. PICK s : s = l.stmt  BY Zenon
  <1>6. GateBound(s)  BY <1>1, <1>3, <1>4, <1>5, Zenon DEF LocalBound
  <1>7. s \in GateStatements /\ s.table = "decision"  BY <1>6, Zenon DEF GateBound, GateStatements
  <1>8. CASE ResolveGate(s) # "nil"
    <2>1. CommitGateFails(p, ResolveGate(s))  BY <1>4, <1>5, <1>8, Zenon DEF GateInspect
    <2>2. PICK err \in {"recovery", "conflict"} : Return(p, err)  BY <2>1, Zenon DEF CommitGateFails
    <2> QED  BY <1>p, <1>2, <2>2, Returning, Zenon DEF Errors
  <1>9. CASE ResolveGate(s) = "nil" /\ decision # NoDecision /\ SameDecision(decision, s.next)
    <2>1. Goto(p, "evaluate.fresh", l)  BY <1>4, <1>5, <1>9, Zenon DEF GateInspect
    <2>2. LocalBound(l, "evaluate.fresh")  BY Zenon DEF LocalBound, HasLifecycle, HasDecision
    <2> QED  BY <1>p, <1>1, <2>1, <2>2, Reading, Zenon DEF Labels
  <1>10. CASE ResolveGate(s) = "nil" /\ ~(decision # NoDecision /\ SameDecision(decision, s.next))
    <2>1. Goto(p, "gate.mutate", l)  BY <1>4, <1>5, <1>10, Zenon DEF GateInspect
    <2>2. s.expected # None => s.expected # DecisionRevision(s.next)
      BY <1>10, Zenon DEF ResolveGate
    <2>3. Replaces(s)  BY <1>6, <1>7, <2>2, Zenon DEF Replaces
    <2>4. LocalBound(l, "gate.mutate")
      BY <1>5, <2>3, Zenon DEF LocalBound, HasLifecycle, HasDecision
    <2> QED  BY <1>p, <1>1, <2>1, <2>4, Reading, Zenon DEF Labels
  <1> QED  BY <1>8, <1>9, <1>10, Zenon

\* The statement of gateDecisionCommitSQL or candidateContentCommitSQL writes a
\* row of its table's type, or nothing.
LEMMA Executed ==
  ASSUME IInv, NEW s, Replaces(s), s \in Statements, Execute(s)
  PROVE  /\ decision' \in Decision \cup {NoDecision}
         /\ content' \in Content \cup {NoContent}
         /\ UNCHANGED <<lifecycle, meta>>
  <1>1. s.table = "decision" => s.next \in Decision
    BY Zenon DEF Statements, GateStatements, ContentStatements
  <1>2. s.table = "content" => s.next \in Content
    BY Zenon DEF Statements, GateStatements, ContentStatements
  <1> QED  BY <1>1, <1>2, Zenon DEF Execute, IInv, TypeOK

\* A step that executes or loses the statement of a process.
LEMMA Mutating ==
  ASSUME IInv, NEW p \in Procs, NEW at \in {"gate.verify", "content.verify"},
         pc[p] \in {"gate.mutate", "content.mutate"}, Goto(p, at, loc[p]),
         \/ Execute(loc[p].stmt) /\ UNCHANGED <<late, faults>>
         \/ late' = late \cup {loc[p].stmt} /\ Fault /\ UNCHANGED rows
  PROVE  IInv'
  <1>1. loc[p] \in Locals /\ LocalBound(loc[p], pc[p])  BY Zenon DEF IInv, TypeOK
  <1>2. PICK l \in Locals : l = loc[p]  BY <1>1, Zenon
  <1>3. PICK s : s = l.stmt  BY Zenon
  <1>4. Replaces(s)  BY <1>1, <1>2, <1>3, Zenon DEF LocalBound
  <1>5. s \in Statements
    BY <1>4, Zenon DEF Replaces, GateBound, ContentBound, Statements
  <1>6. LocalBound(l, at)'  BY Zenon DEF LocalBound, HasLifecycle, HasDecision
  <1>7. lifecycle \in Lifecycles /\ lifecycle.version \in Int
    BY CandidateConstants DEF IInv, TypeOK, Lifecycles
  <1>8. UNCHANGED <<lifecycle, meta>>  BY Zenon DEF Execute, rows
  <1>9. lifecycle' \in Lifecycles /\ lifecycle.version <= lifecycle'.version  BY <1>7, <1>8
  <1>10. meta' \in Metas \cup {None}  BY <1>8, Zenon DEF IInv, TypeOK
  <1>11. late' \subseteq late \cup {s}  BY <1>2, <1>3, Zenon
  <1>12. LateBound'
    <2> SUFFICES ASSUME NEW e \in late' PROVE Replaces(e)'  BY Zenon DEF LateBound
    <2>1. PICK c : c = e  BY Zenon
    <2>2. Replaces(c)  BY <1>4, <1>11, <2>1, Zenon DEF IInv, LateBound
    <2>3. Replaces(c)'  BY <1>7, <1>9, <2>2, StaysBound, Zenon
    <2> QED  BY <2>1, <2>3, Zenon
  <1>13. late' \subseteq Statements  BY <1>5, <1>11, Zenon DEF IInv, TypeOK, Statements
  <1>14. faults' \in 0 .. MaxFaults  BY CandidateConstants DEF IInv, TypeOK, Fault
  <1>15. decision' \in Decision \cup {NoDecision} /\ content' \in Content \cup {NoContent}
    <2>1. CASE Execute(loc[p].stmt)  BY <1>2, <1>3, <1>4, <1>5, <2>1, Executed, Zenon
    <2>2. CASE UNCHANGED rows  BY <2>2, Zenon DEF rows, IInv, TypeOK
    <2> QED  BY <2>1, <2>2, Zenon
  <1>16. Goto(p, at, l) /\ at \in Labels  BY <1>2, Zenon DEF Labels
  <1> QED  BY <1>6, <1>9, <1>10, <1>12, <1>13, <1>14, <1>15, <1>16, Moves, Zenon

\* A failed read or a crash costs a fault and ends the call.
LEMMA Failing ==
  ASSUME IInv, NEW p \in Procs, NEW err \in Errors, Fault, Return(p, err), UNCHANGED <<rows, late>>
  PROVE  IInv'
  <1>1. faults' \in 0 .. MaxFaults  BY CandidateConstants DEF IInv, TypeOK, Fault
  <1> QED  BY <1>1, Returning, Zenon

\* Every step of an evaluator.
LEMMA EvaluatorStep ==
  ASSUME IInv, NEW p \in Evaluators, Evaluate(p) \/ EvaluatorFaults(p)
  PROVE  IInv'
  <1>p. p \in Procs  BY Zenon DEF Procs
  <1>1. CASE EvaluateMessage(p) \/ EvaluateDecision(p) \/ EvaluateFresh(p)
    BY <1>1, EvaluateKeeps, Zenon
  <1>2. CASE GateInspect(p)  BY <1>2, GateInspectKeeps, Zenon
  <1>3. CASE GateMutate(p)  BY <1>p, <1>3, Mutating, Zenon DEF GateMutate
  <1>4. CASE GateVerify(p)
    <2>1. Reads  BY <1>4, Zenon DEF GateVerify
    <2>2. UNCHANGED <<rows, late>> /\ faults' \in 0 .. MaxFaults
      BY <2>1, Zenon DEF Reads, IInv, TypeOK
    <2>3. PICK l \in Locals : l = loc[p]  BY <1>p, Zenon DEF IInv, TypeOK
    <2>4. Goto(p, "evaluate.fresh", l) \/ Return(p, "recovery") \/ Return(p, "conflict")
      BY <1>4, <2>3, Zenon DEF GateVerify, CommitGateFails
    <2>5. LocalBound(l, "evaluate.fresh")  BY Zenon DEF LocalBound, HasLifecycle, HasDecision
    <2>6. CASE Goto(p, "evaluate.fresh", l)  BY <1>p, <2>1, <2>5, <2>6, Reading, Zenon DEF Labels
    <2>7. CASE Return(p, "recovery")  BY <1>p, <2>2, <2>7, Returning, Zenon DEF Errors
    <2>8. CASE Return(p, "conflict")  BY <1>p, <2>2, <2>8, Returning, Zenon DEF Errors
    <2> QED  BY <2>4, <2>6, <2>7, <2>8, Zenon
  <1>5. CASE GateLost(p)  BY <1>p, <1>5, Mutating, Zenon DEF GateLost
  <1>6. CASE EvaluateReadFails(p)  BY <1>p, <1>6, Failing, Zenon DEF EvaluateReadFails, Errors
  <1>7. CASE Crash(p)  BY <1>p, <1>7, Failing, Zenon DEF Crash, Errors
  <1> QED  BY <1>1, <1>2, <1>3, <1>4, <1>5, <1>6, <1>7, Zenon DEF Evaluate, EvaluatorFaults

-----------------------------------------------------------------------------
(* Extract and CommitCandidateContent. *)

\* The reads of preflight: lifecycle, message, decision, content.
LEMMA PreflightKeeps ==
  ASSUME IInv, NEW p \in Extractors,
         \/ ExtractLifecycle(p) \/ ExtractMessage(p) \/ ExtractDecision(p)
         \/ ExtractContent(p) \/ ExtractCached(p)
  PROVE  IInv'
  <1>p. p \in Procs  BY Zenon DEF Procs
  <1>0. Reads
    BY Zenon DEF ExtractLifecycle, ExtractMessage, ExtractDecision, ExtractContent, ExtractCached
  <1>f. UNCHANGED <<rows, late>> /\ faults' \in 0 .. MaxFaults  BY <1>0, Zenon DEF Reads, IInv, TypeOK
  <1>r. ASSUME NEW err \in Errors, Return(p, err) PROVE IInv'  BY <1>p, <1>f, <1>r, Returning, Zenon
  <1>g. ASSUME NEW at \in Labels, NEW l \in Locals, Goto(p, at, l), LocalBound(l, at) PROVE IInv'
    BY <1>p, <1>0, <1>g, Reading, Zenon
  <1>l. PICK k \in Locals : k = loc[p]  BY <1>p, Zenon DEF IInv, TypeOK
  <1>b. LocalBound(k, pc[p])  BY <1>p, <1>l, Zenon DEF IInv
  <1>1. CASE ExtractLifecycle(p)
    <2>1. CASE ~Active  BY <1>1, <1>r, <2>1, Zenon DEF ExtractLifecycle, Errors
    <2>2. CASE Active /\ lifecycle.version = MaxVersion
      BY <1>1, <1>r, <2>2, Zenon DEF ExtractLifecycle, Errors
    <2>3. CASE Active /\ lifecycle.version # MaxVersion
      <3>1. PICK limit \in Limits :
              Goto(p, "extract.message", [Idle EXCEPT !.life = lifecycle, !.limit = limit])
        BY <1>1, <2>3, Zenon DEF ExtractLifecycle
      <3>2. PICK l : l = [Idle EXCEPT !.life = lifecycle, !.limit = limit]  BY Zenon
      <3>3. lifecycle \in Lifecycles  BY Zenon DEF IInv, TypeOK
      <3>4. l \in Locals /\ l.life = lifecycle /\ l.limit = limit
        BY <3>2, <3>3, Zenon DEF Idle, Locals, Errors
      <3>5. lifecycle.version < MaxVersion /\ lifecycle.version <= lifecycle.version
        BY <2>3, <3>3, CandidateConstants DEF Lifecycles
      <3>6. LocalBound(l, "extract.message")
        BY <2>3, <3>3, <3>4, <3>5, CandidateConstants, Zenon DEF LocalBound, HasLifecycle, HasDecision, Active
      <3>7. Goto(p, "extract.message", l)  BY <3>1, <3>2, Zenon
      <3> QED  BY <1>g, <3>4, <3>6, <3>7, Zenon DEF Labels, HasLifecycle
    <2> QED  BY <2>1, <2>2, <2>3, Zenon
  <1>2. CASE ExtractMessage(p)
    <2>1. CASE meta = None  BY <1>2, <1>r, <2>1, Zenon DEF ExtractMessage, Errors
    <2>2. CASE meta # None
      <3>1. PICK l : l = [k EXCEPT !.msg = meta]  BY Zenon
      <3>2. l \in Locals /\ l.msg = meta /\ l.life = k.life /\ l.limit = k.limit
        BY <3>1, Zenon DEF Locals, IInv, TypeOK
      <3>3. Goto(p, "extract.decision", l) /\ pc[p] = "extract.message"
        BY <1>l, <1>2, <2>2, <3>1, Zenon DEF ExtractMessage
      <3>4. LocalBound(l, "extract.decision")
        BY <1>b, <2>2, <3>2, <3>3, Zenon DEF LocalBound, HasLifecycle, HasDecision
      <3> QED  BY <1>g, <3>2, <3>3, <3>4, Zenon DEF Labels, HasLifecycle
    <2> QED  BY <2>1, <2>2, Zenon
  <1>3. CASE ExtractDecision(p)
    <2> DEFINE eligible == DecisionCurrent /\ decision.source = k.msg /\ decision.class \in Candidate
    <2>1. CASE ~eligible  BY <1>l, <1>3, <1>r, <2>1, Zenon DEF ExtractDecision, Errors
    <2>2. CASE eligible
      <3>1. PICK l : l = [k EXCEPT !.seen = decision]  BY Zenon
      <3>2. decision \in Decision  BY <2>2, Zenon DEF DecisionCurrent, IInv, TypeOK
      <3>3. /\ l \in Locals /\ l.seen = decision /\ l.msg = k.msg
            /\ l.life = k.life /\ l.limit = k.limit
        BY <3>1, <3>2, Zenon DEF Locals
      <3>4. Goto(p, "extract.content", l) /\ pc[p] = "extract.decision"
        BY <1>l, <1>3, <2>2, <3>1, Zenon DEF ExtractDecision
      <3>5. LocalBound(l, "extract.content")
        BY <1>b, <2>2, <3>2, <3>3, <3>4, Zenon DEF LocalBound, HasLifecycle, HasDecision
      <3> QED  BY <1>g, <3>3, <3>4, <3>5, Zenon DEF Labels, HasLifecycle
    <2> QED  BY <2>1, <2>2, Zenon
  <1>4. CASE ExtractContent(p)
    <2>1. PICK at \in {"extract.cached", "extract.refresh"} : Goto(p, at, k)
      BY <1>l, <1>4, Zenon DEF ExtractContent
    <2>2. pc[p] = "extract.content"  BY <1>4, Zenon DEF ExtractContent
    <2>3. LocalBound(k, at)  BY <1>b, <2>2, Zenon DEF LocalBound, HasLifecycle, HasDecision
    <2> QED  BY <1>g, <2>1, <2>3, Zenon DEF Labels, HasLifecycle
  <1>5. CASE ExtractCached(p)  BY <1>5, <1>r, Zenon DEF ExtractCached, Errors
  <1> QED  BY <1>1, <1>2, <1>3, <1>4, <1>5, Zenon

\* From the refreshed token to the provider's answer.
LEMMA ProviderKeeps ==
  ASSUME IInv, NEW p \in Extractors,
         \/ ExtractRefresh(p) \/ ExtractVerify(p) \/ ExtractVerifySource(p)
         \/ ExtractGet(p) \/ ExtractRefused(p) \/ ExtractUnavailable(p)
  PROVE  IInv'
  <1>p. p \in Procs  BY Zenon DEF Procs
  <1>0. Reads
    BY Zenon DEF ExtractRefresh, ExtractVerify, ExtractVerifySource, ExtractGet, ExtractRefused,
           ExtractUnavailable
  <1>f. UNCHANGED <<rows, late>> /\ faults' \in 0 .. MaxFaults  BY <1>0, Zenon DEF Reads, IInv, TypeOK
  <1>r. ASSUME NEW err \in Errors, Return(p, err) PROVE IInv'  BY <1>p, <1>f, <1>r, Returning, Zenon
  <1>l. PICK k \in Locals : k = loc[p]  BY <1>p, Zenon DEF IInv, TypeOK
  <1>b. LocalBound(k, pc[p])  BY <1>p, <1>l, Zenon DEF IInv
  \* Between labels of HasDecision that ask for no more, the locals stay bound.
  <1>g. ASSUME NEW at \in HasDecision \ {"extract.prior"}, Goto(p, at, k), pc[p] \in HasDecision
        PROVE  IInv'
    <2>1. LocalBound(k, at)  BY <1>b, <1>g, Zenon DEF LocalBound, HasLifecycle, HasDecision
    <2>2. at \in Labels  BY Zenon DEF Labels, HasDecision
    <2> QED  BY <1>p, <1>0, <1>g, <2>1, <2>2, Reading, Zenon
  <1>1. CASE ExtractRefresh(p)
    BY <1>1, <1>g, <1>l, Zenon DEF ExtractRefresh, HasDecision, HasLifecycle
  <1>2. CASE ExtractVerify(p)
    <2>1. \/ Return(p, "inactive") \/ Return(p, "conflict") \/ Goto(p, "extract.verify_source", k)
      BY <1>2, <1>l, Zenon DEF ExtractVerify
    <2>2. pc[p] = "extract.verify"  BY <1>2, Zenon DEF ExtractVerify
    <2> QED  BY <1>g, <1>r, <2>1, <2>2, Zenon DEF Errors, HasDecision, HasLifecycle
  <1>3. CASE ExtractVerifySource(p)
    <2>1. Return(p, "conflict") \/ Goto(p, "extract.get", k)
      BY <1>3, <1>l, Zenon DEF ExtractVerifySource
    <2>2. pc[p] = "extract.verify_source"  BY <1>3, Zenon DEF ExtractVerifySource
    <2> QED  BY <1>g, <1>r, <2>1, <2>2, Zenon DEF Errors, HasDecision, HasLifecycle
  <1>4. CASE ExtractGet(p)
    <2>1. PICK b \in Bodies, t \in Times :
            Goto(p, "extract.prior",
                 [k EXCEPT !.next = [source |-> k.msg, policy |-> k.seen.policy, limit |-> k.limit,
                                     body |-> b, at |-> t, grant |-> lifecycle.version]])
      BY <1>l, <1>4, Zenon DEF ExtractGet
    <2>2. PICK n : n = [source |-> k.msg, policy |-> k.seen.policy, limit |-> k.limit,
                        body |-> b, at |-> t, grant |-> lifecycle.version]
      BY Zenon
    <2>3. PICK l : l = [k EXCEPT !.next = n]  BY Zenon
    <2>4. Goto(p, "extract.prior", l)  BY <2>1, <2>2, <2>3, Zenon
    <2>5. pc[p] = "extract.get"  BY <1>4, Zenon DEF ExtractGet
    <2>6. /\ k.seen \in Decision /\ k.seen.source = k.msg /\ k.limit # None
          /\ k.life \in Lifecycles /\ k.life.version <= lifecycle.version
          /\ k.life.state = "active" /\ k.life.version < MaxVersion
      BY <1>b, <2>5, Zenon DEF LocalBound, HasDecision, HasLifecycle
    <2>7. k.limit \in Limits  BY <2>6, Zenon DEF Locals
    <2>8. lifecycle.version \in 1 .. MaxVersion  BY Zenon DEF IInv, TypeOK, Lifecycles
    <2>9. k.msg \in Metas /\ k.seen.policy \in Policies  BY <2>6, Zenon DEF Decision
    <2>10. /\ n \in Content /\ n.source = k.msg /\ n.policy = k.seen.policy
           /\ n.grant = lifecycle.version
      BY <2>2, <2>7, <2>8, <2>9, Zenon DEF Content
    <2>11. /\ l \in Locals /\ l.next = n /\ l.msg = k.msg /\ l.seen = k.seen
           /\ l.life = k.life /\ l.limit = k.limit
      BY <2>3, <2>10, Zenon DEF Locals
    <2>12. lifecycle.version <= lifecycle.version  BY <2>8, CandidateConstants
    <2>13. LocalBound(l, "extract.prior")
      BY <2>6, <2>10, <2>11, <2>12, Zenon DEF LocalBound, HasDecision, HasLifecycle
    <2> QED  BY <1>p, <1>0, <2>4, <2>11, <2>13, Reading, Zenon DEF Labels, HasLifecycle
  <1>5. CASE ExtractRefused(p)
    BY <1>5, <1>g, <1>l, Zenon DEF ExtractRefused, HasDecision, HasLifecycle
  <1>6. CASE ExtractUnavailable(p)  BY <1>6, <1>r, Zenon DEF ExtractUnavailable, Errors
  <1> QED  BY <1>1, <1>2, <1>3, <1>4, <1>5, <1>6, Zenon

\* markReauthorization moves the lifecycle that preflight read, which was not
\* the last one.
LEMMA MarkKeeps ==
  ASSUME IInv, NEW p \in Extractors, ExtractMark(p)
  PROVE  IInv'
  <1>p. p \in Procs  BY Zenon DEF Procs
  <1>1. UNCHANGED <<meta, decision, content, late, faults>> /\ pc[p] = "extract.mark"
    BY Zenon DEF ExtractMark
  <1>2. CASE lifecycle # loc[p].life
    <2>1. Return(p, "recovery") /\ UNCHANGED <<rows, late>>  BY <1>1, <1>2, Zenon DEF ExtractMark, rows
    <2>2. faults' \in 0 .. MaxFaults  BY <1>1, Zenon DEF IInv, TypeOK
    <2> QED  BY <1>p, <2>1, <2>2, Returning, Zenon DEF Errors
  <1>3. CASE lifecycle = loc[p].life
    <2>1. /\ lifecycle' = [state |-> "reauthorization_required", version |-> lifecycle.version + 1]
          /\ Return(p, "reauthorization")
      BY <1>3, Zenon DEF ExtractMark
    <2>2. LocalBound(loc[p], pc[p])  BY <1>p, Zenon DEF IInv
    <2>3. loc[p].life.version < MaxVersion  BY <1>1, <2>2, Zenon DEF LocalBound, HasLifecycle
    <2>4. lifecycle \in Lifecycles  BY Zenon DEF IInv, TypeOK
    <2>5. lifecycle.version \in 1 .. MaxVersion  BY <2>4, Zenon DEF Lifecycles
    <2>6. lifecycle.version + 1 \in 1 .. MaxVersion  BY <1>3, <2>3, <2>5, CandidateConstants
    <2>7. lifecycle' \in Lifecycles  BY <2>1, <2>6, Zenon DEF Lifecycles, Transitions
    <2>8. lifecycle.version <= lifecycle'.version  BY <2>1, <2>5, CandidateConstants
    <2>9. LateBound'
      <3> SUFFICES ASSUME NEW s \in late PROVE Replaces(s)'  BY <1>1, Zenon DEF LateBound
      <3> QED  BY <2>4, <2>7, <2>8, StaysBound, Zenon DEF IInv, LateBound
    <2>10. PICK l : l = [Idle EXCEPT !.err = "reauthorization"]  BY Zenon
    <2>11. l \in Locals /\ Goto(p, "idle", l)  BY <2>1, <2>10, IdleLocals, Zenon DEF Return, Errors
    <2>12. LocalBound(l, "idle")'  BY Zenon DEF LocalBound, HasLifecycle, HasDecision
    <2>13. /\ meta' \in Metas \cup {None} /\ decision' \in Decision \cup {NoDecision}
           /\ content' \in Content \cup {NoContent} /\ late' \subseteq Statements
           /\ faults' \in 0 .. MaxFaults
      BY <1>1, Zenon DEF IInv, TypeOK, Statements
    <2>14. "idle" \in Labels  BY Zenon DEF Labels
    <2> QED  BY <1>p, <2>7, <2>8, <2>9, <2>11, <2>12, <2>13, <2>14, Moves, Zenon
  <1> QED  BY <1>2, <1>3, Zenon

\* The read of the existing content and the commit's two inspections.
LEMMA CommitKeeps ==
  ASSUME IInv, NEW p \in Extractors,
         ExtractPrior(p) \/ ContentInspect(p) \/ ContentVerify(p) \/ ExtractFresh(p)
  PROVE  IInv'
  <1>p. p \in Procs  BY Zenon DEF Procs
  <1>0. Reads  BY Zenon DEF ExtractPrior, ContentInspect, ContentVerify, ExtractFresh
  <1>f. UNCHANGED <<rows, late>> /\ faults' \in 0 .. MaxFaults  BY <1>0, Zenon DEF Reads, IInv, TypeOK
  <1>r. ASSUME NEW err \in Errors, Return(p, err) PROVE IInv'  BY <1>p, <1>f, <1>r, Returning, Zenon
  <1>g. ASSUME NEW at \in Labels, NEW l \in Locals, Goto(p, at, l), LocalBound(l, at) PROVE IInv'
    BY <1>p, <1>0, <1>g, Reading, Zenon
  <1>l. PICK k \in Locals : k = loc[p]  BY <1>p, Zenon DEF IInv, TypeOK
  <1>b. LocalBound(k, pc[p])  BY <1>p, <1>l, Zenon DEF IInv
  <1>e. \A s : ResolveContent(s) \in Errors  BY Zenon DEF ResolveContent, Errors
  <1>h. LocalBound(k, "extract.fresh")  BY Zenon DEF LocalBound, HasLifecycle, HasDecision
  <1>s. PICK s : s = k.stmt  BY Zenon
  <1>1. CASE ExtractPrior(p)
    <2>1. PICK e : e = IF content = NoContent THEN None ELSE ContentRevision(content)  BY Zenon
    <2>2. PICK c : c = ContentStatement(k.life.version, k.msg, k.seen, e, k.next)  BY Zenon
    <2>3. PICK l : l = [k EXCEPT !.stmt = c]  BY Zenon
    <2>4. Return(p, "nil") \/ Goto(p, "content.inspect", l)
      BY <1>l, <1>1, <2>1, <2>2, <2>3, Zenon DEF ExtractPrior
    <2>5. pc[p] = "extract.prior"  BY <1>1, Zenon DEF ExtractPrior
    <2>6. /\ k.seen \in Decision /\ k.seen.source = k.msg /\ k.life \in Lifecycles
          /\ k.next \in Content /\ k.next.source = k.msg /\ k.next.policy = k.seen.policy
          /\ k.life.version <= k.next.grant /\ k.next.grant <= lifecycle.version
      BY <1>b, <2>5, Zenon DEF LocalBound, HasDecision, HasLifecycle
    <2>7. e \in ContentRevisions \cup {None}
      BY <2>1, Zenon DEF IInv, TypeOK, Content, ContentRevision, ContentRevisions
    <2>8. k.msg \in Metas /\ k.life.version \in 1 .. MaxVersion  BY <2>6, Zenon DEF Decision, Lifecycles
    <2>9. /\ c \in ContentStatements /\ c.gate = k.seen /\ c.source = k.msg
          /\ c.next = k.next /\ c.version = k.life.version
      BY <2>2, <2>6, <2>7, <2>8, Zenon DEF ContentStatement, ContentStatements
    <2>10. ContentBound(c)  BY <2>6, <2>9, Zenon DEF ContentBound
    <2>11. l \in Locals /\ l.stmt = c  BY <2>3, <2>9, Zenon DEF Locals
    <2>12. LocalBound(l, "content.inspect")
      BY <2>10, <2>11, Zenon DEF LocalBound, HasLifecycle, HasDecision
    <2> QED  BY <1>g, <1>r, <2>4, <2>11, <2>12, Zenon DEF Labels, Errors
  <1>2. CASE ContentInspect(p)
    <2>1. pc[p] = "content.inspect"  BY <1>2, Zenon DEF ContentInspect
    <2>2. ContentBound(s)  BY <1>b, <1>s, <2>1, Zenon DEF LocalBound
    <2>3. s.table = "content"  BY <2>2, Zenon DEF ContentBound, ContentStatements
    <2>4. CASE ResolveContent(s) # "nil"
      BY <1>2, <1>e, <1>l, <1>r, <1>s, <2>4, Zenon DEF ContentInspect
    <2> DEFINE same == content # NoContent /\ ContentRevision(content) = ContentRevision(s.next)
    <2>5. CASE ResolveContent(s) = "nil" /\ same
      <3>1. Goto(p, "extract.fresh", k)  BY <1>2, <1>l, <1>s, <2>5, Zenon DEF ContentInspect
      <3> QED  BY <1>g, <1>h, <3>1, Zenon DEF Labels
    <2>6. CASE ResolveContent(s) = "nil" /\ ~same
      <3>1. Goto(p, "content.mutate", k)  BY <1>2, <1>l, <1>s, <2>6, Zenon DEF ContentInspect
      <3>2. s.expected # None => s.expected # ContentRevision(s.next)
        BY <2>6, Zenon DEF ResolveContent
      <3>3. Replaces(s)  BY <2>2, <2>3, <3>2, Zenon DEF Replaces
      <3>4. LocalBound(k, "content.mutate")
        BY <1>s, <3>3, Zenon DEF LocalBound, HasLifecycle, HasDecision
      <3> QED  BY <1>g, <3>1, <3>4, Zenon DEF Labels
    <2> QED  BY <2>4, <2>5, <2>6, Zenon
  <1>3. CASE ContentVerify(p)
    <2>1. \/ Goto(p, "extract.fresh", k) \/ Return(p, "recovery") \/ Return(p, ResolveContent(s))
      BY <1>3, <1>l, <1>s, Zenon DEF ContentVerify
    <2>2. CASE Goto(p, "extract.fresh", k)  BY <1>g, <1>h, <2>2, Zenon DEF Labels
    <2>3. CASE Return(p, "recovery")  BY <1>r, <2>3, Zenon DEF Errors
    <2>4. CASE Return(p, ResolveContent(s))  BY <1>e, <1>r, <2>4, Zenon
    <2> QED  BY <2>1, <2>2, <2>3, <2>4, Zenon
  <1>4. CASE ExtractFresh(p)  BY <1>4, <1>r, Zenon DEF ExtractFresh, Errors
  <1> QED  BY <1>1, <1>2, <1>3, <1>4, Zenon

\* Every step of an extractor.
LEMMA ExtractorStep ==
  ASSUME IInv, NEW p \in Extractors, Extract(p) \/ ExtractorFaults(p)
  PROVE  IInv'
  <1>p. p \in Procs  BY Zenon DEF Procs
  <1>1. CASE \/ ExtractLifecycle(p) \/ ExtractMessage(p) \/ ExtractDecision(p)
             \/ ExtractContent(p) \/ ExtractCached(p)
    BY <1>1, PreflightKeeps, Zenon
  <1>2. CASE \/ ExtractRefresh(p) \/ ExtractVerify(p) \/ ExtractVerifySource(p)
             \/ ExtractGet(p) \/ ExtractRefused(p) \/ ExtractUnavailable(p)
    BY <1>2, ProviderKeeps, Zenon
  <1>3. CASE ExtractMark(p)  BY <1>3, MarkKeeps, Zenon
  <1>4. CASE ExtractPrior(p) \/ ContentInspect(p) \/ ContentVerify(p) \/ ExtractFresh(p)
    BY <1>4, CommitKeeps, Zenon
  <1>5. CASE ContentMutate(p)  BY <1>p, <1>5, Mutating, Zenon DEF ContentMutate
  <1>6. CASE ContentLost(p)  BY <1>p, <1>6, Mutating, Zenon DEF ContentLost
  <1>7. CASE ExtractReadFails(p)  BY <1>p, <1>7, Failing, Zenon DEF ExtractReadFails, Errors
  <1>8. CASE Crash(p)  BY <1>p, <1>8, Failing, Zenon DEF Crash, Errors
  <1> QED
    BY <1>1, <1>2, <1>3, <1>4, <1>5, <1>6, <1>7, <1>8, Zenon DEF Extract, ExtractorFaults

-----------------------------------------------------------------------------
(* The invariant holds at the start and every step keeps it. *)

\* Nothing has been read or sent (StoreInit).
LEMMA CandidatesStart == Init => IInv
  <1> SUFFICES ASSUME Init PROVE IInv  OBVIOUS
  <1> USE DEF Init, StoreInit
  <1>1. Idle \in Locals  BY Zenon DEF Idle, Locals, Errors
  <1>2. lifecycle \in Lifecycles  BY CandidateConstants DEF Lifecycles, Transitions
  <1>3. TypeOK  BY <1>1, <1>2, CandidateConstants DEF TypeOK, Labels
  <1>4. \A p \in Procs : LocalBound(loc[p], pc[p])
    BY Zenon DEF LocalBound, HasLifecycle, HasDecision
  <1> QED  BY <1>3, <1>4, Zenon DEF IInv, LateBound

\* A step in which no process moves: discovery, a lifecycle change, a late statement.
LEMMA Standing ==
  ASSUME IInv, UNCHANGED <<faults, pc, loc>>, late' \subseteq late,
         lifecycle' \in Lifecycles, lifecycle.version <= lifecycle'.version,
         meta' \in Metas \cup {None}, decision' \in Decision \cup {NoDecision},
         content' \in Content \cup {NoContent}
  PROVE  IInv'
  <1>1. TypeOK'  BY Zenon DEF IInv, TypeOK
  <1>2. lifecycle \in Lifecycles  BY Zenon DEF IInv, TypeOK
  <1>3. LateBound'
    <2> SUFFICES ASSUME NEW s \in late' PROVE Replaces(s)'  BY Zenon DEF LateBound
    <2>1. PICK c : c = s  BY Zenon
    <2>2. Replaces(c)  BY <2>1, Zenon DEF IInv, LateBound
    <2>3. Replaces(c)'  BY <1>2, <2>2, StaysBound, Zenon
    <2> QED  BY <2>1, <2>3, Zenon
  <1>4. ASSUME NEW q \in Procs PROVE LocalBound(loc[q], pc[q])'
    <2>1. PICK k \in Locals : k = loc[q]  BY Zenon DEF IInv, TypeOK
    <2>2. PICK a : a = pc[q]  BY Zenon
    <2>3. LocalBound(k, a)  BY <2>1, <2>2, Zenon DEF IInv
    <2>4. LocalBound(k, a)'  BY <1>2, <2>3, LocalsStayBound, Zenon
    <2>5. loc'[q] = k /\ pc'[q] = a  BY <2>1, <2>2, Zenon
    <2> QED  BY <2>4, <2>5, Zenon DEF LocalBound
  <1> QED  BY <1>1, <1>3, <1>4, Zenon DEF IInv

\* The steps of the environment.
LEMMA EnvironmentStep ==
  ASSUME IInv,
         \/ \E s \in late : LateExecute(s)
         \/ \E m \in Metas : Rediscover(m)
         \/ \E s \in DOMAIN Transitions : ChangeLifecycle(s)
         \/ UNCHANGED vars
  PROVE  IInv'
  <1>1. /\ lifecycle \in Lifecycles /\ meta \in Metas \cup {None}
        /\ decision \in Decision \cup {NoDecision} /\ content \in Content \cup {NoContent}
    BY Zenon DEF IInv, TypeOK
  <1>2. lifecycle.version \in 1 .. MaxVersion  BY <1>1, Zenon DEF Lifecycles
  <1>3. lifecycle.version <= lifecycle.version  BY <1>2, CandidateConstants
  <1>4. ASSUME NEW s \in late, LateExecute(s) PROVE IInv'
    <2>1. PICK c : c = s  BY Zenon
    <2>2. Execute(c) /\ late' \subseteq late /\ UNCHANGED <<faults, pc, loc>>
      BY <1>4, <2>1, Zenon DEF LateExecute
    <2>3. Replaces(c) /\ c \in Statements  BY <2>1, Zenon DEF IInv, LateBound, TypeOK, Statements
    <2>4. /\ decision' \in Decision \cup {NoDecision} /\ content' \in Content \cup {NoContent}
          /\ UNCHANGED <<lifecycle, meta>>
      BY <2>2, <2>3, Executed, Zenon
    <2> QED  BY <1>1, <1>3, <2>2, <2>4, Standing, Zenon
  <1>5. ASSUME NEW m \in Metas, Rediscover(m) PROVE IInv'
    BY <1>1, <1>3, <1>5, Standing, Zenon DEF Rediscover
  <1>6. ASSUME NEW s \in DOMAIN Transitions, ChangeLifecycle(s) PROVE IInv'
    <2>1. lifecycle' = [state |-> s, version |-> lifecycle.version + 1]
      BY <1>6, Zenon DEF ChangeLifecycle
    <2>2. lifecycle.version + 1 \in 1 .. MaxVersion
      BY <1>2, <1>6, CandidateConstants DEF ChangeLifecycle
    <2>3. lifecycle' \in Lifecycles  BY <2>1, <2>2, Zenon DEF Lifecycles
    <2>4. lifecycle.version <= lifecycle'.version  BY <1>2, <2>1, CandidateConstants
    <2> QED  BY <1>1, <1>6, <2>3, <2>4, Standing, Zenon DEF ChangeLifecycle
  <1>7. CASE UNCHANGED vars  BY <1>1, <1>3, <1>7, Standing, Zenon DEF vars
  <1> QED  BY <1>4, <1>5, <1>6, <1>7, Zenon

\* The invariant is inductive.
LEMMA CandidatesStep == IInv /\ [Next]_vars => IInv'
  BY EvaluatorStep, ExtractorStep, EnvironmentStep, Zenon DEF Next

\* What every reachable state satisfies.
LEMMA CandidatesInvariance == Spec => []IInv
  <1> QED  BY CandidatesStart, CandidatesStep, PTL DEF Spec

-----------------------------------------------------------------------------
(* What a step may change. *)

\* Decision and content are written by a statement that is bound, and by
\* nothing else.
LEMMA OnlyStatementsWrite ==
  ASSUME IInv, [Next]_vars
  PROVE  \/ UNCHANGED <<decision, content>>
         \/ \E s \in Statements : Replaces(s) /\ Execute(s)
  <1>1. ASSUME NEW p \in Procs, NEW s, pc[p] \in {"gate.mutate", "content.mutate"},
               s = loc[p].stmt
        PROVE  Replaces(s) /\ s \in Statements
    <2>1. LocalBound(loc[p], pc[p])  BY Zenon DEF IInv
    <2>2. Replaces(s)  BY <1>1, <2>1, Zenon DEF LocalBound
    <2> QED  BY <2>2, Zenon DEF Replaces, GateBound, ContentBound, Statements
  <1>2. ASSUME NEW p \in Evaluators, GateMutate(p)
        PROVE  \E s \in Statements : Replaces(s) /\ Execute(s)
    <2>1. PICK s : s = loc[p].stmt  BY Zenon
    <2> QED  BY <1>1, <1>2, <2>1 DEF GateMutate, Procs
  <1>3. ASSUME NEW p \in Extractors, ContentMutate(p)
        PROVE  \E s \in Statements : Replaces(s) /\ Execute(s)
    <2>1. PICK s : s = loc[p].stmt  BY Zenon
    <2> QED  BY <1>1, <1>3, <2>1 DEF ContentMutate, Procs
  <1>4. ASSUME NEW s \in late, LateExecute(s)
        PROVE  \E c \in Statements : Replaces(c) /\ Execute(c)
    <2>1. PICK c : c = s  BY Zenon
    <2> QED  BY <1>4, <2>1, Zenon DEF LateExecute, IInv, LateBound, TypeOK, Statements
  <1>5. ASSUME NEW p \in Evaluators, Evaluate(p) \/ EvaluatorFaults(p), ~GateMutate(p)
        PROVE  UNCHANGED <<decision, content>>
    BY <1>5, Zenon DEF Evaluate, EvaluatorFaults, EvaluateMessage, EvaluateDecision, EvaluateFresh,
                GateInspect, GateVerify, GateLost, EvaluateReadFails, Crash, Reads, rows
  <1>6. ASSUME NEW p \in Extractors, Extract(p) \/ ExtractorFaults(p), ~ContentMutate(p)
        PROVE  UNCHANGED <<decision, content>>
    BY <1>6, Zenon DEF Extract, ExtractorFaults, ExtractLifecycle, ExtractMessage, ExtractDecision,
                ExtractContent, ExtractCached, ExtractRefresh, ExtractVerify, ExtractVerifySource,
                ExtractGet, ExtractMark, ExtractPrior, ContentInspect, ContentVerify, ExtractFresh,
                ExtractRefused, ExtractUnavailable, ContentLost, ExtractReadFails, Crash, Reads, rows
  <1>7. ASSUME NEW m \in Metas, Rediscover(m) PROVE UNCHANGED <<decision, content>>
    BY <1>7, Zenon DEF Rediscover
  <1>8. ASSUME NEW s \in DOMAIN Transitions, ChangeLifecycle(s)
        PROVE  UNCHANGED <<decision, content>>
    BY <1>8, Zenon DEF ChangeLifecycle
  <1> QED  BY <1>2, <1>3, <1>4, <1>5, <1>6, <1>7, <1>8, Zenon DEF Next, vars

\* What a statement that is bound may do to the decision.
LEMMA DecisionWritten ==
  ASSUME IInv, NEW s \in Statements, Replaces(s), Execute(s), decision' # decision
  PROVE  /\ content' = content /\ meta \in Metas
         /\ decision' \in Decision /\ decision'.source = meta
         /\ DecisionRevision(decision') # DecisionRevision(decision)
  <1>1. s.table = "decision" /\ GateApplies(s) /\ decision' = s.next /\ content' = content
    BY Zenon DEF Execute
  <1>2. s \in GateStatements /\ s.next.source = s.source
    BY <1>1, Zenon DEF Replaces, GateBound
  <1>3. s.next \in Decision /\ meta = s.source /\ s.source \in Metas
    BY <1>1, <1>2, Zenon DEF GateApplies, GateStatements
  <1>4. DecisionRevision(s.next) # DecisionRevision(decision)
    <2>1. CASE s.expected = None
      <3>1. decision = NoDecision  BY <1>1, <2>1, Zenon DEF GateApplies
      <3>2. decision.source = None /\ s.next.source # None
        BY <1>2, <1>3, <3>1, CandidateConstants, Zenon DEF NoDecision
      <3> QED  BY <3>2, Zenon DEF DecisionRevision
    <2>2. CASE s.expected # None  BY <1>1, <2>2, Zenon DEF GateApplies, Replaces
    <2> QED  BY <2>1, <2>2, Zenon
  <1> QED  BY <1>1, <1>2, <1>3, <1>4, Zenon

\* What a statement that is bound may do to the content.
LEMMA ContentWritten ==
  ASSUME IInv, NEW s \in Statements, Replaces(s), Execute(s), content' # content
  PROVE  /\ decision' = decision /\ meta \in Metas
         /\ Active /\ DecisionCurrent /\ decision.class \in Candidate
         /\ content'.source = meta /\ content'.policy = decision.policy
         /\ content'.grant = lifecycle.version
         /\ ContentRevision(content') # ContentRevision(content)
  <1>1. s.table = "content" /\ ContentApplies(s) /\ content' = s.next /\ decision' = decision
    BY Zenon DEF Execute
  <1>2. ContentBound(s)  BY <1>1, Zenon DEF Replaces
  <1>3. /\ s.next \in Content /\ s.gate \in Decision /\ s.version \in 1 .. MaxVersion
        /\ s.source \in Metas
    BY <1>2, Zenon DEF ContentBound, ContentStatements
  <1>4. meta = s.source /\ decision = s.gate /\ decision.class \in Candidate /\ Active
    BY <1>1, Zenon DEF ContentApplies
  <1>5. decision.source = meta /\ s.next.source = meta /\ s.next.policy = decision.policy
    BY <1>2, <1>4, Zenon DEF ContentBound
  <1>6. decision # NoDecision
    BY <1>3, <1>4, <1>5, CandidateConstants DEF NoDecision
  <1>7. s.next.grant = lifecycle.version
    <2>1. s.next.grant \in Int /\ s.version \in Int  BY <1>3, CandidateConstants DEF Content
    <2>2. s.version <= s.next.grant /\ s.next.grant <= lifecycle.version
      BY <1>2, Zenon DEF ContentBound
    <2>3. lifecycle.version = s.version  BY <1>1, Zenon DEF ContentApplies
    <2> QED  BY <2>1, <2>2, <2>3
  <1>8. ContentRevision(s.next) # ContentRevision(content)
    <2>1. CASE s.expected = None
      <3>1. content = NoContent  BY <1>1, <2>1, Zenon DEF ContentApplies
      <3>2. content.source = None /\ s.next.source # None
        BY <1>3, <1>4, <1>5, <3>1, CandidateConstants, Zenon DEF NoContent
      <3> QED  BY <3>2, Zenon DEF ContentRevision
    <2>2. CASE s.expected # None  BY <1>1, <2>2, Zenon DEF ContentApplies, Replaces
    <2> QED  BY <2>1, <2>2, Zenon
  <1> QED  BY <1>1, <1>3, <1>4, <1>5, <1>6, <1>7, <1>8, Zenon DEF DecisionCurrent

-----------------------------------------------------------------------------
(* The results. *)

\* Rows, statements and locals keep their types (versions up to MaxVersion).
THEOREM CandidateTypes == Spec => []TypeOK
  <1>1. IInv => TypeOK  BY Zenon DEF IInv
  <1> QED  BY <1>1, CandidatesInvariance, PTL

\* Every statement, late or about to be sent, was built from one consistent
\* preflight and replaces another row than the one it writes.
THEOREM StatementsAreBound == Spec => []StatementsBound
  <1>1. IInv => StatementsBound  BY BoundEverywhere, Zenon
  <1> QED  BY <1>1, CandidatesInvariance, PTL

\* The inductive invariant that the runs check.
THEOREM ReadsBound == Spec => []BoundToReads
  <1>1. TypeOK /\ StatementsBound => BoundToReads  BY Zenon DEF BoundToReads
  <1> QED  BY <1>1, CandidateTypes, StatementsAreBound, PTL

\* A decision is replaced only by one with another input (CommitGateDecision).
THEOREM EvaluationKept == Spec => FirstEvaluationKept
  <1>1. IInv /\ [Next]_vars
        => [decision' # decision => DecisionRevision(decision') # DecisionRevision(decision)]_vars
    BY OnlyStatementsWrite, DecisionWritten, Zenon
  <1> QED  BY <1>1, CandidatesInvariance, PTL DEF Spec, FirstEvaluationKept

\* A decision is written only about the metadata of that moment.
THEOREM DecisionFollows == Spec => DecisionFollowsMetadata
  <1>1. IInv /\ [Next]_vars => [decision' # decision => decision'.source = meta]_vars
    BY OnlyStatementsWrite, DecisionWritten, Zenon
  <1> QED  BY <1>1, CandidatesInvariance, PTL DEF Spec, DecisionFollowsMetadata

\* Content is written for the decision and under the lifecycle version of the
\* moment, while its account is active, and was fetched under that version
\* (candidateContentCommitSQL).
THEOREM ContentStaysCurrent == Spec => ContentIsCurrent
  <1>1. IInv /\ [Next]_vars
        => [content' # content =>
              /\ Active
              /\ DecisionCurrent /\ decision.class \in Candidate
              /\ content'.source = meta /\ content'.policy = decision.policy
              /\ content'.grant = lifecycle.version]_vars
    BY OnlyStatementsWrite, ContentWritten, Zenon
  <1> QED  BY <1>1, CandidatesInvariance, PTL DEF Spec, ContentIsCurrent

\* The same excerpt for the same input is not written again.
THEOREM FetchKept == Spec => FirstFetchKept
  <1>1. IInv /\ [Next]_vars
        => [content' # content => ContentRevision(content') # ContentRevision(content)]_vars
    BY OnlyStatementsWrite, ContentWritten, Zenon
  <1> QED  BY <1>1, CandidatesInvariance, PTL DEF Spec, FirstFetchKept

-----------------------------------------------------------------------------
(* The refinement. *)

\* A step in which a row changes is one operation of the contract fake.
LEMMA FakeStep ==
  ASSUME IInv, [Next]_vars
  PROVE  Fake!Next \/ UNCHANGED Fake!vars
  <1>1. CASE \E s \in Statements : Replaces(s) /\ Execute(s)
    <2>1. PICK s \in Statements : Replaces(s) /\ Execute(s)  BY <1>1, Zenon
    <2>2. UNCHANGED <<lifecycle, meta>>  BY <2>1, Zenon DEF Execute
    <2>3. CASE decision' # decision
      <3>1. /\ content' = content /\ meta \in Metas /\ decision'.source = meta
            /\ DecisionRevision(decision') # DecisionRevision(decision)
        BY <2>1, <2>3, DecisionWritten, Zenon
      <3>2. meta # None  BY <3>1, CandidateConstants, Zenon
      <3>3. Fake!CommitGateDecision(meta,
               IF decision = NoDecision THEN None ELSE DecisionRevision(decision), decision')
        BY <2>2, <3>1, <3>2, Zenon DEF Fake!CommitGateDecision
      <3> QED  BY <3>3, Zenon DEF Fake!Next
    <2>4. CASE content' # content
      <3>1. /\ decision' = decision /\ meta \in Metas /\ Active /\ DecisionCurrent
            /\ decision.class \in Candidate
            /\ ContentRevision(content') # ContentRevision(content)
        BY <2>1, <2>4, ContentWritten, Zenon
      <3>2. meta # None  BY <3>1, CandidateConstants, Zenon
      <3>3. Fake!CommitCandidateContent(lifecycle.version, meta, decision,
               IF content = NoContent THEN None ELSE ContentRevision(content), content')
        BY <2>2, <3>1, <3>2, Zenon DEF Fake!CommitCandidateContent, Active, DecisionCurrent
      <3> QED  BY <3>3, Zenon DEF Fake!Next
    <2>5. CASE UNCHANGED <<decision, content>>  BY <2>2, <2>5, Zenon DEF Fake!vars
    <2> QED  BY <2>3, <2>4, <2>5, Zenon
  <1>2. ASSUME NEW m \in Metas, Rediscover(m) PROVE Fake!Next
    <2>1. meta' # None  BY <1>2, CandidateConstants, Zenon DEF Rediscover
    <2>2. Fake!CommitCurrentDiscovery
      BY <1>2, <2>1, Zenon DEF Rediscover, Active, Fake!CommitCurrentDiscovery
    <2> QED  BY <2>2, Zenon DEF Fake!Next
  <1>3. ASSUME NEW s \in DOMAIN Transitions, ChangeLifecycle(s) PROVE Fake!Next
    <2>1. lifecycle.state # "revoked"  BY <1>3 DEF ChangeLifecycle, Transitions
    <2>2. Fake!CommitAccountLifecycle
      BY <1>3, <2>1, Zenon DEF ChangeLifecycle, Fake!CommitAccountLifecycle
    <2> QED  BY <2>2, Zenon DEF Fake!Next
  <1>4. ASSUME NEW p \in Extractors, ExtractMark(p) PROVE Fake!Next \/ UNCHANGED Fake!vars
    <2>1. LocalBound(loc[p], pc[p])  BY Zenon DEF IInv, Procs
    <2>2. loc[p].life.state = "active"  BY <1>4, <2>1, Zenon DEF ExtractMark, LocalBound, HasLifecycle
    <2>3. CASE lifecycle = loc[p].life
      <3>1. Fake!CommitAccountLifecycle
        BY <1>4, <2>2, <2>3 DEF ExtractMark, Fake!CommitAccountLifecycle
      <3> QED  BY <3>1, Zenon DEF Fake!Next
    <2>4. CASE lifecycle # loc[p].life  BY <1>4, <2>4, Zenon DEF ExtractMark, Fake!vars
    <2> QED  BY <2>3, <2>4, Zenon
  <1>5. ASSUME NEW p \in Evaluators, Evaluate(p) \/ EvaluatorFaults(p)
        PROVE  UNCHANGED <<lifecycle, meta>>
    BY <1>5, Zenon DEF Evaluate, EvaluatorFaults, EvaluateMessage, EvaluateDecision, EvaluateFresh,
                GateInspect, GateMutate, GateVerify, GateLost, EvaluateReadFails, Crash, Reads,
                Execute, rows
  <1>6. ASSUME NEW p \in Extractors, Extract(p) \/ ExtractorFaults(p), ~ExtractMark(p)
        PROVE  UNCHANGED <<lifecycle, meta>>
    BY <1>6, Zenon DEF Extract, ExtractorFaults, ExtractLifecycle, ExtractMessage, ExtractDecision,
                ExtractContent, ExtractCached, ExtractRefresh, ExtractVerify, ExtractVerifySource,
                ExtractGet, ExtractPrior, ContentInspect, ContentMutate, ContentVerify,
                ExtractFresh, ExtractRefused, ExtractUnavailable, ContentLost, ExtractReadFails,
                Crash, Reads, Execute, rows
  <1>7. ASSUME NEW s \in late, LateExecute(s) PROVE UNCHANGED <<lifecycle, meta>>
    BY <1>7, Zenon DEF LateExecute, Execute
  <1>8. CASE UNCHANGED <<lifecycle, meta>> /\ UNCHANGED <<decision, content>>
    BY <1>8, Zenon DEF Fake!vars
  <1>9. UNCHANGED <<decision, content>> \/ \E s \in Statements : Replaces(s) /\ Execute(s)
    BY OnlyStatementsWrite, Zenon
  <1> QED
    BY <1>1, <1>2, <1>3, <1>4, <1>5, <1>6, <1>7, <1>8, <1>9, Zenon DEF Next, vars

\* The rows change only as the contract fake would change them, one whole
\* operation at a time (internal/storage/fake, the two commits of the adapter).
THEOREM RowsImplementFake == Spec => ImplementsFake
  <1>1. Init => Fake!Init  BY Zenon DEF Init, StoreInit, Fake!Init
  <1>2. IInv /\ [Next]_vars => [Fake!Next]_(Fake!vars)  BY FakeStep, Zenon
  <1> QED  BY <1>1, <1>2, CandidatesInvariance, PTL DEF Spec, ImplementsFake, Fake!Spec

-----------------------------------------------------------------------------
(* The classifier, for any message, any policy and any limits. *)

\* A set of numbers that is not empty has a least one.
LEMMA LeastExists ==
    ASSUME NEW S \in SUBSET Nat, S # {}
    PROVE  \E i \in S : \A j \in S : i <= j
<1>1. \E i \in S : \A j \in S : ~(<<j, i>> \in OpToRel(<, Nat))
  BY WFMin, NatLessThanWellFounded, Zenon
<1>2. PICK i \in S : \A j \in S : ~(<<j, i>> \in OpToRel(<, Nat))
  BY <1>1, Zenon
<1>3. ASSUME NEW j \in S PROVE i <= j
  <2>1. ~(<<j, i>> \in OpToRel(<, Nat)) /\ i \in Nat /\ j \in Nat
    BY <1>2, Zenon
  <2> QED
    BY <2>1 DEF OpToRel
<1> QED
  BY <1>3, Zenon

\* containsAnyFold searches for no more terms than there are.
LEMMA SearchesAtMost ==
    ASSUME NEW terms \in Seq(Seq(DOMAIN Fold)), NEW subject
    PROVE  Searches(subject, terms) \in Nat /\ Searches(subject, terms) <= Len(terms)
<1> DEFINE hits == {i \in DOMAIN terms : HasTerm(subject, Folded(terms[i]))}
<1>1. hits \in SUBSET Nat /\ Len(terms) \in Nat /\ \A i \in hits : i <= Len(terms)
  OBVIOUS
<1>2. Searches(subject, terms) =
          IF hits = {} THEN Len(terms) ELSE CHOOSE i \in hits : \A j \in hits : i <= j
  BY Zenon DEF Searches
<1> HIDE DEF hits
<1>3. CASE hits = {}
  BY <1>1, <1>2, <1>3
<1>4. CASE hits # {}
  <2>1. \E i \in hits : \A j \in hits : i <= j
    BY <1>1, <1>4, LeastExists, Zenon
  <2>2. (CHOOSE i \in hits : \A j \in hits : i <= j) \in hits
    BY <2>1, Zenon
  <2> QED
    BY <1>1, <1>2, <1>4, <2>2, Zenon
<1> QED
  BY <1>3, <1>4, Zenon

\* What Classify answers when it answers.
Classed(m, p) ==
    [outcome |-> Outcome(Signals(m, p)),
     reasons |-> IF Signals(m, p) = {} THEN {"no_candidate_signal"} ELSE Signals(m, p),
     input |-> InputHash(m, p)]

\* The outcomes of the switch.
LEMMA OutcomeIs ==
    ASSUME NEW has
    PROVE  Outcome(has) \in {"ignore", "urgent_review_candidate", "review_candidate", "metadata_only"}
  BY Zenon DEF Outcome

\* DecodeClassification accepts what Classify hands to it.
LEMMA Decodes ==
    ASSUME NEW m, NEW p
    PROVE  DecodeClassification(Outcome(Signals(m, p)),
               IF Signals(m, p) = {} THEN {"no_candidate_signal"} ELSE Signals(m, p),
               InputHash(m, p)) = Classed(m, p)
<1>1. PICK has : has = Signals(m, p)
  OBVIOUS
<1>2. "no_candidate_signal" \notin has
  BY <1>1, Zenon DEF Signals
<1>3. PICK r : r = IF has = {} THEN {"no_candidate_signal"} ELSE has
  OBVIOUS
<1>4. r # {} /\ ("no_candidate_signal" \in r => r = {"no_candidate_signal"})
  BY <1>2, <1>3, Zenon
<1> QED
  BY <1>1, <1>3, <1>4, Zenon DEF DecodeClassification, Classed

\* A valid policy classifies every message: its limits leave room for all its terms.
LEMMA ValidClassifies ==
    ASSUME NEW m \in Messages, NEW p \in Configured, ValidatePolicy(p)
    PROVE  Classify(m, p) = Classed(m, p)
<1> DEFINE subject == Folded(m.subject)
           c == Searches(subject, p.candidate)
           u == Searches(subject, p.urgent)
<1>1. /\ c \in Nat /\ c <= Len(p.candidate) /\ u \in Nat /\ u <= Len(p.urgent)
  BY ClassifierConstants, SearchesAtMost, Zenon
<1>2. Len(p.candidate) <= MaxTerms /\ Len(p.urgent) <= MaxTerms
  BY Zenon DEF ValidatePolicy, ValidTerms
<1>3. Len(p.candidate) \in Nat /\ Len(p.urgent) \in Nat
  BY ClassifierConstants
<1>4. MaxTerms \in Nat /\ MaxSearches \in Nat /\ 2 * MaxTerms <= MaxSearches
  BY ClassifierConstants, Zenon
<1>5. FoldFits(m.subject, MaxFoldedSubject)
  BY SubjectsFit, Zenon
<1>6. Classify(m, p) =
        IF ValidatePolicy(p) /\ FoldFits(m.subject, MaxFoldedSubject) /\ 2 * c <= MaxSearches /\ c + u <= MaxSearches
        THEN DecodeClassification(Outcome(Signals(m, p)),
               IF Signals(m, p) = {} THEN {"no_candidate_signal"} ELSE Signals(m, p), InputHash(m, p))
        ELSE Invalid
  BY Zenon DEF Classify
<1> HIDE DEF c, u
<1>7. 2 * c <= MaxSearches /\ c + u <= MaxSearches
  BY <1>1, <1>2, <1>3, <1>4
<1> QED
  BY <1>5, <1>6, <1>7, Decodes, Zenon

\* Classify answers with its decision or not at all.
LEMMA ClassifyIs ==
    ASSUME NEW m, NEW p
    PROVE  Classify(m, p) \in {Classed(m, p), Invalid}
  BY Decodes, Zenon DEF Classify

\* The lists count as sets: two policies with one hash give a message the same reasons.
LEMMA SignalsOfInput ==
    ASSUME NEW m, NEW p, NEW q, InputHash(m, p) = InputHash(m, q)
    PROVE  Signals(m, p) = Signals(m, q)
<1>1. /\ p.directIsCandidate = q.directIsCandidate /\ p.listIsBulk = q.listIsBulk
      /\ Range(p.excluded) = Range(q.excluded) /\ Range(p.suppressed) = Range(q.suppressed)
      /\ Range(p.allow) = Range(q.allow) /\ Range(p.block) = Range(q.block)
      /\ Range(p.candidate) = Range(q.candidate) /\ Range(p.urgent) = Range(q.urgent)
  BY Zenon DEF InputHash
<1>2. ASSUME NEW S, NEW T, Range(S) = Range(T), NEW d
      PROVE  /\ MatchesAnyDomain(d, S) <=> MatchesAnyDomain(d, T)
             /\ Found(d, S) <=> Found(d, T)
  <2>1. MatchesAnyDomain(d, S) <=> MatchesAnyDomain(d, T)
    BY <1>2, Zenon DEF MatchesAnyDomain
  <2>2. /\ Found(d, S) <=> \E x \in Range(S) : HasTerm(d, Folded(x))
        /\ Found(d, T) <=> \E x \in Range(T) : HasTerm(d, Folded(x))
    BY Zenon DEF Found, Range
  <2> QED
    BY <1>2, <2>1, <2>2, Zenon
<1>3. /\ MatchesAnyDomain(m.domain, p.allow) <=> MatchesAnyDomain(m.domain, q.allow)
      /\ MatchesAnyDomain(m.domain, p.block) <=> MatchesAnyDomain(m.domain, q.block)
      /\ Found(Folded(m.subject), p.candidate) <=> Found(Folded(m.subject), q.candidate)
      /\ Found(Folded(m.subject), p.urgent) <=> Found(Folded(m.subject), q.urgent)
  BY <1>1, <1>2, Zenon
<1>4. /\ IntersectsExact(m.labels, p.excluded) <=> IntersectsExact(m.labels, q.excluded)
      /\ IntersectsExact(m.labels, p.suppressed) <=> IntersectsExact(m.labels, q.suppressed)
  BY <1>1, Zenon DEF IntersectsExact
<1>5. ASSUME NEW r PROVE r \in Signals(m, p) <=> r \in Signals(m, q)
  BY <1>1, <1>3, <1>4, Zenon DEF Signals
<1> QED
  BY <1>5, Zenon

\* What is classified, and what came of it.
ClassifierInv ==
    /\ message \in Messages /\ policy \in Configured
    /\ result \in {NotYet, Classify(message, policy)}

\* The message and the policy stay, and the result is theirs (Evaluate, Classify).
LEMMA ClassifierInvariant == ClassifierSpec => []ClassifierInv
<1>1. ClassifierInit => ClassifierInv
  BY Zenon DEF ClassifierInit, ClassifierInv
<1>2. ClassifierInv /\ [ClassifierNext]_classifierVars => ClassifierInv'
  BY Zenon DEF ClassifierInv, ClassifierNext, Decide, classifierVars
<1> QED
  BY <1>1, <1>2, PTL DEF ClassifierSpec

\* For every message and policy, and any terms and limits that leave room for them, a
\* valid policy classifies, and the reasons explain the outcome (Classify).
THEOREM ClassifySound == ClassifierSpec => []ClassifyIsSound
<1>1. ASSUME NEW m, NEW p PROVE Classed(m, p) \notin {NotYet, Invalid}
  <2>1. Classed(m, p).outcome \notin {"not_yet", "invalid"}
    BY OutcomeIs, Zenon DEF Classed
  <2>2. NotYet.outcome = "not_yet" /\ Invalid.outcome = "invalid"
    BY Zenon DEF NotYet, Invalid
  <2> QED
    BY <2>1, <2>2, Zenon
<1>2. ASSUME ClassifierInv PROVE PolicyNeverBlocks
  <2>1. ASSUME result = Invalid, ValidatePolicy(policy) PROVE FALSE
    <3>1. Classify(message, policy) = Classed(message, policy)
      BY <1>2, <2>1, ValidClassifies, Zenon DEF ClassifierInv
    <3>2. NotYet # Invalid
      BY Zenon DEF NotYet, Invalid
    <3> QED
      BY <1>1, <1>2, <2>1, <3>1, <3>2, Zenon DEF ClassifierInv
  <2> QED
    BY <2>1, Zenon DEF PolicyNeverBlocks
<1>3. ASSUME ClassifierInv PROVE ReasonsExplain
  <2> SUFFICES ASSUME result \notin {NotYet, Invalid} PROVE ReasonsExplain
    BY Zenon DEF ReasonsExplain
  <2>1. result = Classed(message, policy)
    BY <1>3, ClassifyIs, Zenon DEF ClassifierInv
  <2>2. PICK has : has = Signals(message, policy)
    OBVIOUS
  <2>3. PICK r : r = IF has = {} THEN {"no_candidate_signal"} ELSE has
    OBVIOUS
  <2>4. result.outcome = Outcome(has) /\ result.reasons = r
    BY <2>1, <2>2, <2>3, Zenon DEF Classed
  <2>5. \A s \in {"excluded_label", "sender_block_domain", "sender_allow_domain", "bulk_category",
                  "mailing_list", "automated_message", "owner_candidate_term", "owner_urgent_term",
                  "direct_recipient"} : s \in r <=> s \in has
    BY <2>3, Zenon
  <2> HIDE <2>3
  <2> QED
    BY <2>4, <2>5, Zenon DEF ReasonsExplain, Outcome
<1> QED
  BY <1>2, <1>3, ClassifierInvariant, PTL DEF ClassifyIsSound

\* For every message and policies the input hash names everything that the decision
\* depends on (deriveInputHash, Classify).
THEOREM InputDecides == ClassifierSpec => []SameInputSameDecision
<1>1. ASSUME ClassifierInv PROVE SameInputSameDecision
  <2> SUFFICES ASSUME result \notin {NotYet, Invalid}, NEW q \in Configured,
                      InputHash(message, q) = result.input, ValidatePolicy(q)
               PROVE  Classify(message, q) = result
    BY Zenon DEF SameInputSameDecision
  <2>1. result = Classed(message, policy) /\ message \in Messages
    BY <1>1, ClassifyIs, Zenon DEF ClassifierInv
  <2>2. result.input = InputHash(message, policy)
    BY <2>1, Zenon DEF Classed
  <2>3. Signals(message, q) = Signals(message, policy)
    BY <2>2, SignalsOfInput, Zenon
  <2>4. Classify(message, q) = Classed(message, q)
    BY <2>1, ValidClassifies, Zenon
  <2> QED
    BY <2>1, <2>2, <2>3, <2>4, Zenon DEF Classed
<1> QED
  BY <1>1, ClassifierInvariant, PTL
=============================================================================
