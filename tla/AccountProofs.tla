--------------------------- MODULE AccountProofs ---------------------------
(***************************************************************************)
(* The safety invariants of AccountSystem, for any number of processes,    *)
(* faults and versions.                                                    *)
(***************************************************************************)
EXTENDS AccountSystem, TLAPS

Claimed == lifecycle.revocation \in {"attempting"} \cup Final

\* Statement s can be issued: a lifecycle update is an edge of the graph that
\* keeps the version budget and tells the truth about the provider, and a
\* deletion is only sent for a finished revocation.
GoodStatement(s) ==
    /\ s \in Statements
    /\ s.table = "lifecycle" =>
          /\ ValidShape(s.commit.nextState, s.commit.reason, s.commit.revocation)
          /\ ValidTransition(s.commit.expectedState, s.commit.expectedRevocation,
                             s.commit.nextState, s.commit.revocation)
          /\ s.commit.revocation = "pending" => s.commit.expectedVersion + 3 <= MaxVersion
          /\ s.commit.revocation = "confirmed" => grant = "revoked"
    /\ s.table = "delete" => lifecycle.revocation \in Final

IsClaim(s) == s.table = "lifecycle" /\ IsRevocationClaim(s.commit)

\* The row of the account.
RowInv ==
    /\ lifecycle.state = "absent" => lifecycle = NoLifecycle
    /\ ValidShape(lifecycle.state, lifecycle.reason, lifecycle.revocation)
    /\ ConfirmedIsTrue
    /\ RevocationKeepsItsBudget
    /\ ActivatedIsComplete

\* p saw its own claim change the row and has not yet asked the provider.
Owner(p) ==
    \/ pc[p] = "verify" /\ IsClaim(loc[p].stmt) /\ loc[p].rows = "one"
    \/ pc[p] = "revoke.claimed" /\ loc[p].err = "nil"
    \/ pc[p] \in {"revoke.credential", "revoke.provider"}

\* p is at label l, or in a call of the handle that comes back there.
Toward(p, l) == pc[p] = l \/ (pc[p] \in HandleReads /\ loc[p].ret = l)

ReturnLabels ==
    {"enroll.profile", "enroll.synced", "enroll.stored", "complete.cursor", "complete.done",
     "transition.done", "revoke.intent", "revoke.claimed", "finalize", "deleted"}

\* The statement p holds is the one its label is about.
StatementInv(p) ==
    /\ GoodStatement(loc[p].stmt)
    /\ pc[p] \in HandleReads => loc[p].ret \in ReturnLabels
    /\ pc[p] = "ensure" => loc[p].stmt.table = "account"
    /\ pc[p] = "sync" => loc[p].stmt.table = "cursor"
    /\ pc[p] \in {"cred", "cred.existing", "cred.recheck"} => loc[p].stmt.table = "credential"
    /\ pc[p] \in {"delete", "delete.existing"} => loc[p].stmt.table = "delete"
    /\ pc[p] \in {"commit", "commit.cursor", "commit.credential"} =>
          loc[p].stmt.table = "lifecycle"
    /\ Toward(p, "transition.done") => loc[p].stmt.table = "lifecycle"
    /\ Toward(p, "revoke.intent") =>
          /\ loc[p].stmt.table = "lifecycle"
          /\ loc[p].stmt.commit.nextState = "revoked"
          /\ loc[p].stmt.commit.revocation = "pending"
    /\ Toward(p, "revoke.claimed") => IsClaim(loc[p].stmt)
    /\ Toward(p, "complete.done") =>
          loc[p].stmt.table = "lifecycle" /\ loc[p].stmt.commit.nextState = "active"
    /\ Toward(p, "deleted") =>
          pc[p] = "deleted" \/ loc[p].stmt.table = "delete"

\* What p knows for good at its label.
PhaseInv(p) ==
    /\ pc[p] = "transition" =>
          /\ loc[p].op \in DOMAIN TransitionTo
          /\ (loc[p].op = "reauth") <=> (loc[p].reason # None)
    /\ Owner(p) => Claimed
    /\ pc[p] \in {"revoke.credential", "revoke.provider", "unclaimed"} =>
          loc[p].lc.state = "revoked" /\ loc[p].lc.revocation = "attempting"
             /\ lifecycle.state = "revoked"
    /\ pc[p] = "revoke.provider" => loc[p].cred # 0
    /\ pc[p] \in {"enroll.lifecycle", "enroll.cursor", "enroll.credential"} =>
          loc[p].history # None
    /\ Toward(p, "finalize") =>
          /\ lifecycle.state = "revoked"
          /\ loc[p].status \in Final
          /\ loc[p].stmt.table = "lifecycle"
          /\ loc[p].stmt.commit.nextState = "revoked"
          /\ loc[p].stmt.commit.revocation = loc[p].status
          /\ loc[p].cred = 0 => credential = 0
    /\ pc[p] = "finalize" /\ loc[p].err = "nil" => lifecycle.revocation = loc[p].status
    /\ pc[p] = "reconcile" \/ Toward(p, "deleted") =>
          lifecycle.revocation = loc[p].status /\ loc[p].status \in Final
    /\ pc[p] = "complete.done" /\ loc[p].err = "nil" =>
          lifecycle.state \notin {"absent", "pending"}
    /\ loc[p].result = "confirmed" => lifecycle.revocation = "confirmed" /\ credential = 0
    /\ loc[p].result = "manual" =>
          lifecycle.revocation = "manual_action_required" /\ credential = 0
    /\ loc[p].result = "enrolled" => lifecycle.state \notin {"absent", "pending"}

\* One claim, hence one request.
ClaimInv ==
    /\ requests > 0 => Claimed
    /\ requests <= 1
    /\ requests = 1 => \A p \in Procs : ~Owner(p)
    /\ \A p, q \in Procs : Owner(p) /\ Owner(q) => p = q

IInv ==
    /\ TypeOK
    /\ RowInv
    /\ \A s \in late : GoodStatement(s)
    /\ \A p \in Procs : StatementInv(p) /\ PhaseInv(p)
    /\ ClaimInv
-----------------------------------------------------------------------------
(* What the database can do to the rows. *)

\* A change of the rows and of the grant keeps everything PhaseInv relies on.
Stable ==
    /\ lifecycle.revocation \in Final => lifecycle' = lifecycle
    /\ Claimed => Claimed'
    /\ lifecycle.state = "revoked" =>
          lifecycle'.state = "revoked" /\ (credential = 0 => credential' = 0)
    /\ lifecycle.state \notin {"absent", "pending"} =>
          lifecycle'.state \notin {"absent", "pending"}
    /\ grant = "revoked" => grant' = "revoked"

\* The fields of a statement have the types its table calls for.
LEMMA StatementTypes ==
    ASSUME NEW s \in Statements
    PROVE  /\ s.table \in {"account", "cursor", "credential", "delete", "lifecycle"}
           /\ s.table = "cursor" => s.next \in HistoryIDs
           /\ s.table = "credential" => s.next \in 1 .. MaxEnvelopes
           /\ s.table = "delete" => s.expected \in 1 .. MaxEnvelopes
           /\ s.table = "lifecycle" => s.commit \in LifecycleCommit
BY SMTT(30) DEF Statements, AccountInsert, CursorInsert, CredentialInsert, CredentialDelete, LifecycleUpdate

\* A statement that may be issued keeps the row's invariant, and what it does
\* to the rows is stable.
LEMMA ExecuteGood ==
    ASSUME TypeOK, RowInv, NEW s, GoodStatement(s), Execute(s), grant' = grant
    PROVE  /\ lifecycle' \in Lifecycle
           /\ cursor' \in HistoryIDs \cup {None}
           /\ credential' \in 0 .. MaxEnvelopes
           /\ RowInv'
           /\ Stable
<1> USE AccountConstants
<1> USE DEF GoodStatement, RowInv, Stable, Claimed, Final, ValidShape, ConfirmedIsTrue,
            RevocationKeepsItsBudget, HasVersionBudget, RemainingTransitions, ActivatedIsComplete
<1>1. /\ s \in Statements
      /\ lifecycle \in Lifecycle
      /\ cursor \in HistoryIDs \cup {None}
      /\ credential \in 0 .. MaxEnvelopes
  BY Zenon DEF TypeOK
<1>2. CASE UNCHANGED tables
  BY <1>1, <1>2, Zenon DEF tables
<1>3. CASE s.table = "account" /\ Applies(s)
  <2>1. /\ lifecycle' = [state |-> "pending", version |-> 1, reason |-> None, revocation |-> "none"]
        /\ UNCHANGED <<cursor, credential>>
        /\ lifecycle.state = "absent"
    BY <1>3, Zenon DEF Execute, NewLifecycle, Applies, Exists
  <2> QED
    BY <1>1, <2>1 DEF Lifecycle, NoLifecycle, States, Revocations
<1>4. CASE s.table = "cursor" /\ Applies(s)
  <2>1. /\ cursor' = s.next /\ s.next \in HistoryIDs
        /\ UNCHANGED <<lifecycle, credential>>
    BY <1>1, <1>4, StatementTypes, Zenon DEF Execute
  <2> QED
    BY <1>1, <2>1, Zenon
<1>5. CASE s.table = "credential" /\ Applies(s)
  <2>1. /\ credential' = s.next /\ s.next \in 1 .. MaxEnvelopes
        /\ UNCHANGED <<lifecycle, cursor>>
        /\ lifecycle.state # "revoked"
    BY <1>1, <1>5, StatementTypes, Zenon DEF Execute, Applies, CredentialInsertApplies
  <2> QED
    BY <1>1, <2>1
<1>6. CASE s.table = "delete" /\ Applies(s)
  <2>1. /\ credential' = 0
        /\ UNCHANGED <<lifecycle, cursor>>
        /\ lifecycle.state = "revoked"
    BY <1>6, ZenonT(30) DEF Execute, Applies, CredentialDeleteApplies
  <2> QED
    BY <1>1, <2>1
<1>7. CASE s.table = "lifecycle" /\ Applies(s)
  <2> DEFINE c == s.commit
  <2>1. /\ lifecycle' = [state |-> c.nextState, version |-> lifecycle.version + 1,
                         reason |-> c.reason, revocation |-> c.revocation]
        /\ UNCHANGED <<cursor, credential>>
        /\ LifecycleUpdateApplies(c)
        /\ c \in LifecycleCommit
    BY <1>1, <1>7, StatementTypes, Zenon DEF Execute, Applies
  <2>2. /\ ValidShape(c.nextState, c.reason, c.revocation)
        /\ ValidTransition(c.expectedState, c.expectedRevocation, c.nextState, c.revocation)
        /\ c.revocation = "pending" => c.expectedVersion + 3 <= MaxVersion
        /\ c.revocation = "confirmed" => grant = "revoked"
    BY <1>7, Zenon
  <2> HIDE DEF c
  <2>3. lifecycle' \in Lifecycle
    BY <1>1, <2>1 DEF Lifecycle, LifecycleCommit, LifecycleUpdateApplies
  <2>4. RowInv'
    BY <1>1, <2>1, <2>2, <2>3 DEF Lifecycle, LifecycleCommit, LifecycleUpdateApplies, ValidTransition, States
  <2>5. Stable
    BY <1>1, <2>1, <2>2, Zenon DEF Lifecycle, LifecycleCommit, LifecycleUpdateApplies, ValidTransition, States
  <2> QED
    BY <1>1, <2>1, <2>3, <2>4, <2>5, ZenonT(30)
<1> QED
  BY <1>1, <1>2, <1>3, <1>4, <1>5, <1>6, <1>7, Zenon DEF Execute
-----------------------------------------------------------------------------
(* What a step of one process means for the others and for itself. *)

\* A statement that may be issued may still be issued after a stable change.
LEMMA StatementStable ==
    ASSUME Stable, NEW s, GoodStatement(s)
    PROVE  GoodStatement(s)'
BY Zenon DEF Stable, GoodStatement, Statements, AccountInsert, CursorInsert, CredentialInsert,
       CredentialDelete, LifecycleUpdate, LifecycleCommit, Final

\* A process that does not move keeps its invariants over a stable change.
LEMMA BystanderStable ==
    ASSUME RowInv, Stable, NEW q \in Procs, pc'[q] = pc[q], loc'[q] = loc[q],
           StatementInv(q), PhaseInv(q)
    PROVE  StatementInv(q)' /\ PhaseInv(q)' /\ (Owner(q)' <=> Owner(q))
<1>1. GoodStatement(loc[q].stmt)'
  <2>1. \A s : GoodStatement(s) => GoodStatement(s)'
    BY StatementStable, Zenon
  <2>2. GoodStatement(loc[q].stmt)
    BY Zenon DEF StatementInv
  <2>3. (loc[q].stmt)' = loc[q].stmt
    OBVIOUS
  <2> QED
    BY <2>1, <2>2, <2>3, Zenon DEF GoodStatement
<1>2. Owner(q)' <=> Owner(q)
  BY ZenonT(30) DEF Owner, IsClaim
<1>3. StatementInv(q)'
  BY <1>1, ZenonT(30) DEF StatementInv, Toward, IsClaim
<1>4. PhaseInv(q)'
  BY <1>2 DEF PhaseInv, Toward, Stable, Final, RowInv, ValidShape
<1> QED
  BY <1>2, <1>3, <1>4, ZenonT(30)

\* Only p moves, and the rows and the provider do not.
LocalChange(p) ==
    /\ UNCHANGED <<lifecycle, cursor, credential, requests, grant>>
    /\ late' \subseteq late \cup {loc[p].stmt}
    /\ faults' \in 0 .. MaxFaults
    /\ issued' \in 0 .. MaxEnvelopes
    /\ pc' = [pc EXCEPT ![p] = pc'[p]]
    /\ loc' = [loc EXCEPT ![p] = loc'[p]]

\* Where p goes is covered by the invariant and does not create a claim.
Lands(p) ==
    /\ pc'[p] \in Labels
    /\ loc'[p] \in Locals
    /\ StatementInv(p)'
    /\ PhaseInv(p)'
    /\ Owner(p)' => Owner(p)

\* A local change that lands well keeps the invariant.
LEMMA LocalStep ==
    ASSUME IInv, NEW p \in Procs, LocalChange(p), Lands(p)
    PROVE  IInv'
<1>1. Stable
  BY Zenon DEF LocalChange, Stable, Claimed
<1>2. TypeOK'
  <2>1. pc' \in [Procs -> Labels] /\ loc' \in [Procs -> Locals]
    BY ZenonT(30) DEF IInv, TypeOK, LocalChange, Lands
  <2>2. late' \subseteq Statements
    BY DEF IInv, StatementInv, GoodStatement, LocalChange, TypeOK
  <2> QED
    BY <2>1, <2>2, Zenon DEF IInv, TypeOK, LocalChange
<1>3. RowInv'
  BY Zenon DEF IInv, RowInv, LocalChange, ValidShape, ConfirmedIsTrue, RevocationKeepsItsBudget,
         HasVersionBudget, RemainingTransitions, ActivatedIsComplete
<1>4. \A s \in late' : GoodStatement(s)'
  <2>1. \A s : GoodStatement(s) => GoodStatement(s)'
    BY <1>1, StatementStable, ZenonT(30)
  <2>2. \A s \in late' : GoodStatement(s)
    BY Zenon DEF IInv, StatementInv, LocalChange
  <2> QED
    BY <2>1, <2>2, Zenon
<1>5. ASSUME NEW q \in Procs, q # p
      PROVE  StatementInv(q)' /\ PhaseInv(q)' /\ (Owner(q)' <=> Owner(q))
  <2>1. pc'[q] = pc[q] /\ loc'[q] = loc[q]
    BY <1>5, Zenon DEF LocalChange, IInv, TypeOK
  <2> QED
    BY <1>1, <2>1, BystanderStable, Zenon DEF IInv
<1>6. \A q \in Procs : StatementInv(q)' /\ PhaseInv(q)'
  BY <1>5, Zenon DEF Lands
<1>7. ClaimInv'
  <2>1. \A q \in Procs : Owner(q)' => Owner(q)
    BY <1>5, Zenon DEF Lands
  <2>2. requests' = requests /\ (Claimed => Claimed')
    BY <1>1, Zenon DEF LocalChange, Stable
  <2> HIDE DEF Owner, Claimed
  <2> QED
    BY <2>1, <2>2, Zenon DEF IInv, ClaimInv
<1> QED
  BY <1>2, <1>3, <1>4, <1>6, <1>7, Zenon DEF IInv
-----------------------------------------------------------------------------
(* The ways a process moves. *)

\* A call of the handle returns.
LEMMA ReturnLands ==
    ASSUME IInv, NEW p \in Procs, NEW e \in Errors,
           pc[p] \in HandleReads, Return(p, e),
           UNCHANGED <<lifecycle, cursor, credential, grant>>,
           loc[p].ret = "revoke.claimed" /\ e = "nil" => Owner(p),
           loc[p].ret = "finalize" /\ e = "nil" => lifecycle.revocation = loc[p].status,
           loc[p].ret = "complete.done" /\ e = "nil" => lifecycle.state \notin {"absent", "pending"}
    PROVE  Lands(p)
<1> DEFINE r == loc[p]
<1>1. /\ pc'[p] = r.ret
      /\ loc'[p] = [r EXCEPT !.err = e, !.ret = "idle", !.rows = "unknown", !.found = FALSE]
      /\ r \in Locals
      /\ r.ret \in ReturnLabels
  BY Zenon DEF IInv, TypeOK, Return, Goto, Set, StatementInv
<1>2. loc'[p] \in Locals /\ pc'[p] \in Labels
  <2>1. pc'[p] \in Labels /\ "idle" \in Labels
    BY <1>1, Zenon DEF Labels, ReturnLabels, ManagerReads, EnrollReads
  <2>2. "unknown" \in {"unknown", "zero", "one"} /\ FALSE \in BOOLEAN
    OBVIOUS
  <2> HIDE DEF r
  <2>3. loc'[p] \in Locals
    BY <1>1, <2>1, <2>2, ZenonT(30) DEF Locals
  <2> QED
    BY <2>1, <2>3, Zenon
<1>3. StatementInv(p)'
  <2>1. loc'[p].stmt = r.stmt
    BY <1>1, Zenon DEF Locals
  <2>2. GoodStatement(loc[p].stmt)'
    BY <2>1, ZenonT(30) DEF IInv, StatementInv, GoodStatement, Statements, AccountInsert,
         CursorInsert, CredentialInsert, CredentialDelete, LifecycleUpdate, LifecycleCommit
  <2> QED
    BY <1>1, <2>1, <2>2 DEF IInv, StatementInv, Toward, ReturnLabels, HandleReads, IsClaim
<1>4. PhaseInv(p)'
  BY <1>1 DEF Locals, IInv, PhaseInv, StatementInv, Toward, ReturnLabels, HandleReads, Claimed, Owner, IsClaim
<1>5. Owner(p)' => Owner(p)
  BY <1>1, Zenon DEF Owner, Locals, ReturnLabels
<1> QED
  BY <1>2, <1>3, <1>4, <1>5, Zenon DEF Lands

\* An idle process has well-typed locals.
LEMMA IdleLocals == Idle \in Locals /\ Idle.stmt = AccountInsert /\ Idle.result = "none"
BY AccountConstants DEF Idle, Locals, Labels, Errors, Statements, Lifecycle, NoLifecycle,
       Revocations, Results

\* An operation ends.
LEMMA FinishLands ==
    ASSUME IInv, NEW p \in Procs, NEW r \in Results, Finish(p, r),
           r = "confirmed" => lifecycle'.revocation = "confirmed" /\ credential' = 0,
           r = "manual" => lifecycle'.revocation = "manual_action_required" /\ credential' = 0,
           r = "enrolled" => lifecycle'.state \notin {"absent", "pending"}
    PROVE  Lands(p)
<1>1. /\ pc'[p] = "idle"
      /\ loc'[p] = [Idle EXCEPT !.result = r]
  BY Zenon DEF IInv, TypeOK, Finish, Goto, Set
<1>2. Idle \in Locals
  BY IdleLocals, Zenon
<1>3. loc'[p] \in Locals /\ pc'[p] \in Labels
  BY <1>1, <1>2 DEF Locals, Labels
<1>4. loc'[p].stmt = AccountInsert /\ loc'[p].result = r
  BY <1>1, Zenon DEF Idle
<1>5. StatementInv(p)'
  BY <1>1, <1>4 DEF StatementInv, GoodStatement, Statements, AccountInsert, Toward, HandleReads
<1>6. PhaseInv(p)' /\ ~Owner(p)'
  BY <1>1, <1>4, ZenonT(30) DEF PhaseInv, Toward, HandleReads, Owner
<1> QED
  BY <1>3, <1>5, <1>6, Zenon DEF Lands
\* p goes on inside a call of the handle.
LEMMA GotoLands ==
    ASSUME IInv, NEW p \in Procs, NEW l, pc[p] \in HandleReads, Goto(p, l), UNCHANGED loc,
           UNCHANGED <<lifecycle, cursor, credential, grant>>,
           l \in {"exec", "cred.existing", "cred.recheck", "delete.existing", "commit.cursor"},
           l \in {"cred.existing", "cred.recheck"} => loc[p].stmt.table = "credential",
           l = "delete.existing" => loc[p].stmt.table = "delete",
           l = "commit.cursor" => loc[p].stmt.table = "lifecycle"
    PROVE  Lands(p)
<1>1. pc'[p] = l /\ loc'[p] = loc[p] /\ loc[p] \in Locals
  BY Zenon DEF IInv, TypeOK, Goto
<1>2. pc'[p] \in Labels /\ pc'[p] \in HandleReads
  BY <1>1, Zenon DEF Labels, HandleReads
<1>3. GoodStatement(loc[p].stmt)'
  BY <1>1, ZenonT(30) DEF IInv, StatementInv, GoodStatement, Statements, AccountInsert, CursorInsert,
              CredentialInsert, CredentialDelete, LifecycleUpdate, LifecycleCommit
<1>4. StatementInv(p)'
  BY <1>1, <1>2, <1>3, ZenonT(30) DEF IInv, StatementInv, Toward, IsClaim, HandleReads
<1>5. ~Owner(p)'
  BY <1>1, ZenonT(30) DEF Owner
<1>6. PhaseInv(p)'
  BY <1>1, <1>2, <1>5, Zenon DEF IInv, PhaseInv, Toward
<1> QED
  BY <1>1, <1>2, <1>4, <1>5, <1>6, Zenon DEF Lands

\* A call of the handle begins.
LEMMA CallLands ==
    ASSUME IInv, NEW p \in Procs, NEW l, NEW s, NEW ret \in ReturnLabels, NEW locals \in Locals,
           Call(p, l, s, ret, locals),
           UNCHANGED <<lifecycle, cursor, credential>>,
           GoodStatement(s)',
           locals.result \in {"none", loc[p].result},
           \/ l = "ensure" /\ s.table = "account"
           \/ l = "sync" /\ s.table = "cursor"
           \/ l = "cred" /\ s.table = "credential"
           \/ l = "delete" /\ s.table = "delete"
           \/ l = "commit" /\ s.table = "lifecycle",
           ret \in {"transition.done", "revoke.intent", "revoke.claimed", "complete.done", "finalize"} =>
              s.table = "lifecycle",
           ret = "revoke.intent" => s.commit.nextState = "revoked" /\ s.commit.revocation = "pending",
           ret = "revoke.claimed" => IsRevocationClaim(s.commit),
           ret = "complete.done" => s.commit.nextState = "active",
           ret = "finalize" =>
              /\ lifecycle.state = "revoked"
              /\ locals.status \in Final
              /\ s.commit.nextState = "revoked"
              /\ s.commit.revocation = locals.status
              /\ locals.cred = 0 => credential = 0,
           ret = "deleted" =>
              /\ s.table = "delete"
              /\ lifecycle.revocation = locals.status
              /\ locals.status \in Final
    PROVE  Lands(p)
<1>1. /\ pc'[p] = l
      /\ loc'[p] = [locals EXCEPT !.stmt = s, !.ret = ret, !.err = "nil"]
  BY Zenon DEF IInv, TypeOK, Call, Goto, Set
<1>2. /\ loc'[p] \in Locals
      /\ loc'[p].stmt = s /\ loc'[p].ret = ret
      /\ loc'[p].status = locals.status /\ loc'[p].cred = locals.cred
      /\ loc'[p].result = locals.result
  <2>1. s \in Statements
    BY ZenonT(30) DEF GoodStatement, Statements, AccountInsert, CursorInsert, CredentialInsert,
           CredentialDelete, LifecycleUpdate, LifecycleCommit
  <2>2. ret \in Labels
    BY Zenon DEF Labels, ReturnLabels, ManagerReads, EnrollReads
  <2> QED
    BY <1>1, <2>1, <2>2, ZenonT(30) DEF Locals, Errors
<1>3. pc'[p] \in Labels /\ pc'[p] \in HandleReads /\ pc'[p] \notin {"verify", "exec", "cred.recheck"}
  BY <1>1, Zenon DEF Labels, HandleReads
<1>4. GoodStatement(loc[p].stmt)'
  BY <1>2, Zenon DEF GoodStatement, Statements, AccountInsert, CursorInsert,
              CredentialInsert, CredentialDelete, LifecycleUpdate, LifecycleCommit
<1>5. StatementInv(p)'
  BY <1>1, <1>2, <1>3, <1>4, ZenonT(30) DEF StatementInv, Toward, IsClaim, HandleReads
<1>6. PhaseInv(p)' /\ ~Owner(p)'
  <2>1. ~Owner(p)'
    BY <1>1, <1>3, ZenonT(30) DEF Owner
  <2>2. PhaseInv(p)
    BY ZenonT(30) DEF IInv
  <2>3. PhaseInv(p)'
    BY <1>1, <1>2, <1>3, <2>1, <2>2 DEF PhaseInv, Toward, HandleReads
  <2> QED
    BY <2>1, <2>3, ZenonT(30)
<1> QED
  BY <1>2, <1>3, <1>5, <1>6, ZenonT(30) DEF Lands

\* p moves between labels of its caller.
LEMMA MoveLands ==
    ASSUME IInv, NEW p \in Procs, NEW l, NEW r \in Locals, Goto(p, l), Set(p, r),
           UNCHANGED <<lifecycle, cursor, credential, grant>>,
           l \in {"transition", "revoke", "reconcile", "unclaimed", "revoke.credential",
                  "revoke.provider", "enroll.lifecycle", "enroll.cursor", "enroll.credential",
                  "enroll.again", "enroll.encrypt", "complete.credential", "complete.lifecycle"},
           r.stmt \in {loc[p].stmt, AccountInsert},
           r.result \in {"none", loc[p].result},
           l = "transition" =>
              r.op \in DOMAIN TransitionTo /\ ((r.op = "reauth") <=> (r.reason # None)),
           l \in {"revoke.credential", "revoke.provider", "unclaimed"} =>
              r.lc.state = "revoked" /\ r.lc.revocation = "attempting" /\ lifecycle.state = "revoked",
           l \in {"revoke.credential", "revoke.provider"} => Owner(p),
           l = "revoke.provider" => r.cred # 0,
           l \in {"enroll.lifecycle", "enroll.cursor", "enroll.credential"} => r.history # None,
           l = "reconcile" => lifecycle.revocation = r.status /\ r.status \in Final
    PROVE  Lands(p)
<1>1. pc'[p] = l /\ loc'[p] = r
  BY Zenon DEF IInv, TypeOK, Goto, Set
<1>2. pc'[p] \in Labels
  BY <1>1, ZenonT(30) DEF Labels, ManagerReads, EnrollReads
<1>3. GoodStatement(loc[p].stmt)'
  <2>1. PICK s : s = r.stmt
    BY ZenonT(30)
  <2>2. GoodStatement(loc[p].stmt)
    BY ZenonT(30) DEF IInv, StatementInv
  <2>3. GoodStatement(AccountInsert)
    BY Zenon DEF GoodStatement, Statements, AccountInsert
  <2>4. GoodStatement(s)
    BY <2>1, <2>2, <2>3, Zenon
  <2>5. GoodStatement(s)'
    BY <2>4, ZenonT(30) DEF GoodStatement
  <2> QED
    BY <1>1, <2>1, <2>5, Zenon DEF GoodStatement
<1>4. StatementInv(p)'
  BY <1>1, <1>3, ZenonT(30) DEF StatementInv, Toward, HandleReads
<1>5. Owner(p)' => Owner(p)
  BY <1>1, Zenon DEF Owner
<1>6. PhaseInv(p) /\ (Owner(p) => Claimed) /\ (Claimed => Claimed')
  BY ZenonT(30) DEF IInv, PhaseInv, Claimed
<1>7. PhaseInv(p)'
  <2>1. Owner(p)' => Claimed'
    BY <1>5, <1>6, ZenonT(30)
  <2>2. /\ l \notin HandleReads
        /\ l \notin {"finalize", "deleted", "complete.done"}
    BY ZenonT(30) DEF HandleReads
  <2>3. \A x \in {"finalize", "deleted"} : ~Toward(p, x)'
    BY <1>1, <2>2, ZenonT(30) DEF Toward
  <2>4. /\ r.result = "confirmed" => lifecycle.revocation = "confirmed" /\ credential = 0
        /\ r.result = "manual" =>
              lifecycle.revocation = "manual_action_required" /\ credential = 0
        /\ r.result = "enrolled" => lifecycle.state \notin {"absent", "pending"}
    BY <1>6, Zenon DEF PhaseInv
  <2> HIDE DEF Owner, Claimed, Toward
  <2> QED
    BY <1>1, <2>1, <2>2, <2>3, <2>4, ZenonT(30) DEF PhaseInv
<1> QED
  BY <1>1, <1>2, <1>4, <1>5, <1>7, ZenonT(30) DEF Lands

-----------------------------------------------------------------------------
(* The handle. *)

\* Steps of the handle that only read.
LEMMA HandleReadInv ==
    ASSUME IInv, NEW p \in Procs, UNCHANGED <<providerVars, issued>>,
           \/ EnsureInspect(p) \/ SyncInspect(p)
           \/ CredInspectLifecycle(p) \/ CredInspectExisting(p)
           \/ DeleteInspectLifecycle(p) \/ DeleteInspectExisting(p)
           \/ CommitInspect(p) \/ CommitInspectCursor(p) \/ CommitInspectCredential(p)
           \/ Verify(p) \/ CredRecheck(p)
    PROVE  IInv'
<1> USE DEF Reads, providerVars
<1>0. /\ UNCHANGED <<lifecycle, cursor, credential, late, faults, requests, grant, issued>>
      /\ StatementInv(p) /\ PhaseInv(p) /\ RowInv /\ TypeOK
      /\ pc[p] \in HandleReads
  BY Zenon DEF IInv, EnsureInspect, SyncInspect, CredInspectLifecycle, CredInspectExisting,
         DeleteInspectLifecycle, DeleteInspectExisting, CommitInspect, CommitInspectCursor,
         CommitInspectCredential, Verify, CredRecheck, HandleReads
<1> DEFINE s == loc[p].stmt
<1>1. ASSUME Lands(p), pc' = [pc EXCEPT ![p] = pc'[p]], loc' = [loc EXCEPT ![p] = loc'[p]]
      PROVE  IInv'
  <2>1. LocalChange(p)
    BY <1>0, <1>1, Zenon DEF LocalChange, TypeOK
  <2> QED
    BY <1>1, <2>1, LocalStep, Zenon
<1>2. ASSUME NEW e \in Errors, Return(p, e),
             s.table = "lifecycle" /\ e = "nil" =>
                /\ loc[p].ret = "revoke.claimed" => Owner(p)
                /\ MatchesCommit(lifecycle, s.commit)
      PROVE  IInv'
  <2>1. loc[p].ret \in {"revoke.claimed", "finalize", "complete.done"} => s.table = "lifecycle"
    BY <1>0, ZenonT(30) DEF StatementInv, PhaseInv, Toward, IsClaim
  <2>2. loc[p].ret = "finalize" /\ e = "nil" => lifecycle.revocation = loc[p].status
    BY <1>0, <1>2, <2>1, ZenonT(30) DEF PhaseInv, Toward, MatchesCommit
  <2>3. loc[p].ret = "complete.done" /\ e = "nil" => lifecycle.state \notin {"absent", "pending"}
    BY <1>0, <1>2, <2>1, ZenonT(30) DEF StatementInv, Toward, MatchesCommit
  <2>4. Lands(p)
    BY <1>0, <1>2, <2>1, <2>2, <2>3, ReturnLands, ZenonT(30)
  <2>5. pc' = [pc EXCEPT ![p] = pc'[p]] /\ loc' = [loc EXCEPT ![p] = loc'[p]]
    BY <1>0, <1>2, Zenon DEF TypeOK, Return, Goto, Set
  <2> QED
    BY <1>1, <2>4, <2>5, Zenon
<1>3. ASSUME NEW l, Goto(p, l), UNCHANGED loc,
             l \in {"exec", "cred.existing", "cred.recheck", "delete.existing", "commit.cursor"},
             l \in {"cred.existing", "cred.recheck"} => s.table = "credential",
             l = "delete.existing" => s.table = "delete",
             l = "commit.cursor" => s.table = "lifecycle"
      PROVE  IInv'
  <2>1. Lands(p)
    BY <1>0, <1>3, GotoLands, ZenonT(30)
  <2>2. pc' = [pc EXCEPT ![p] = pc'[p]] /\ loc' = [loc EXCEPT ![p] = loc'[p]]
    BY <1>0, <1>3, Zenon DEF TypeOK, Goto
  <2> QED
    BY <1>1, <2>1, <2>2, ZenonT(30)
<1> HIDE DEF s
<1>4. CASE EnsureInspect(p)
  BY <1>0, <1>2, <1>3, <1>4, ZenonT(30) DEF EnsureInspect, StatementInv, Errors, s
<1>5. CASE SyncInspect(p)
  BY <1>0, <1>2, <1>3, <1>5, ZenonT(30) DEF SyncInspect, StatementInv, Errors, s
<1>6. CASE CredInspectLifecycle(p)
  BY <1>0, <1>2, <1>3, <1>6, ZenonT(30) DEF CredInspectLifecycle, StatementInv, Errors, s
<1>7. CASE CredInspectExisting(p)
  BY <1>0, <1>2, <1>3, <1>7, ZenonT(30) DEF CredInspectExisting, StatementInv, Errors, s
<1>8. CASE DeleteInspectLifecycle(p)
  BY <1>0, <1>2, <1>3, <1>8, ZenonT(30) DEF DeleteInspectLifecycle, StatementInv, Errors, s
<1>9. CASE DeleteInspectExisting(p)
  BY <1>0, <1>2, <1>3, <1>9, ZenonT(30) DEF DeleteInspectExisting, StatementInv, Errors, s
<1>10. CASE CommitInspect(p)
  <2> DEFINE c == s.commit
             d == CommitDecision(c)
  <2>1. s.table = "lifecycle"
    BY <1>0, <1>10, ZenonT(30) DEF CommitInspect, StatementInv, s
  <2>2. CASE d = "proceed"
    BY <1>3, <1>10, <2>1, <2>2, ZenonT(30) DEF CommitInspect, s
  <2>3. CASE d # "proceed"
    <3>1. d \in Errors
      BY <2>3, ZenonT(30) DEF CommitDecision, ValidateLifecycleCommit, Errors
    <3>2. d = "nil" => MatchesCommit(lifecycle, c) /\ ~IsRevocationClaim(c)
      BY <2>3, Zenon DEF CommitDecision
    <3>3. loc[p].ret = "revoke.claimed" => IsRevocationClaim(c)
      BY <1>0, ZenonT(30) DEF StatementInv, Toward, IsClaim, s
    <3>4. Return(p, d)
      BY <1>10, <2>3, ZenonT(30) DEF CommitInspect, s
    <3> HIDE DEF d
    <3> QED
      BY <1>2, <3>1, <3>2, <3>3, <3>4, ZenonT(30)
  <2> QED
    BY <2>2, <2>3, Zenon
<1>11. CASE CommitInspectCursor(p)
  <2>1. /\ pc'[p] = "commit.credential"
        /\ pc' = [pc EXCEPT ![p] = pc'[p]]
        /\ loc'[p] = [loc[p] EXCEPT !.found = (cursor # None)]
        /\ loc' = [loc EXCEPT ![p] = loc'[p]]
    BY <1>0, <1>11, Zenon DEF CommitInspectCursor, Goto, Set, TypeOK
  <2>2. loc[p] \in Locals /\ pc[p] = "commit.cursor"
    BY <1>0, <1>11, Zenon DEF TypeOK, CommitInspectCursor
  <2>3. /\ loc'[p] \in Locals
        /\ loc'[p].ret = loc[p].ret /\ loc'[p].stmt = loc[p].stmt
        /\ loc'[p].status = loc[p].status /\ loc'[p].cred = loc[p].cred
        /\ loc'[p].result = loc[p].result
    BY <2>1, <2>2, ZenonT(30) DEF Locals
  <2>4. GoodStatement(loc[p].stmt)'
    BY <1>0, <2>3, ZenonT(30) DEF StatementInv, GoodStatement, Statements, AccountInsert, CursorInsert,
              CredentialInsert, CredentialDelete, LifecycleUpdate, LifecycleCommit
  <2>5. StatementInv(p)'
    BY <1>0, <2>1, <2>2, <2>3, <2>4, Zenon DEF StatementInv, Toward, IsClaim, HandleReads
  <2>6. ~Owner(p)'
    BY <2>1, Zenon DEF Owner
  <2>7. PhaseInv(p)'
    BY <1>0, <2>1, <2>2, <2>3, <2>6 DEF PhaseInv, Toward, HandleReads
  <2>8. Lands(p)
    BY <2>1, <2>3, <2>5, <2>6, <2>7, Zenon DEF Lands, Labels, HandleReads
  <2> QED
    BY <1>1, <2>1, <2>8, Zenon
<1>12. CASE CommitInspectCredential(p)
  BY <1>0, <1>2, <1>3, <1>12, ZenonT(30) DEF CommitInspectCredential, StatementInv, Errors, s
<1>13. CASE Verify(p)
  <2> DEFINE e == Verified(s, loc[p].rows)
  <2>1. e \in Errors
    BY ZenonT(30) DEF Verified, VerifyLifecycle, Errors
  <2>2. s.table = "lifecycle" /\ e = "nil" =>
          /\ MatchesCommit(lifecycle, s.commit)
          /\ IsRevocationClaim(s.commit) => loc[p].rows = "one"
    BY Zenon DEF Verified, VerifyLifecycle
  <2>3. loc[p].ret = "revoke.claimed" => IsClaim(s)
    BY <1>0, ZenonT(30) DEF StatementInv, Toward, s
  <2>4. s.table = "lifecycle" /\ e = "nil" /\ loc[p].ret = "revoke.claimed" => Owner(p)
    BY <1>13, <2>2, <2>3, ZenonT(30) DEF Owner, Verify, IsClaim, s
  <2>5. \/ s.table = "credential" /\ Goto(p, "cred.recheck") /\ UNCHANGED loc
        \/ Return(p, e)
    BY <1>13, ZenonT(30) DEF Verify, s
  <2> HIDE DEF e
  <2> QED
    BY <1>2, <1>3, <2>1, <2>2, <2>4, <2>5, ZenonT(30)
<1>14. CASE CredRecheck(p)
  BY <1>0, <1>2, <1>3, <1>14, ZenonT(30) DEF CredRecheck, StatementInv, Errors, s
<1> QED
  BY <1>4, <1>5, <1>6, <1>7, <1>8, <1>9, <1>10, <1>11, <1>12, <1>13, <1>14, ZenonT(30)
\* A statement runs and is acknowledged.  Only here can a claim be won.
LEMMA ExecAcknowledgedInv ==
    ASSUME IInv, NEW p \in Procs, ExecAcknowledged(p), UNCHANGED <<providerVars, issued>>
    PROVE  IInv'
<1> DEFINE s == loc[p].stmt
<1>1. /\ pc[p] = "exec" /\ Execute(s) /\ GoodStatement(s) /\ s \in Statements
      /\ UNCHANGED <<late, faults, requests, grant, issued>>
      /\ TypeOK /\ RowInv /\ StatementInv(p) /\ PhaseInv(p)
  BY Zenon DEF ExecAcknowledged, IInv, StatementInv, GoodStatement, providerVars
<1>2. /\ lifecycle' \in Lifecycle
      /\ cursor' \in HistoryIDs \cup {None}
      /\ credential' \in 0 .. MaxEnvelopes
      /\ RowInv'
      /\ Stable
  <2> HIDE DEF s
  <2> QED
    BY <1>1, ExecuteGood, Zenon
<1>3. /\ pc' = [pc EXCEPT ![p] = "verify"]
      /\ loc' = [loc EXCEPT ![p] = [loc[p] EXCEPT !.rows = IF Applies(s) THEN "one" ELSE "zero"]]
  BY Zenon DEF ExecAcknowledged, Goto, Set
<1>4. /\ pc'[p] = "verify"
      /\ loc'[p] \in Locals
      /\ loc'[p].ret = loc[p].ret /\ loc'[p].stmt = s
      /\ loc'[p].status = loc[p].status /\ loc'[p].cred = loc[p].cred
      /\ loc'[p].result = loc[p].result
      /\ loc'[p].rows = IF Applies(s) THEN "one" ELSE "zero"
  <2>1. loc[p] \in Locals /\ pc \in [Procs -> Labels] /\ loc \in [Procs -> Locals]
    BY <1>1, Zenon DEF TypeOK
  <2> QED
    BY <1>3, <2>1, Zenon DEF Locals
<1>5. TypeOK'
  BY <1>1, <1>2, <1>3, <1>4, Zenon DEF TypeOK, Labels, HandleReads
<1>6. \A t : GoodStatement(t) => GoodStatement(t)'
  BY <1>2, StatementStable, Zenon
<1>7. \A t \in late' : GoodStatement(t)'
  BY <1>1, <1>6, ZenonT(30) DEF IInv
<1>8. ASSUME NEW q \in Procs, q # p
      PROVE  StatementInv(q)' /\ PhaseInv(q)' /\ (Owner(q)' <=> Owner(q))
  <2>1. pc'[q] = pc[q] /\ loc'[q] = loc[q]
    BY <1>1, <1>3, <1>8, Zenon DEF TypeOK
  <2> QED
    BY <1>2, <2>1, BystanderStable, Zenon DEF IInv
<1>9. StatementInv(p)'
  <2>1. GoodStatement(loc[p].stmt)'
    <3>1. GoodStatement(s)
      BY <1>1, ZenonT(30)
    <3> QED
      BY <1>4, <1>6, <3>1, ZenonT(30) DEF GoodStatement
  <2> QED
    BY <1>1, <1>4, <2>1, ZenonT(30) DEF StatementInv, Toward, IsClaim, HandleReads
<1>10. IsClaim(s) /\ Applies(s) => lifecycle.revocation = "pending" /\ Claimed'
  <2> SUFFICES ASSUME IsClaim(s), Applies(s)
               PROVE  lifecycle.revocation = "pending" /\ Claimed'
    OBVIOUS
  <2>1. /\ s.table = "lifecycle" /\ s.commit.revocation = "attempting"
        /\ s.commit.expectedRevocation = "pending"
    BY ZenonT(30) DEF IsClaim, IsRevocationClaim
  <2>2. lifecycle.revocation = "pending"
    BY <2>1, ZenonT(30) DEF Applies, LifecycleUpdateApplies
  <2>3. lifecycle'.revocation = s.commit.revocation
    <3> HIDE DEF s
    <3> QED
      BY <1>1, <2>1, SMTT(30) DEF Execute
  <2> QED
    BY <2>1, <2>2, <2>3, Zenon DEF Claimed
<1>11. Owner(p)' => IsClaim(s) /\ Applies(s)
  BY <1>4, Zenon DEF Owner, IsClaim
<1>12. PhaseInv(p)'
  BY <1>1, <1>2, <1>4, <1>10, <1>11, ZenonT(30)
     DEF PhaseInv, Toward, HandleReads, Stable, RowInv, ValidShape, Final
<1>13. ClaimInv'
  <2>1. lifecycle.revocation = "pending" => ~Claimed
    BY Zenon DEF Claimed, Final
  <2>2. requests' = requests /\ (Claimed => Claimed')
    BY <1>1, <1>2, ZenonT(30) DEF Stable
  <2>3. \A q \in Procs : Owner(q) => Claimed
    BY ZenonT(30) DEF IInv, PhaseInv
  <2>4. \A q \in Procs : q # p => (Owner(q)' <=> Owner(q))
    BY <1>8, Zenon
  <2>5. ClaimInv
    BY Zenon DEF IInv
  <2>6. Owner(p)' => ~Claimed /\ Claimed'
    BY <1>10, <1>11, <2>1, Zenon
  <2>7. requests \in Nat
    BY <1>1, Zenon DEF TypeOK
  <2> HIDE DEF Owner, Claimed
  <2> QED
    BY <2>2, <2>3, <2>4, <2>5, <2>6, <2>7 DEF ClaimInv
<1> QED
  BY <1>2, <1>5, <1>7, <1>8, <1>9, <1>12, <1>13, ZenonT(30) DEF IInv
\* A statement nobody waits for runs.
LEMMA ArrivesInv ==
    ASSUME IInv, Arrives
    PROVE  IInv'
<1>1. PICK s \in late : Execute(s) /\ late' = late \ {s}
  BY Zenon DEF Arrives, LateExecute
<1>2. /\ UNCHANGED <<faults, pc, loc, requests, grant, issued>>
      /\ GoodStatement(s) /\ TypeOK /\ RowInv
  BY Zenon DEF Arrives, LateExecute, providerVars, IInv
<1>3. /\ lifecycle' \in Lifecycle
      /\ cursor' \in HistoryIDs \cup {None}
      /\ credential' \in 0 .. MaxEnvelopes
      /\ RowInv'
      /\ Stable
  BY <1>1, <1>2, ExecuteGood, Zenon
<1>4. TypeOK'
  BY <1>1, <1>2, <1>3, Zenon DEF TypeOK
<1>5. \A t \in late' : GoodStatement(t)'
  <2>1. \A t : GoodStatement(t) => GoodStatement(t)'
    BY <1>3, StatementStable, ZenonT(30)
  <2> QED
    BY <1>1, <2>1, Zenon DEF IInv
<1>6. ASSUME NEW q \in Procs
      PROVE  StatementInv(q)' /\ PhaseInv(q)' /\ (Owner(q)' <=> Owner(q))
  BY <1>2, <1>3, BystanderStable, Zenon DEF IInv
<1>7. ClaimInv'
  <2>1. requests' = requests /\ (Claimed => Claimed')
    BY <1>2, <1>3, ZenonT(30) DEF Stable
  <2> HIDE DEF Owner, Claimed
  <2> QED
    BY <1>6, <2>1, Zenon DEF IInv, ClaimInv
<1> QED
  BY <1>3, <1>4, <1>5, <1>6, <1>7, Zenon DEF IInv
-----------------------------------------------------------------------------
(* The manager. *)

\* The fields of the update a caller builds from a lifecycle it read.
LEMMA UpdateStatement ==
    ASSUME NEW l \in Lifecycle, NEW next \in States, NEW reason \in Reasons \cup {None},
           NEW revocation \in Revocations, NEW s,
           s = LifecycleUpdate(CommitFrom(l, next, reason, revocation))
    PROVE  /\ s \in Statements
           /\ s.table = "lifecycle"
           /\ s.commit.expectedState = l.state
           /\ s.commit.expectedVersion = l.version
           /\ s.commit.expectedRevocation = l.revocation
           /\ s.commit.nextState = next
           /\ s.commit.reason = reason
           /\ s.commit.revocation = revocation
<1>1. CommitFrom(l, next, reason, revocation) \in LifecycleCommit
  BY Zenon DEF CommitFrom, LifecycleCommit, Lifecycle
<1> QED
  BY <1>1, ZenonT(30) DEF LifecycleUpdate, CommitFrom, Statements

\* A step of p that leaves the rows, the provider and the statements alone.
LEMMA QuietStep ==
    ASSUME IInv, NEW p \in Procs, Lands(p),
           UNCHANGED <<lifecycle, cursor, credential, late, requests, grant>>,
           faults' \in 0 .. MaxFaults, issued' \in 0 .. MaxEnvelopes,
           NEW l, NEW r, Goto(p, l), Set(p, r)
    PROVE  IInv'
<1>1. LocalChange(p)
  BY Zenon DEF LocalChange, IInv, TypeOK, Goto, Set
<1> QED
  BY <1>1, LocalStep, Zenon

\* Pause, Resume and MarkReauthorizationRequired.
LEMMA TransitionInv ==
    ASSUME IInv, NEW p \in Procs, Transition(p) \/ TransitionDone(p), UNCHANGED issued
    PROVE  IInv'
<1>0. /\ UNCHANGED <<lifecycle, cursor, credential, late, faults, requests, grant, issued>>
      /\ StatementInv(p) /\ PhaseInv(p) /\ RowInv /\ TypeOK
      /\ loc[p] \in Locals /\ lifecycle \in Lifecycle
      /\ faults' \in 0 .. MaxFaults /\ issued' \in 0 .. MaxEnvelopes
  BY ZenonT(30) DEF IInv, Transition, TransitionDone, Reads, providerVars, TypeOK
<1>1. ASSUME NEW x \in {"ok", "transition"}, Finish(p, x)
      PROVE  IInv'
  <2>1. Lands(p)
    BY <1>1, FinishLands, ZenonT(30) DEF Results
  <2> QED
    BY <1>0, <1>1, <2>1, QuietStep, Zenon DEF Finish
<1>2. CASE TransitionDone(p)
  BY <1>1, <1>2, ZenonT(30) DEF TransitionDone
<1>3. CASE Transition(p)
  <2> DEFINE op == loc[p].op
  <2>0. PICK s : s = LifecycleUpdate(TransitionCommit(p, lifecycle))
    BY ZenonT(30)
  <2>1. CASE lifecycle.state = TransitionTo[op] \/ lifecycle.state # TransitionFrom[op]
    BY <1>1, <1>3, <2>1, ZenonT(30) DEF Transition
  <2>2. CASE ~(lifecycle.state = TransitionTo[op] \/ lifecycle.state # TransitionFrom[op])
    <3>1. Call(p, "commit", s, "transition.done", loc[p])
      BY <1>3, <2>0, <2>2, ZenonT(30) DEF Transition
    <3>2. op \in {"pause", "resume", "reauth"} /\ ((op = "reauth") <=> (loc[p].reason # None))
      BY <1>0, <1>3, ZenonT(30) DEF PhaseInv, Transition, TransitionTo
    <3>3. loc[p].reason \in Reasons \cup {None} /\ TransitionTo[op] \in States /\ "none" \in Revocations
      <4>1. loc[p].reason \in Reasons \cup {None}
        BY <1>0, ZenonT(30) DEF Locals
      <4>2. TransitionTo[op] \in States
        <5> HIDE DEF op
        <5> QED
          BY <3>2 DEF TransitionTo, States
      <4>3. "none" \in Revocations
        BY ZenonT(30) DEF Revocations
      <4> QED
        BY <4>1, <4>2, <4>3, Zenon
    <3>4. /\ s \in Statements /\ s.table = "lifecycle"
          /\ s.commit.expectedState = lifecycle.state
          /\ s.commit.expectedRevocation = lifecycle.revocation
          /\ s.commit.nextState = TransitionTo[op]
          /\ s.commit.reason = loc[p].reason
          /\ s.commit.revocation = "none"
      <4>1. PICK to : to = TransitionTo[op]
        BY ZenonT(30)
      <4>2. PICK why : why = loc[p].reason
        BY ZenonT(30)
      <4>3. s = LifecycleUpdate(CommitFrom(lifecycle, to, why, "none"))
        BY <2>0, <4>1, <4>2, ZenonT(30) DEF TransitionCommit
      <4>4. /\ lifecycle \in Lifecycle /\ to \in States /\ why \in Reasons \cup {None}
            /\ "none" \in Revocations
        BY <1>0, <3>3, <4>1, <4>2, ZenonT(30)
      <4> HIDE DEF op
      <4> QED
        BY <4>1, <4>2, <4>3, <4>4, UpdateStatement, SMTT(30)
    <3>5. GoodStatement(s)
      <4>1. /\ lifecycle.state = TransitionFrom[op]
            /\ ValidShape(lifecycle.state, lifecycle.reason, lifecycle.revocation)
        BY <1>0, <2>2, ZenonT(30) DEF RowInv
      <4> HIDE DEF op
      <4>2. ValidShape(s.commit.nextState, s.commit.reason, s.commit.revocation)
        BY <3>2, <3>4 DEF ValidShape, TransitionTo
      <4>3. ValidTransition(s.commit.expectedState, s.commit.expectedRevocation,
                            s.commit.nextState, s.commit.revocation)
        BY <3>2, <3>4, <4>1 DEF ValidShape, ValidTransition, TransitionTo, TransitionFrom, States
      <4> QED
        BY <3>4, <4>2, <4>3, Zenon DEF GoodStatement
    <3>6. GoodStatement(s)'
      BY <1>0, <3>4, <3>5, Zenon DEF GoodStatement, ValidShape, ValidTransition, Final
    <3>7. "transition.done" \in ReturnLabels
      BY Zenon DEF ReturnLabels
    <3>8. Lands(p)
      BY <1>0, <3>1, <3>4, <3>6, <3>7, CallLands, ZenonT(30)
    <3> QED
      BY <1>0, <3>1, <3>8, QuietStep, Zenon DEF Call
  <2> QED
    BY <2>1, <2>2, Zenon
<1> QED
  BY <1>2, <1>3, Zenon
\* finalizeAttempt's commit of the outcome of a claim.
LEMMA CallFinalizeLands ==
    ASSUME IInv, NEW p \in Procs, NEW status \in Final, NEW locals \in Locals,
           CallFinalize(p, status, locals),
           UNCHANGED <<lifecycle, cursor, credential>>,
           status = "confirmed" => grant' = "revoked",
           locals.lc.state = "revoked", locals.lc.revocation = "attempting",
           lifecycle.state = "revoked",
           locals.result \in {"none", loc[p].result},
           locals.cred = 0 => credential = 0
    PROVE  Lands(p)
<1>1. PICK s : s = LifecycleUpdate(CommitFrom(locals.lc, "revoked", None, status))
  BY ZenonT(30)
<1>2. PICK r : r = [locals EXCEPT !.status = status]
  BY ZenonT(30)
<1>3. Call(p, "commit", s, "finalize", r)
  BY <1>1, <1>2, Zenon DEF CallFinalize
<1>4. r \in Locals /\ r.status = status /\ r.cred = locals.cred /\ r.result = locals.result
  BY <1>2, Zenon DEF Locals, Final, Revocations
<1>5. /\ s \in Statements /\ s.table = "lifecycle"
      /\ s.commit.expectedState = "revoked" /\ s.commit.expectedRevocation = "attempting"
      /\ s.commit.nextState = "revoked" /\ s.commit.reason = None
      /\ s.commit.revocation = status
  <2>1. locals.lc \in Lifecycle /\ "revoked" \in States /\ status \in Revocations
    BY Zenon DEF Locals, States, Final, Revocations
  <2>2. PICK l : l = locals.lc
    BY ZenonT(30)
  <2>3. l \in Lifecycle /\ s = LifecycleUpdate(CommitFrom(l, "revoked", None, status))
    BY <1>1, <2>1, <2>2, ZenonT(30)
  <2>4. /\ s \in Statements /\ s.table = "lifecycle"
        /\ s.commit.expectedState = l.state /\ s.commit.expectedRevocation = l.revocation
        /\ s.commit.nextState = "revoked" /\ s.commit.reason = None
        /\ s.commit.revocation = status
    BY <2>1, <2>3, UpdateStatement, SMTT(30)
  <2> QED
    BY <2>2, <2>4, ZenonT(30)
<1>6. GoodStatement(s)'
  BY <1>5, Zenon DEF GoodStatement, ValidShape, ValidTransition, Final
<1>7. "finalize" \in ReturnLabels
  BY ZenonT(30) DEF ReturnLabels
<1> QED
  BY <1>3, <1>4, <1>5, <1>6, <1>7, CallLands, Zenon

\* CommitAccountLifecycle is called with a claim of the pending row.
LEMMA CallClaimLands ==
    ASSUME IInv, NEW p \in Procs, CallClaim(p, lifecycle),
           UNCHANGED <<lifecycle, cursor, credential, grant>>,
           lifecycle.state = "revoked", lifecycle.revocation = "pending"
    PROVE  Lands(p)
<1>1. PICK s : s = LifecycleUpdate(CommitFrom(lifecycle, "revoked", None, "attempting"))
  BY ZenonT(30)
<1>2. PICK r : r = [loc[p] EXCEPT !.lc = lifecycle]
  BY ZenonT(30)
<1>3. Call(p, "commit", s, "revoke.claimed", r)
  BY <1>1, <1>2, Zenon DEF CallClaim
<1>4. lifecycle \in Lifecycle /\ loc[p] \in Locals
  BY Zenon DEF IInv, TypeOK
<1>5. r \in Locals /\ r.result = loc[p].result
  BY <1>2, <1>4, ZenonT(30) DEF Locals
<1>6. /\ s \in Statements /\ s.table = "lifecycle"
      /\ s.commit.expectedState = "revoked" /\ s.commit.expectedRevocation = "pending"
      /\ s.commit.nextState = "revoked" /\ s.commit.reason = None
      /\ s.commit.revocation = "attempting"
  <2>1. "revoked" \in States /\ "attempting" \in Revocations
    BY ZenonT(30) DEF States, Revocations
  <2> QED
    BY <1>1, <1>4, <2>1, UpdateStatement
<1>7. GoodStatement(s)'
  BY <1>6, Zenon DEF GoodStatement, ValidShape, ValidTransition, Final
<1>8. "revoke.claimed" \in ReturnLabels /\ IsRevocationClaim(s.commit)
  BY <1>6, ZenonT(30) DEF ReturnLabels, IsRevocationClaim
<1> QED
  BY <1>3, <1>5, <1>6, <1>7, <1>8, CallLands, Zenon

\* deleteCredential's call, once the row holds the outcome.
LEMMA CallDeleteLands ==
    ASSUME IInv, NEW p \in Procs, NEW e \in 1 .. MaxEnvelopes, CallDelete(p, e),
           UNCHANGED <<lifecycle, cursor, credential, grant>>,
           lifecycle.revocation = loc[p].status, loc[p].status \in Final
    PROVE  Lands(p)
<1>1. PICK s : s = CredentialDelete(e)
  BY ZenonT(30)
<1>2. Call(p, "delete", s, "deleted", loc[p]) /\ s.table = "delete" /\ s \in Statements
  BY <1>1, ZenonT(30) DEF CallDelete, CredentialDelete, Statements
<1>3. GoodStatement(s)'
  BY <1>2, ZenonT(30) DEF GoodStatement
<1>4. "deleted" \in ReturnLabels /\ loc[p] \in Locals
  BY Zenon DEF ReturnLabels, IInv, TypeOK
<1> QED
  BY <1>2, <1>3, <1>4, CallLands, Zenon
\* Revoke up to the claim.
LEMMA RevokeClaimInv ==
    ASSUME IInv, NEW p \in Procs, Revoke(p) \/ RevokeIntent(p) \/ RevokeClaimed(p),
           UNCHANGED issued
    PROVE  IInv'
<1>0. /\ UNCHANGED <<lifecycle, cursor, credential, late, faults, requests, grant, issued>>
      /\ StatementInv(p) /\ PhaseInv(p) /\ RowInv /\ TypeOK
      /\ loc[p] \in Locals /\ lifecycle \in Lifecycle
      /\ faults' \in 0 .. MaxFaults /\ issued' \in 0 .. MaxEnvelopes
      /\ (lifecycle.state = "revoked") <=> (lifecycle.revocation # "none")
  BY Zenon DEF IInv, Revoke, RevokeIntent, RevokeClaimed, Reads, providerVars, TypeOK, RowInv, ValidShape
<1>1. ASSUME NEW x \in {"transition", "recovery"}, Finish(p, x)
      PROVE  IInv'
  <2>1. Lands(p)
    BY <1>1, FinishLands, Zenon DEF Results
  <2> QED
    BY <1>0, <1>1, <2>1, QuietStep, Zenon DEF Finish
<1>2. ASSUME CallClaim(p, lifecycle), lifecycle.state = "revoked", lifecycle.revocation = "pending"
      PROVE  IInv'
  <2>1. Lands(p)
    BY <1>0, <1>2, CallClaimLands, ZenonT(30)
  <2> QED
    BY <1>0, <1>2, <2>1, QuietStep, Zenon DEF CallClaim, Call
<1>3. CASE Revoke(p)
  <2>1. CASE lifecycle.state = "absent"
    BY <1>1, <1>3, <2>1, ZenonT(30) DEF Revoke
  <2>2. CASE lifecycle.state # "absent" /\ lifecycle.revocation \in Final
    <3>1. PICK r : r = [loc[p] EXCEPT !.lc = lifecycle, !.status = lifecycle.revocation]
      BY ZenonT(30)
    <3>2. Goto(p, "reconcile") /\ Set(p, r)
      BY <1>3, <2>2, <3>1, Zenon DEF Revoke
    <3>3. r \in Locals /\ r.stmt = loc[p].stmt /\ r.result = loc[p].result
             /\ r.status = lifecycle.revocation
      BY <1>0, <3>1, ZenonT(30) DEF Locals, Lifecycle
    <3>4. Lands(p)
      BY <1>0, <2>2, <3>2, <3>3, MoveLands, ZenonT(30)
    <3> QED
      BY <1>0, <3>2, <3>4, QuietStep, Zenon
  <2>3. CASE /\ lifecycle.state # "absent" /\ lifecycle.revocation \notin Final
             /\ ~HasVersionBudget(lifecycle)
    BY <1>1, <1>3, <2>3, Zenon DEF Revoke
  <2>4. CASE /\ lifecycle.state \notin {"absent", "revoked"} /\ lifecycle.revocation \notin Final
             /\ HasVersionBudget(lifecycle)
    <3>1. PICK s : s = LifecycleUpdate(CommitFrom(lifecycle, "revoked", None, "pending"))
      BY ZenonT(30)
    <3>2. Call(p, "commit", s, "revoke.intent", loc[p])
      BY <1>3, <2>4, <3>1, Zenon DEF Revoke
    <3>3. "revoked" \in States /\ "pending" \in Revocations /\ lifecycle \in Lifecycle
      BY <1>0, ZenonT(30) DEF States, Revocations
    <3>4. /\ s \in Statements /\ s.table = "lifecycle"
          /\ s.commit.expectedState = lifecycle.state
          /\ s.commit.expectedVersion = lifecycle.version
          /\ s.commit.expectedRevocation = lifecycle.revocation
          /\ s.commit.nextState = "revoked" /\ s.commit.reason = None
          /\ s.commit.revocation = "pending"
      BY <3>1, <3>3, UpdateStatement
    <3>5. lifecycle.version + 3 <= MaxVersion /\ lifecycle.state \in States
      BY <1>0, <2>4, AccountConstants, SMTT(30) DEF HasVersionBudget, RemainingTransitions, Lifecycle
    <3>6. GoodStatement(s)'
      BY <1>0, <2>4, <3>4, <3>5, Zenon DEF GoodStatement, ValidShape, ValidTransition, Final
    <3>7. "revoke.intent" \in ReturnLabels
      BY Zenon DEF ReturnLabels
    <3>8. Lands(p)
      BY <1>0, <3>2, <3>4, <3>6, <3>7, CallLands, ZenonT(30)
    <3> QED
      BY <1>0, <3>2, <3>8, QuietStep, Zenon DEF Call
  <2>5. CASE lifecycle.state = "revoked" /\ lifecycle.revocation = "attempting"
             /\ HasVersionBudget(lifecycle)
    <3>1. PICK r : r = [loc[p] EXCEPT !.lc = lifecycle]
      BY ZenonT(30)
    <3>2. Goto(p, "unclaimed") /\ Set(p, r)
      BY <1>3, <2>5, <3>1, Zenon DEF Revoke, Final
    <3>3. r \in Locals /\ r.stmt = loc[p].stmt /\ r.result = loc[p].result /\ r.lc = lifecycle
      BY <1>0, <3>1, Zenon DEF Locals
    <3>4. Lands(p)
      BY <1>0, <2>5, <3>2, <3>3, MoveLands, ZenonT(30)
    <3> QED
      BY <1>0, <3>2, <3>4, QuietStep, Zenon
  <2>6. CASE lifecycle.state = "revoked" /\ lifecycle.revocation = "pending"
             /\ HasVersionBudget(lifecycle)
    BY <1>2, <1>3, <2>6, ZenonT(30) DEF Revoke, Final
  <2> QED
    BY <1>0, <2>1, <2>2, <2>3, <2>4, <2>5, <2>6, Zenon DEF Lifecycle, Revocations, Final
<1>4. CASE RevokeIntent(p)
  <2>0. pc[p] = "revoke.intent" /\ loc[p].stmt.commit.nextState = "revoked"
           /\ loc[p].stmt.commit.revocation = "pending"
    BY <1>0, <1>4, Zenon DEF RevokeIntent, StatementInv, Toward
  <2>1. CASE ~MatchesCommit(lifecycle, loc[p].stmt.commit)
    BY <1>1, <1>4, <2>1, ZenonT(30) DEF RevokeIntent
  <2>2. CASE MatchesCommit(lifecycle, loc[p].stmt.commit) /\ loc[p].err # "nil"
    <3>1. PICK r : r = [loc[p] EXCEPT !.err = "nil"]
      BY ZenonT(30)
    <3>2. Set(p, r) /\ UNCHANGED pc /\ Goto(p, "revoke.intent")
      BY <1>0, <1>4, <2>0, <2>2, <3>1, ZenonT(30) DEF RevokeIntent, Goto, TypeOK
    <3>3. /\ r \in Locals /\ r.stmt = loc[p].stmt /\ r.result = loc[p].result
          /\ loc'[p] = r /\ pc'[p] = "revoke.intent"
      BY <1>0, <2>0, <3>1, <3>2, Zenon DEF Locals, Errors, Set, TypeOK
    <3>4. GoodStatement(loc[p].stmt)'
      BY <1>0, <3>3, ZenonT(30) DEF StatementInv, GoodStatement, Statements, AccountInsert, CursorInsert,
              CredentialInsert, CredentialDelete, LifecycleUpdate, LifecycleCommit
    <3>5. StatementInv(p)' /\ PhaseInv(p)' /\ ~Owner(p)'
      BY <1>0, <2>0, <3>3, <3>4, ZenonT(30) DEF StatementInv, PhaseInv, Toward, Owner, HandleReads, IsClaim
    <3>6. Lands(p)
      BY <3>3, <3>5, ZenonT(30) DEF Lands, Labels, ManagerReads
    <3> QED
      BY <1>0, <3>2, <3>6, QuietStep, Zenon
  <2>3. CASE MatchesCommit(lifecycle, loc[p].stmt.commit) /\ loc[p].err = "nil"
    BY <1>2, <1>4, <2>0, <2>3, Zenon DEF RevokeIntent, MatchesCommit
  <2> QED
    BY <2>1, <2>2, <2>3, ZenonT(30)
<1>5. CASE RevokeClaimed(p)
  <2>1. CASE Finish(p, "recovery")
    BY <1>1, <2>1, ZenonT(30)
  <2>2. CASE /\ loc[p].err = "nil" /\ MatchesCommit(lifecycle, loc[p].stmt.commit)
             /\ Goto(p, "revoke.credential") /\ Set(p, [loc[p] EXCEPT !.lc = lifecycle])
    <3>1. PICK r : r = [loc[p] EXCEPT !.lc = lifecycle]
      BY ZenonT(30)
    <3>2. Goto(p, "revoke.credential") /\ Set(p, r)
      BY <2>2, <3>1, ZenonT(30)
    <3>3. r \in Locals /\ r.stmt = loc[p].stmt /\ r.result = loc[p].result /\ r.lc = lifecycle
      BY <1>0, <3>1, Zenon DEF Locals
    <3>4. Owner(p) /\ lifecycle.state = "revoked" /\ lifecycle.revocation = "attempting"
      BY <1>0, <1>5, <2>2, Zenon DEF RevokeClaimed, Owner, StatementInv, Toward, IsClaim,
           IsRevocationClaim, MatchesCommit
    <3>5. Lands(p)
      BY <1>0, <3>2, <3>3, <3>4, MoveLands, ZenonT(30)
    <3> QED
      BY <1>0, <3>2, <3>5, QuietStep, Zenon
  <2> QED
    BY <1>5, <2>1, <2>2, Zenon DEF RevokeClaimed
<1> QED
  BY <1>3, <1>4, <1>5, ZenonT(30)
\* Revoke after the claim, the provider request apart.
LEMMA RevokeFinishInv ==
    ASSUME IInv, NEW p \in Procs, UNCHANGED issued,
           \/ RevokeCredential(p) \/ RevokeUndecryptable(p) \/ RevokeUnclaimed(p)
           \/ Finalize(p) \/ Reconcile(p) \/ Deleted(p)
    PROVE  IInv'
<1>0. /\ UNCHANGED <<lifecycle, cursor, credential, late, faults, requests, grant, issued>>
      /\ StatementInv(p) /\ PhaseInv(p) /\ RowInv /\ TypeOK
      /\ loc[p] \in Locals /\ lifecycle \in Lifecycle /\ credential \in 0 .. MaxEnvelopes
      /\ faults' \in 0 .. MaxFaults /\ issued' \in 0 .. MaxEnvelopes
  BY Zenon DEF IInv, RevokeCredential, RevokeUndecryptable, RevokeUnclaimed, Finalize, Reconcile,
         Deleted, Reads, providerVars, TypeOK
<1>1. CASE Finish(p, "recovery")
  <2>1. Lands(p)
    BY <1>1, FinishLands, Zenon DEF Results
  <2> QED
    BY <1>0, <1>1, <2>1, QuietStep, ZenonT(30) DEF Finish
<1>2. ASSUME Finish(p, Outcome(loc[p].status)), credential = 0,
             lifecycle.revocation = loc[p].status, loc[p].status \in Final
      PROVE  IInv'
  <2>1. PICK x : x = Outcome(loc[p].status)
    BY ZenonT(30)
  <2>2. /\ x \in Results
        /\ x = "confirmed" => lifecycle.revocation = "confirmed"
        /\ x = "manual" => lifecycle.revocation = "manual_action_required"
        /\ x # "enrolled"
    BY <1>2, <2>1, ZenonT(30) DEF Outcome, Results, Final
  <2>3. Lands(p)
    BY <1>0, <1>2, <2>1, <2>2, FinishLands, ZenonT(30)
  <2> QED
    BY <1>0, <1>2, <2>3, QuietStep, Zenon DEF Finish
<1>3. ASSUME NEW e \in 1 .. MaxEnvelopes, CallDelete(p, e),
             lifecycle.revocation = loc[p].status, loc[p].status \in Final
      PROVE  IInv'
  <2>1. Lands(p)
    BY <1>0, <1>3, CallDeleteLands, ZenonT(30)
  <2> QED
    BY <1>0, <1>3, <2>1, QuietStep, Zenon DEF CallDelete, Call
<1>4. ASSUME NEW r \in Locals, CallFinalize(p, "manual_action_required", r),
             r.lc.state = "revoked", r.lc.revocation = "attempting",
             lifecycle.state = "revoked", r.result = loc[p].result,
             r.cred = 0 => credential = 0
      PROVE  IInv'
  <2>1. Lands(p)
    BY <1>0, <1>4, CallFinalizeLands, ZenonT(30) DEF Final
  <2> QED
    BY <1>0, <1>4, <2>1, QuietStep, Zenon DEF CallFinalize, Call
<1>5. CASE RevokeCredential(p)
  <2>0. /\ pc[p] = "revoke.credential" /\ Owner(p) /\ lifecycle.state = "revoked"
        /\ loc[p].lc.state = "revoked" /\ loc[p].lc.revocation = "attempting"
    BY <1>0, <1>5, Zenon DEF RevokeCredential, Owner, PhaseInv
  <2>1. CASE credential = 0
    BY <1>0, <1>4, <1>5, <2>0, <2>1, ZenonT(30) DEF RevokeCredential
  <2>2. CASE credential # 0
    <3>1. PICK r : r = [loc[p] EXCEPT !.cred = credential]
      BY ZenonT(30)
    <3>2. Goto(p, "revoke.provider") /\ Set(p, r)
      BY <1>5, <2>2, <3>1, Zenon DEF RevokeCredential
    <3>3. /\ r \in Locals /\ r.stmt = loc[p].stmt /\ r.result = loc[p].result
          /\ r.lc = loc[p].lc /\ r.cred # 0
      BY <1>0, <2>2, <3>1, ZenonT(30) DEF Locals
    <3>4. Lands(p)
      BY <1>0, <2>0, <3>2, <3>3, MoveLands, ZenonT(30)
    <3> QED
      BY <1>0, <3>2, <3>4, QuietStep, Zenon
  <2> QED
    BY <2>1, <2>2, ZenonT(30)
<1>6. CASE RevokeUndecryptable(p)
  BY <1>0, <1>4, <1>6, ZenonT(30) DEF RevokeUndecryptable, PhaseInv
<1>7. CASE RevokeUnclaimed(p)
  <2>1. PICK r : r = [loc[p] EXCEPT !.cred = credential]
    BY ZenonT(30)
  <2>2. r \in Locals /\ r.lc = loc[p].lc /\ r.result = loc[p].result /\ r.cred = credential
    BY <1>0, <2>1, Zenon DEF Locals
  <2>3. CallFinalize(p, "manual_action_required", r)
    BY <1>7, <2>1, ZenonT(30) DEF RevokeUnclaimed
  <2>4. lifecycle.state = "revoked" /\ r.lc.state = "revoked" /\ r.lc.revocation = "attempting"
    BY <1>0, <1>7, <2>2, Zenon DEF RevokeUnclaimed, PhaseInv
  <2> QED
    BY <1>4, <2>2, <2>3, <2>4, ZenonT(30)
<1>8. CASE Finalize(p)
  <2>0. /\ pc[p] = "finalize" /\ loc[p].status \in Final
        /\ loc[p].stmt.commit.revocation = loc[p].status
        /\ loc[p].cred = 0 => credential = 0
        /\ loc[p].err = "nil" => lifecycle.revocation = loc[p].status
        /\ loc[p].cred \in 0 .. MaxEnvelopes
    BY <1>0, <1>8, ZenonT(30) DEF Finalize, PhaseInv, Toward, Locals
  <2>1. CASE loc[p].err # "nil" /\ ~MatchesCommit(lifecycle, loc[p].stmt.commit)
    BY <1>1, <1>8, <2>1, ZenonT(30) DEF Finalize
  <2>2. CASE ~(loc[p].err # "nil" /\ ~MatchesCommit(lifecycle, loc[p].stmt.commit))
    <3>1. lifecycle.revocation = loc[p].status
      BY <2>0, <2>2, ZenonT(30) DEF MatchesCommit
    <3>2. CASE loc[p].cred # 0
      <4>1. PICK e : e = loc[p].cred
        BY ZenonT(30)
      <4>2. CallDelete(p, e)
        BY <1>8, <2>2, <3>2, <4>1, ZenonT(30) DEF Finalize
      <4>3. e \in 1 .. MaxEnvelopes
        <5>1. e \in 0 .. MaxEnvelopes /\ e # 0
          BY <2>0, <3>2, <4>1, ZenonT(30)
        <5> QED
          BY <5>1, AccountConstants
      <4> QED
        BY <1>3, <2>0, <3>1, <4>2, <4>3, Zenon
    <3>3. CASE loc[p].cred = 0
      BY <1>2, <1>8, <2>0, <2>2, <3>1, <3>3, ZenonT(30) DEF Finalize
    <3> QED
      BY <3>2, <3>3, ZenonT(30)
  <2> QED
    BY <2>1, <2>2, ZenonT(30)
<1>9. CASE Reconcile(p)
  <2>0. loc[p].status \in Final /\ lifecycle.revocation = loc[p].status
    BY <1>0, <1>9, ZenonT(30) DEF Reconcile, PhaseInv
  <2>1. CASE credential # 0
    <3>1. PICK e : e = credential
      BY ZenonT(30)
    <3>2. CallDelete(p, e)
      BY <1>9, <2>1, <3>1, ZenonT(30) DEF Reconcile
    <3>3. e \in 1 .. MaxEnvelopes
      BY <1>0, <2>1, <3>1, AccountConstants, SMTT(30)
    <3> QED
      BY <1>3, <2>0, <3>2, <3>3, ZenonT(30)
  <2>2. CASE credential = 0
    BY <1>2, <1>9, <2>0, <2>2, ZenonT(30) DEF Reconcile
  <2> QED
    BY <2>1, <2>2, Zenon
<1>10. CASE Deleted(p)
  <2>0. loc[p].status \in Final /\ lifecycle.revocation = loc[p].status
    BY <1>0, <1>10, ZenonT(30) DEF Deleted, PhaseInv, Toward
  <2>1. CASE credential # 0
    BY <1>1, <1>10, <2>1, ZenonT(30) DEF Deleted
  <2>2. CASE credential = 0
    BY <1>2, <1>10, <2>0, <2>2, ZenonT(30) DEF Deleted
  <2> QED
    BY <2>1, <2>2, Zenon
<1> QED
  BY <1>5, <1>6, <1>7, <1>8, <1>9, <1>10, ZenonT(30)

\* revokeProvider: the owner of the claim spends it.
LEMMA RevokeProviderInv ==
    ASSUME IInv, NEW p \in Procs, RevokeProvider(p), UNCHANGED issued
    PROVE  IInv'
<1>0. /\ UNCHANGED <<lifecycle, cursor, credential, late, faults, issued>>
      /\ requests' = requests + 1 /\ grant' \in {grant, "revoked"}
      /\ pc[p] = "revoke.provider" /\ Owner(p)
      /\ StatementInv(p) /\ PhaseInv(p) /\ RowInv /\ TypeOK /\ ClaimInv
      /\ loc[p] \in Locals
  BY ZenonT(30) DEF IInv, RevokeProvider, Reads, TypeOK, Owner
<1>1. PICK status \in Final : /\ CallFinalize(p, status, loc[p])
                              /\ status = "confirmed" => grant' = "revoked"
  BY Zenon DEF RevokeProvider, Final
<1>2. Lands(p) /\ ~Owner(p)'
  <2>1. /\ loc[p].lc.state = "revoked" /\ loc[p].lc.revocation = "attempting"
        /\ lifecycle.state = "revoked" /\ loc[p].cred # 0
    BY <1>0, ZenonT(30) DEF PhaseInv
  <2>2. Lands(p)
    BY <1>0, <1>1, <2>1, CallFinalizeLands, ZenonT(30)
  <2>3. pc'[p] = "commit"
    BY <1>0, <1>1, Zenon DEF CallFinalize, Call, Goto, TypeOK
  <2> QED
    BY <2>2, <2>3, Zenon DEF Owner
<1>3. Stable
  BY <1>0, ZenonT(30) DEF Stable, Claimed
<1>4. TypeOK'
  <2>1. /\ pc' = [pc EXCEPT ![p] = pc'[p]] /\ loc' = [loc EXCEPT ![p] = loc'[p]]
    BY <1>0, <1>1, ZenonT(30) DEF CallFinalize, Call, Goto, Set, TypeOK
  <2>2. pc' \in [Procs -> Labels] /\ loc' \in [Procs -> Locals]
    BY <1>0, <1>2, <2>1, ZenonT(30) DEF TypeOK, Lands
  <2> QED
    BY <1>0, <2>2 DEF TypeOK
<1>5. RowInv'
  BY <1>0, ZenonT(30) DEF RowInv, ValidShape, ConfirmedIsTrue, RevocationKeepsItsBudget,
         HasVersionBudget, RemainingTransitions, ActivatedIsComplete
<1>6. \A s \in late' : GoodStatement(s)'
  <2>1. \A s : GoodStatement(s) => GoodStatement(s)'
    BY <1>3, StatementStable, ZenonT(30)
  <2> QED
    BY <1>0, <2>1, Zenon DEF IInv
<1>7. ASSUME NEW q \in Procs, q # p
      PROVE  StatementInv(q)' /\ PhaseInv(q)' /\ (Owner(q)' <=> Owner(q))
  <2>1. pc'[q] = pc[q] /\ loc'[q] = loc[q]
    BY <1>0, <1>1, <1>7, ZenonT(30) DEF CallFinalize, Call, Goto, Set, TypeOK
  <2> QED
    BY <1>0, <1>3, <2>1, BystanderStable, Zenon DEF IInv
<1>8. ClaimInv'
  <2>1. requests = 0 /\ \A q \in Procs : Owner(q) => q = p
    BY <1>0 DEF ClaimInv, TypeOK
  <2>2. \A q \in Procs : ~Owner(q)'
    BY <1>2, <1>7, <2>1, ZenonT(30)
  <2>3. Claimed'
    BY <1>0, <1>3, ZenonT(30) DEF PhaseInv, Stable
  <2>4. requests' = 1
    BY <1>0, <2>1
  <2> HIDE DEF Owner, Claimed
  <2>5. requests' <= 1
    BY <2>4
  <2> QED
    BY <2>2, <2>3, <2>5, ZenonT(30) DEF ClaimInv
<1> QED
  BY <1>2, <1>4, <1>5, <1>6, <1>7, <1>8, ZenonT(30) DEF IInv, Lands
-----------------------------------------------------------------------------
(* Enrollment. *)

\* reconcile() and verifyComplete().
LEMMA EnrollInv ==
    ASSUME IInv, NEW p \in Procs, EnrollStep(p), UNCHANGED providerVars
    PROVE  IInv'
<1>0. /\ UNCHANGED <<lifecycle, cursor, credential, late, faults, requests, grant>>
      /\ StatementInv(p) /\ PhaseInv(p) /\ RowInv /\ TypeOK
      /\ loc[p] \in Locals /\ lifecycle \in Lifecycle
      /\ faults' \in 0 .. MaxFaults /\ issued \in 0 .. MaxEnvelopes
      /\ \/ issued' = issued
         \/ issued < MaxEnvelopes /\ issued' = issued + 1
  BY ZenonT(30) DEF IInv, EnrollStep, EnrollProfile, EnrollLifecycle, EnrollCursor, EnrollCredential,
         EnrollAgain, EnrollSynced, EnrollEncrypt, EnrollStored, CompleteCursor,
         CompleteCredential, CompleteLifecycle, CompleteDone, Reads, providerVars, TypeOK
<1>1. issued' \in 0 .. MaxEnvelopes
  BY <1>0, AccountConstants
<1>2. ASSUME NEW x \in {"recovery", "enrolled"}, Finish(p, x),
             x = "enrolled" => lifecycle.state \notin {"absent", "pending"}
      PROVE  IInv'
  <2>1. Lands(p)
    BY <1>0, <1>2, FinishLands, Zenon DEF Results
  <2> QED
    BY <1>0, <1>1, <1>2, <2>1, QuietStep, ZenonT(30) DEF Finish
<1>3. ASSUME NEW l \in {"enroll.lifecycle", "enroll.cursor", "enroll.credential", "enroll.again",
                        "enroll.encrypt", "complete.credential", "complete.lifecycle"},
             NEW r \in Locals, Goto(p, l), Set(p, r), r.stmt = loc[p].stmt, r.result = loc[p].result,
             l \in {"enroll.lifecycle", "enroll.cursor", "enroll.credential"} => r.history # None
      PROVE  IInv'
  <2>1. Lands(p)
    BY <1>0, <1>3, MoveLands, ZenonT(30)
  <2> QED
    BY <1>0, <1>1, <1>3, <2>1, QuietStep, ZenonT(30)
<1>4. ASSUME NEW l \in {"enroll.encrypt", "enroll.again", "complete.credential", "complete.lifecycle"},
             Goto(p, l), UNCHANGED loc
      PROVE  IInv'
  <2>1. Set(p, loc[p])
    BY <1>0, <1>4, ZenonT(30) DEF Set, TypeOK
  <2> QED
    BY <1>0, <1>3, <1>4, <2>1, ZenonT(30)
<1>5. CASE CallComplete(p)
  <2>1. PICK r : r = [Idle EXCEPT !.op = "enroll"]
    BY ZenonT(30)
  <2>2. PICK s : s = AccountInsert
    BY ZenonT(30)
  <2>3. Call(p, "ensure", s, "complete.cursor", r)
    BY <1>5, <2>1, <2>2, Zenon DEF CallComplete
  <2>4. r \in Locals /\ r.result = "none"
    BY <2>1, IdleLocals, ZenonT(30) DEF Locals
  <2>5. s.table = "account" /\ GoodStatement(s)'
    BY <2>2, Zenon DEF AccountInsert, GoodStatement, Statements
  <2>6. "complete.cursor" \in ReturnLabels
    BY Zenon DEF ReturnLabels
  <2>7. Lands(p)
    BY <1>0, <2>3, <2>4, <2>5, <2>6, CallLands, ZenonT(30)
  <2> QED
    BY <1>0, <1>1, <2>3, <2>7, QuietStep, Zenon DEF Call
<1>6. CASE EnrollProfile(p)
  <2>1. CASE Finish(p, "recovery")
    BY <1>2, <2>1, Zenon
  <2>2. ASSUME NEW h \in HistoryIDs, Goto(p, "enroll.lifecycle"),
               Set(p, [loc[p] EXCEPT !.history = h])
        PROVE  IInv'
    <3>1. PICK r : r = [loc[p] EXCEPT !.history = h]
      BY ZenonT(30)
    <3>2. /\ r \in Locals /\ r.stmt = loc[p].stmt /\ r.result = loc[p].result
          /\ r.history # None /\ Set(p, r)
      BY <1>0, <2>2, <3>1, AccountConstants, Zenon DEF Locals
    <3> QED
      BY <1>3, <2>2, <3>2, Zenon
  <2> QED
    BY <1>6, <2>1, <2>2, ZenonT(30) DEF EnrollProfile
<1>7. CASE EnrollLifecycle(p)
  <2>1. PICK r : r = [loc[p] EXCEPT !.lc = lifecycle]
    BY ZenonT(30)
  <2>2. /\ r \in Locals /\ r.stmt = loc[p].stmt /\ r.result = loc[p].result
        /\ r.history # None
    BY <1>0, <1>7, <2>1, Zenon DEF Locals, PhaseInv, EnrollLifecycle
  <2>3. CASE Goto(p, "enroll.cursor") /\ Set(p, r)
    BY <1>3, <2>2, <2>3, ZenonT(30)
  <2>4. CASE Finish(p, "recovery")
    BY <1>2, <2>4, Zenon
  <2> QED
    BY <1>7, <2>1, <2>3, <2>4, Zenon DEF EnrollLifecycle
<1>8. CASE EnrollCursor(p)
  <2>1. PICK f \in BOOLEAN : Set(p, [loc[p] EXCEPT !.found = f])
    <3>1. (cursor # None) \in BOOLEAN
      OBVIOUS
    <3> QED
      BY <1>8, <3>1, ZenonT(30), ZenonT(30) DEF EnrollCursor
  <2>2. PICK r : r = [loc[p] EXCEPT !.found = f]
    BY ZenonT(30)
  <2>3. /\ r \in Locals /\ r.stmt = loc[p].stmt /\ r.result = loc[p].result
        /\ r.history # None /\ Set(p, r)
    BY <1>0, <1>8, <2>1, <2>2, Zenon DEF Locals, PhaseInv, EnrollCursor
  <2> QED
    BY <1>3, <1>8, <2>3, Zenon DEF EnrollCursor
<1>9. CASE EnrollCredential(p)
  <2>1. CASE Finish(p, "recovery")
    BY <1>2, <2>1, Zenon
  <2>2. ASSUME NEW h \in HistoryIDs,
               Call(p, "sync", CursorInsert(h), "enroll.synced", [loc[p] EXCEPT !.history = None])
        PROVE  IInv'
    <3>1. PICK r : r = [loc[p] EXCEPT !.history = None]
      BY ZenonT(30)
    <3>2. PICK s : s = CursorInsert(h)
      BY ZenonT(30)
    <3>3. r \in Locals /\ r.result = loc[p].result
      BY <1>0, <3>1, ZenonT(30) DEF Locals
    <3>4. s.table = "cursor" /\ GoodStatement(s)' /\ "enroll.synced" \in ReturnLabels
      BY <3>2, Zenon DEF CursorInsert, GoodStatement, Statements, ReturnLabels
    <3>5. Call(p, "sync", s, "enroll.synced", r)
      BY <2>2, <3>1, <3>2, ZenonT(30)
    <3>6. Lands(p)
      BY <1>0, <3>3, <3>4, <3>5, CallLands, Zenon
    <3> QED
      BY <1>0, <1>1, <3>5, <3>6, QuietStep, Zenon DEF Call
  <2>3. loc[p].history \in HistoryIDs
    BY <1>0, <1>9, Zenon DEF Locals, PhaseInv, EnrollCredential
  <2> QED
    BY <1>4, <1>5, <1>9, <2>1, <2>2, <2>3, Zenon DEF EnrollCredential
<1>10. CASE EnrollAgain(p)
  BY <1>2, <1>5, <1>10, ZenonT(30) DEF EnrollAgain
<1>11. CASE EnrollSynced(p)
  BY <1>2, <1>4, <1>11, ZenonT(30) DEF EnrollSynced
<1>12. CASE EnrollEncrypt(p)
  <2>1. CASE Finish(p, "recovery")
    BY <1>2, <2>1, Zenon
  <2>2. ASSUME issued < MaxEnvelopes, issued' = issued + 1,
               Call(p, "cred", CredentialInsert(issued'), "enroll.stored", loc[p])
        PROVE  IInv'
    <3>1. PICK s : s = CredentialInsert(issued')
      BY ZenonT(30)
    <3>2. issued' \in 1 .. MaxEnvelopes
      BY <1>0, <2>2, AccountConstants, SMTT(30)
    <3>3. s.table = "credential" /\ s \in Statements /\ "enroll.stored" \in ReturnLabels
      BY <3>1, <3>2, ZenonT(30) DEF CredentialInsert, Statements, ReturnLabels
    <3>4. GoodStatement(s)'
      BY <3>3, Zenon DEF GoodStatement
    <3>5. Call(p, "cred", s, "enroll.stored", loc[p])
      BY <2>2, <3>1, Zenon
    <3>6. Lands(p)
      BY <1>0, <3>3, <3>4, <3>5, CallLands, ZenonT(30)
    <3> QED
      BY <1>0, <1>1, <3>5, <3>6, QuietStep, Zenon DEF Call
  <2> QED
    BY <1>12, <2>1, <2>2, Zenon DEF EnrollEncrypt
<1>13. CASE EnrollStored(p)
  BY <1>2, <1>5, <1>13, ZenonT(30) DEF EnrollStored
<1>14. CASE CompleteCursor(p)
  BY <1>2, <1>4, <1>14, ZenonT(30) DEF CompleteCursor
<1>15. CASE CompleteCredential(p)
  BY <1>2, <1>4, <1>15, Zenon DEF CompleteCredential
<1>16. CASE CompleteLifecycle(p)
  <2>1. CASE lifecycle.state = "pending"
    <3>1. PICK s : s = LifecycleUpdate(CommitFrom(lifecycle, "active", None, "none"))
      BY ZenonT(30)
    <3>2. Call(p, "commit", s, "complete.done", loc[p])
      BY <1>16, <2>1, <3>1, Zenon DEF CompleteLifecycle
    <3>3. "active" \in States /\ "none" \in Revocations /\ lifecycle \in Lifecycle
      BY <1>0, ZenonT(30) DEF States, Revocations
    <3>4. /\ s \in Statements /\ s.table = "lifecycle"
          /\ s.commit.expectedState = lifecycle.state
          /\ s.commit.expectedRevocation = lifecycle.revocation
          /\ s.commit.nextState = "active" /\ s.commit.reason = None
          /\ s.commit.revocation = "none"
      BY <3>1, <3>3, UpdateStatement, SMTT(30)
    <3>5. GoodStatement(s)'
      BY <1>0, <2>1, <3>4, Zenon DEF GoodStatement, RowInv, ValidShape, ValidTransition, States
    <3>6. "complete.done" \in ReturnLabels
      BY Zenon DEF ReturnLabels
    <3>7. Lands(p)
      BY <1>0, <3>2, <3>4, <3>5, <3>6, CallLands, ZenonT(30)
    <3> QED
      BY <1>0, <1>1, <3>2, <3>7, QuietStep, Zenon DEF Call
  <2>2. CASE lifecycle.state # "pending"
    BY <1>2, <1>16, <2>2, ZenonT(30) DEF CompleteLifecycle
  <2> QED
    BY <2>1, <2>2, Zenon
<1>17. CASE CompleteDone(p)
  <2>1. CASE loc[p].err = "nil" \/ MatchesCommit(lifecycle, loc[p].stmt.commit)
    <3>1. lifecycle.state \notin {"absent", "pending"}
      BY <1>0, <1>17, <2>1, ZenonT(30) DEF CompleteDone, PhaseInv, StatementInv, Toward, MatchesCommit
    <3> QED
      BY <1>2, <1>17, <2>1, <3>1, ZenonT(30) DEF CompleteDone
  <2>2. CASE ~(loc[p].err = "nil" \/ MatchesCommit(lifecycle, loc[p].stmt.commit))
    BY <1>2, <1>17, <2>2, ZenonT(30) DEF CompleteDone
  <2> QED
    BY <2>1, <2>2, Zenon
<1> QED
  BY <1>6, <1>7, <1>8, <1>9, <1>10, <1>11, <1>12, <1>13, <1>14, <1>15, <1>16, <1>17, ZenonT(30) DEF EnrollStep
-----------------------------------------------------------------------------
(* Starting and failing. *)

\* An operation starts.
LEMMA StartInv ==
    ASSUME IInv, NEW p \in Procs, Start(p)
    PROVE  IInv'
<1>0. /\ UNCHANGED <<lifecycle, cursor, credential, late, faults, requests, grant, issued>>
      /\ TypeOK /\ faults' \in 0 .. MaxFaults /\ issued' \in 0 .. MaxEnvelopes
  BY ZenonT(30) DEF IInv, Start, StartTransition, StartRevoke, StartEnroll, Reads, providerVars, TypeOK
<1>1. ASSUME NEW op \in DOMAIN TransitionTo, NEW reason \in Reasons \cup {None},
             StartTransition(p, op, reason)
      PROVE  IInv'
  <2>1. PICK r : r = [Idle EXCEPT !.op = op, !.reason = reason]
    BY ZenonT(30)
  <2>2. Goto(p, "transition") /\ Set(p, r) /\ ((op = "reauth") <=> (reason # None))
    BY <1>1, <2>1, Zenon DEF StartTransition
  <2>3. /\ r \in Locals /\ r.stmt = AccountInsert /\ r.result = "none"
        /\ r.op = op /\ r.reason = reason
    BY <2>1, IdleLocals, ZenonT(30) DEF Locals
  <2>4. Lands(p)
    BY <1>0, <2>2, <2>3, MoveLands, ZenonT(30)
  <2> QED
    BY <1>0, <2>2, <2>4, QuietStep, Zenon
<1>2. CASE StartRevoke(p)
  <2>1. PICK r : r = [Idle EXCEPT !.op = "revoke"]
    BY ZenonT(30)
  <2>2. Goto(p, "revoke") /\ Set(p, r)
    BY <1>2, <2>1, Zenon DEF StartRevoke
  <2>3. r \in Locals /\ r.stmt = AccountInsert /\ r.result = "none"
    BY <2>1, IdleLocals, ZenonT(30) DEF Locals
  <2>4. Lands(p)
    BY <1>0, <2>2, <2>3, MoveLands, Zenon
  <2> QED
    BY <1>0, <2>2, <2>4, QuietStep, Zenon
<1>3. CASE StartEnroll(p)
  <2>1. PICK r : r = [Idle EXCEPT !.op = "enroll"]
    BY ZenonT(30)
  <2>2. PICK s : s = AccountInsert
    BY ZenonT(30)
  <2>3. Call(p, "ensure", s, "enroll.profile", r)
    BY <1>3, <2>1, <2>2, Zenon DEF StartEnroll
  <2>4. r \in Locals /\ r.result = "none"
    BY <2>1, IdleLocals, ZenonT(30) DEF Locals
  <2>5. s.table = "account" /\ GoodStatement(s)' /\ "enroll.profile" \in ReturnLabels
    BY <2>2, Zenon DEF AccountInsert, GoodStatement, Statements, ReturnLabels
  <2>6. Lands(p)
    BY <1>0, <2>3, <2>4, <2>5, CallLands, ZenonT(30)
  <2> QED
    BY <1>0, <2>3, <2>6, QuietStep, Zenon DEF Call
<1> QED
  BY <1>1, <1>2, <1>3, Zenon DEF Start

\* A read or a statement fails, or the process dies.
LEMMA FailsInv ==
    ASSUME IInv, NEW p \in Procs, Fails(p)
    PROVE  IInv'
<1>0. /\ UNCHANGED <<lifecycle, cursor, credential, requests, grant, issued>>
      /\ TypeOK /\ StatementInv(p) /\ PhaseInv(p) /\ loc[p] \in Locals
      /\ faults' \in 0 .. MaxFaults /\ issued' \in 0 .. MaxEnvelopes
  BY AccountConstants DEF IInv, Fails, HandleReadFails, ExecFails, Crash, ManagerReadFails, EnrollReadFails,
         Fault, tables, providerVars, TypeOK
<1>1. ASSUME NEW x \in {"none", "recovery"}, Finish(p, x), UNCHANGED late
      PROVE  IInv'
  <2>1. Lands(p)
    BY <1>1, FinishLands, Zenon DEF Results
  <2> QED
    BY <1>0, <1>1, <2>1, QuietStep, ZenonT(30) DEF Finish
<1>2. CASE Crash(p)
  BY <1>1, <1>2, ZenonT(30) DEF Crash
<1>3. CASE ManagerReadFails(p) \/ EnrollReadFails(p)
  BY <1>1, <1>3, ZenonT(30) DEF ManagerReadFails, EnrollReadFails
<1>4. CASE HandleReadFails(p)
  <2>1. UNCHANGED late /\ pc[p] \in HandleReads
    BY <1>4, ZenonT(30) DEF HandleReadFails
  <2>2. CASE pc[p] = "verify" /\ loc[p].stmt.table = "credential"
    <3>1. Goto(p, "cred.recheck") /\ UNCHANGED loc
      BY <1>4, <2>2, ZenonT(30) DEF HandleReadFails
    <3>2. Lands(p)
      BY <1>0, <2>1, <2>2, <3>1, GotoLands, Zenon
    <3>3. Set(p, loc[p])
      BY <1>0, <3>1, Zenon DEF Set, TypeOK
    <3> QED
      BY <1>0, <2>1, <3>1, <3>2, <3>3, QuietStep, ZenonT(30)
  <2>3. ASSUME NEW e \in {"unknown", "inspect"}, Return(p, e)
        PROVE  IInv'
    <3>1. Lands(p)
      BY <1>0, <2>1, <2>3, ReturnLands, ZenonT(30) DEF Errors
    <3> QED
      BY <1>0, <2>1, <2>3, <3>1, QuietStep, Zenon DEF Return
  <2> QED
    BY <1>4, <2>2, <2>3, Zenon DEF HandleReadFails
<1>5. CASE ExecFails(p)
  <2>1. PICK r : r = [loc[p] EXCEPT !.rows = "unknown"]
    BY ZenonT(30)
  <2>2. pc[p] = "exec" /\ Goto(p, "verify") /\ Set(p, r) /\ late' = late \cup {loc[p].stmt}
    BY <1>5, <2>1, ZenonT(30) DEF ExecFails
  <2>3. pc'[p] = "verify" /\ loc'[p] = r
    BY <1>0, <2>2, Zenon DEF Goto, Set, TypeOK
  <2>4. /\ r \in Locals /\ r.rows = "unknown"
        /\ r.stmt = loc[p].stmt /\ r.ret = loc[p].ret /\ r.status = loc[p].status
        /\ r.cred = loc[p].cred /\ r.result = loc[p].result
    BY <1>0, <2>1, Zenon DEF Locals
  <2>5. GoodStatement(loc[p].stmt)'
    BY <1>0, <2>3, <2>4, ZenonT(30) DEF StatementInv, GoodStatement, Statements, AccountInsert, CursorInsert,
         CredentialInsert, CredentialDelete, LifecycleUpdate, LifecycleCommit
  <2>6. StatementInv(p)'
    BY <1>0, <2>2, <2>3, <2>4, <2>5, ZenonT(30) DEF StatementInv, Toward, HandleReads, IsClaim
  <2>7. PhaseInv(p)' /\ ~Owner(p)'
    BY <1>0, <2>2, <2>3, <2>4, ZenonT(30) DEF PhaseInv, Toward, HandleReads, Owner
  <2>8. Lands(p)
    BY <2>3, <2>4, <2>6, <2>7, ZenonT(30) DEF Lands, Labels, HandleReads
  <2>9. LocalChange(p)
    BY <1>0, <2>2, <2>3, Zenon DEF LocalChange, TypeOK, Goto, Set
  <2> QED
    BY <2>8, <2>9, LocalStep, Zenon
<1> QED
  BY <1>2, <1>3, <1>4, <1>5, ZenonT(30) DEF Fails
-----------------------------------------------------------------------------
(* The theorems. *)

\* The invariant holds initially.
LEMMA InitInv == Init => IInv
<1> SUFFICES ASSUME Init PROVE IInv
  OBVIOUS
<1> USE AccountConstants
<1>1. /\ lifecycle = NoLifecycle /\ cursor = None /\ credential = 0 /\ late = {} /\ faults = 0
      /\ requests = 0 /\ grant = "live" /\ issued = 0
      /\ \A p \in Procs : pc[p] = "idle" /\ loc[p] = Idle
      /\ pc = [p \in Procs |-> "idle"] /\ loc = [p \in Procs |-> Idle]
  BY ZenonT(30) DEF Init, StoreInit, ManagerInit, EnrollInit
<1>2. TypeOK
  BY <1>1, IdleLocals, SMTT(30) DEF TypeOK, Lifecycle, NoLifecycle, Revocations, Labels
<1>3. RowInv
  BY <1>1, Zenon DEF RowInv, NoLifecycle, ValidShape, ConfirmedIsTrue, RevocationKeepsItsBudget,
       ActivatedIsComplete
<1>4. ASSUME NEW p \in Procs
      PROVE  StatementInv(p) /\ PhaseInv(p) /\ ~Owner(p)
  <2>1. pc[p] = "idle" /\ loc[p].stmt = AccountInsert /\ loc[p].result = "none"
    BY <1>1, IdleLocals, ZenonT(30)
  <2> QED
    <3>1. GoodStatement(AccountInsert)
      BY Zenon DEF GoodStatement, Statements, AccountInsert
    <3>2. StatementInv(p)
      BY <2>1, <3>1, ZenonT(30) DEF StatementInv, Toward, HandleReads
    <3>3. ~Owner(p)
      BY <2>1, Zenon DEF Owner
    <3>4. PhaseInv(p)
      BY <2>1, <3>3, ZenonT(30) DEF PhaseInv, Toward, HandleReads
    <3> QED
      BY <3>2, <3>3, <3>4, ZenonT(30)
<1>5. ClaimInv
  BY <1>1, <1>4 DEF ClaimInv
<1> QED
  BY <1>1, <1>2, <1>3, <1>4, <1>5, Zenon DEF IInv

\* Every step keeps the invariant.
LEMMA NextInv == IInv /\ [Next]_vars => IInv'
<1> SUFFICES ASSUME IInv, [Next]_vars PROVE IInv'
  OBVIOUS
<1>1. CASE UNCHANGED vars
  <2>1. Stable /\ TypeOK' /\ (Claimed => Claimed')
    BY <1>1, ZenonT(30) DEF vars, Stable, Claimed, IInv, TypeOK
  <2>2. RowInv'
    BY <1>1, Zenon DEF vars, IInv, RowInv, ValidShape, ConfirmedIsTrue, RevocationKeepsItsBudget,
         HasVersionBudget, RemainingTransitions, ActivatedIsComplete
  <2>3. \A s \in late' : GoodStatement(s)'
    <3>1. \A s : GoodStatement(s) => GoodStatement(s)'
      BY <2>1, StatementStable, Zenon
    <3> QED
      BY <1>1, <3>1, Zenon DEF vars, IInv
  <2>4. ASSUME NEW q \in Procs
        PROVE  StatementInv(q)' /\ PhaseInv(q)' /\ (Owner(q)' <=> Owner(q))
    BY <1>1, <2>1, BystanderStable, ZenonT(30) DEF vars, IInv
  <2>5. ClaimInv'
    <3>1. requests' = requests
      BY <1>1, Zenon DEF vars
    <3> HIDE DEF Owner, Claimed
    <3> QED
      BY <2>1, <2>4, <3>1, Zenon DEF IInv, ClaimInv
  <2> QED
    BY <2>1, <2>2, <2>3, <2>4, <2>5, ZenonT(30) DEF IInv
<1>2. CASE Arrives
  BY <1>2, ArrivesInv, ZenonT(30)
<1>3. ASSUME NEW p \in Procs, Step(p)
      PROVE  IInv'
  <2>1. CASE HandleStep(p) /\ UNCHANGED <<providerVars, issued>>
    BY <2>1, HandleReadInv, ExecAcknowledgedInv, ZenonT(30) DEF HandleStep
  <2>2. CASE ManagerStep(p) /\ UNCHANGED issued
    BY <2>2, TransitionInv, RevokeClaimInv, RevokeFinishInv, RevokeProviderInv, Zenon DEF ManagerStep, RevokeStep
  <2>3. CASE EnrollStep(p) /\ UNCHANGED providerVars
    BY <2>3, EnrollInv
  <2> QED
    BY <1>3, <2>1, <2>2, <2>3, ZenonT(30) DEF Step
<1> QED
  BY <1>1, <1>2, <1>3, StartInv, FailsInv DEF Next

\* The inductive invariant holds in every reachable state.
THEOREM Invariance == Spec => []IInv
BY InitInv, NextInv, PTL DEF Spec

\* Type correctness.
THEOREM TypeCorrect == Spec => []TypeOK
<1>1. IInv => TypeOK
  BY DEF IInv
<1> QED
  BY <1>1, Invariance, PTL

\* Revoke asks the provider at most once, whatever the number of processes,
\* retries, lost acknowledgements and crashes.
THEOREM OneRequest == Spec => []AtMostOneProviderRequest
<1>1. IInv => AtMostOneProviderRequest
  BY ZenonT(30) DEF IInv, ClaimInv, AtMostOneProviderRequest
<1> QED
  BY <1>1, Invariance, PTL

\* A request that was sent can be seen in the row after any restart.
THEOREM RestartVisible == Spec => []RequestIsRestartVisible
<1>1. IInv => RequestIsRestartVisible
  BY DEF IInv, ClaimInv, Claimed, RequestIsRestartVisible
<1> QED
  BY <1>1, Invariance, PTL

\* The row tells the truth about the provider, keeps the versions a begun
\* revocation needs, and has what activation requires.
THEOREM RowCorrect ==
    Spec => [](ConfirmedIsTrue /\ RevocationKeepsItsBudget /\ ActivatedIsComplete)
<1>1. IInv => ConfirmedIsTrue /\ RevocationKeepsItsBudget /\ ActivatedIsComplete
  BY DEF IInv, RowInv
<1> QED
  BY <1>1, Invariance, PTL

\* What Revoke and the enrollment report stays true.
THEOREM ReportsHold == Spec => [](ReportedOutcomeIsDurable /\ EnrolledWasActivated)
<1>1. IInv => ReportedOutcomeIsDurable /\ EnrolledWasActivated
  BY ZenonT(30) DEF IInv, PhaseInv, ReportedOutcomeIsDurable, EnrolledWasActivated
<1> QED
  BY <1>1, Invariance, PTL

\* A revocation asks once, visibly, and keeps the versions it needs (Revoke).
THEOREM RevocationSound == Spec => []RevocationIsSound
<1>1. AtMostOneProviderRequest /\ RequestIsRestartVisible /\ RevocationKeepsItsBudget
      => RevocationIsSound
  BY DEF RevocationIsSound
<1> QED
  BY <1>1, OneRequest, RestartVisible, RowCorrect, PTL

\* What the row says and what Revoke and the enrollment reported is so.
THEOREM ReportsTrue == Spec => []ReportsAreTrue
<1>1. ConfirmedIsTrue /\ ReportedOutcomeIsDurable /\ ActivatedIsComplete /\ EnrolledWasActivated
      => ReportsAreTrue
  BY DEF ReportsAreTrue
<1> QED
  BY <1>1, RowCorrect, ReportsHold, PTL

\* The rows change only when the database runs a statement that may be issued.
LEMMA RowsChangeByStatements ==
    ASSUME IInv, [Next]_vars
    PROVE  UNCHANGED tables \/ \E s : GoodStatement(s) /\ Execute(s)
<1>1. CASE UNCHANGED vars
  BY <1>1 DEF vars, tables
<1>2. CASE Arrives
  BY <1>2 DEF Arrives, LateExecute, IInv
<1>3. ASSUME NEW p \in Procs, Start(p) \/ Fails(p)
      PROVE  UNCHANGED tables
  BY <1>3, ZenonT(30) DEF Start, StartTransition, StartRevoke, StartEnroll, Reads, tables,
       Fails, HandleReadFails, ExecFails, Crash, ManagerReadFails, EnrollReadFails
<1>4. ASSUME NEW p \in Procs, Step(p)
      PROVE  UNCHANGED tables \/ \E s : GoodStatement(s) /\ Execute(s)
  <2>1. CASE ExecAcknowledged(p)
    BY <2>1, ZenonT(30) DEF ExecAcknowledged, IInv, StatementInv
  <2>2. CASE HandleStep(p) /\ ~ExecAcknowledged(p)
    BY <2>2, ZenonT(30) DEF HandleStep, Reads, tables, EnsureInspect, SyncInspect, CredInspectLifecycle,
         CredInspectExisting, DeleteInspectLifecycle, DeleteInspectExisting, CommitInspect,
         CommitInspectCursor, CommitInspectCredential, Verify, CredRecheck
  <2>3. CASE ManagerStep(p)
    BY <2>3, ZenonT(30) DEF ManagerStep, RevokeStep, Reads, tables, Transition, TransitionDone, Revoke,
         RevokeIntent, RevokeClaimed, RevokeCredential, RevokeUndecryptable, RevokeProvider,
         RevokeUnclaimed, Finalize, Reconcile, Deleted
  <2>4. CASE EnrollStep(p)
    BY <2>4 DEF EnrollStep, Reads, tables, EnrollProfile, EnrollLifecycle, EnrollCursor,
         EnrollCredential, EnrollAgain, EnrollSynced, EnrollEncrypt, EnrollStored,
         CompleteCursor, CompleteCredential, CompleteLifecycle, CompleteDone
  <2> QED
    BY <1>4, <2>1, <2>2, <2>3, <2>4, ZenonT(30) DEF Step
<1> QED
  BY <1>1, <1>2, <1>3, <1>4, ZenonT(30) DEF Next

\* Every change of the lifecycle row is an edge of the graph and adds one to
\* its version.
THEOREM GraphFollowed == Spec => LifecycleFollowsGraph
<1> DEFINE A == lifecycle' # lifecycle =>
                   /\ lifecycle'.version = lifecycle.version + 1
                   /\ \/ lifecycle.state = "absent" /\ lifecycle'.state = "pending"
                      \/ ValidTransition(lifecycle.state, lifecycle.revocation,
                                         lifecycle'.state, lifecycle'.revocation)
<1>1. IInv /\ [Next]_vars => [A]_vars
  <2> SUFFICES ASSUME IInv, [Next]_vars, lifecycle' # lifecycle PROVE A
    OBVIOUS
  <2>1. PICK s : GoodStatement(s) /\ Execute(s)
    BY RowsChangeByStatements, ZenonT(30) DEF tables
  <2>2. lifecycle.state = "absent" => lifecycle.version = 0
    BY DEF IInv, RowInv, NoLifecycle
  <2> QED
    <3>1. CASE s.table = "account"
      <4>1. lifecycle.state = "absent" /\ lifecycle' = NewLifecycle
        BY <2>1, <3>1, ZenonT(30) DEF Execute, Applies, Exists, tables
      <4> QED
        BY <2>2, <4>1 DEF NewLifecycle
    <3>2. CASE s.table = "lifecycle"
      <4>1. Applies(s) /\ LifecycleUpdateApplies(s.commit)
        <5>1. Applies(s)
          BY <2>1, ZenonT(30) DEF Execute, tables
        <5> QED
          BY <3>2, <5>1, ZenonT(30) DEF Applies
      <4>3. lifecycle' = [state |-> s.commit.nextState, version |-> lifecycle.version + 1,
                          reason |-> s.commit.reason, revocation |-> s.commit.revocation]
        BY <2>1, <3>2, <4>1, ZenonT(30) DEF Execute
      <4>2. ValidTransition(s.commit.expectedState, s.commit.expectedRevocation,
                            s.commit.nextState, s.commit.revocation)
        BY <2>1, <3>2, ZenonT(30) DEF GoodStatement
      <4>4. /\ lifecycle'.state = s.commit.nextState
            /\ lifecycle'.revocation = s.commit.revocation
            /\ lifecycle'.version = lifecycle.version + 1
        BY <4>3, ZenonT(30)
      <4> QED
        BY <4>1, <4>2, <4>4, ZenonT(30) DEF LifecycleUpdateApplies
    <3> QED
      BY <2>1, <3>1, <3>2, ZenonT(30) DEF Execute, tables
<1> QED
  BY <1>1, Invariance, PTL DEF Spec, LifecycleFollowsGraph

\* Nothing replaces a cursor or a credential; a credential goes only when the
\* revocation has its final outcome, and none comes back after that.
THEOREM CredentialKept == Spec => CredentialOutlivesRevocation
<1> DEFINE A == /\ cursor # None => cursor' = cursor
                /\ credential # 0 /\ credential' # credential =>
                       credential' = 0 /\ lifecycle.revocation \in Final
                /\ credential = 0 /\ credential' # 0 => lifecycle.state # "revoked"
<1>1. IInv /\ [Next]_vars => [A]_vars
  <2> SUFFICES ASSUME IInv, [Next]_vars PROVE A
    OBVIOUS
  <2>1. CASE UNCHANGED tables
    BY <2>1 DEF tables
  <2>2. ASSUME NEW s, GoodStatement(s), Execute(s)
        PROVE  A
    BY <2>2, ZenonT(30) DEF GoodStatement, Execute, NewLifecycle, Applies, CredentialInsertApplies,
         CredentialDeleteApplies, tables
  <2> QED
    BY <2>1, <2>2, RowsChangeByStatements, ZenonT(30)
<1> QED
  BY <1>1, Invariance, PTL DEF Spec, CredentialOutlivesRevocation

-----------------------------------------------------------------------------
(* The refinement. *)

\* A lifecycle update that applies is CommitAccountLifecycle of the fake.
LEMMA FakeLifecycle ==
    ASSUME IInv, NEW s, GoodStatement(s), Execute(s), Applies(s), s.table = "lifecycle"
    PROVE  Fake!CommitAccountLifecycle(Fake!CommitTo(lifecycle'))
<1>1. LifecycleUpdateApplies(s.commit)
  BY ZenonT(30) DEF Applies
<1>2. /\ lifecycle' = [state |-> s.commit.nextState, version |-> lifecycle.version + 1,
                       reason |-> s.commit.reason, revocation |-> s.commit.revocation]
      /\ UNCHANGED <<cursor, credential>>
  BY ZenonT(30) DEF Execute
<1>3. /\ ValidShape(s.commit.nextState, s.commit.reason, s.commit.revocation)
      /\ ValidTransition(s.commit.expectedState, s.commit.expectedRevocation,
                         s.commit.nextState, s.commit.revocation)
  BY ZenonT(30) DEF GoodStatement
<1>4. /\ lifecycle'.state = s.commit.nextState /\ lifecycle'.reason = s.commit.reason
      /\ lifecycle'.revocation = s.commit.revocation
      /\ lifecycle'.version = lifecycle.version + 1
  BY <1>2, ZenonT(30)
<1>5. PICK c : c = Fake!CommitTo(lifecycle')
  BY Zenon
<1>6. /\ c.expectedState = lifecycle.state /\ c.expectedVersion = lifecycle.version
      /\ c.expectedRevocation = lifecycle.revocation /\ c.nextState = s.commit.nextState
      /\ c.reason = s.commit.reason /\ c.revocation = s.commit.revocation
  BY <1>4, <1>5 DEF Fake!CommitTo
<1>7. ValidTransition(lifecycle.state, lifecycle.revocation, c.nextState, c.revocation)
  BY <1>1, <1>3, <1>6, ZenonT(30) DEF LifecycleUpdateApplies
<1>8. ValidExpectedShape(lifecycle.state, lifecycle.revocation)
  BY DEF IInv, RowInv, ValidShape, ValidExpectedShape
<1>9. lifecycle.version # MaxVersion
  <2>1. lifecycle.version < MaxVersion
    BY <1>1 DEF LifecycleUpdateApplies
  <2>2. lifecycle.version \in 0 .. MaxVersion
    BY DEF IInv, TypeOK, Lifecycle
  <2> QED
    BY <2>1, <2>2
<1>10. ValidateLifecycleCommit(c) = "nil"
  BY <1>3, <1>6, <1>7, <1>8, <1>9 DEF ValidateLifecycleCommit
<1>11. ~MatchesCommit(lifecycle, c)
  BY <1>7 DEF MatchesCommit, ValidTransition, Final
<1>12. Fake!Exists
  BY <1>7 DEF Fake!Exists, ValidTransition, States
<1>13. c.nextState = "active" => cursor # None /\ credential # 0
  BY <1>1, <1>6 DEF LifecycleUpdateApplies
<1>14. lifecycle' = [state |-> c.nextState, version |-> lifecycle.version + 1,
                     reason |-> c.reason, revocation |-> c.revocation]
  BY <1>2, <1>6
<1>15. Fake!CommitAccountLifecycle(c)
  BY <1>2, <1>6, <1>10, <1>11, <1>12, <1>13, <1>14 DEF Fake!CommitAccountLifecycle
<1> QED
  BY <1>5, <1>15

\* Each statement that applies is one operation of the contract fake.
LEMMA FakeStatement ==
    ASSUME IInv, NEW s, GoodStatement(s), Execute(s)
    PROVE  Fake!Next \/ UNCHANGED Fake!vars
<1>1. CASE ~Applies(s)
  BY <1>1, ZenonT(30) DEF Execute, tables, Fake!vars
<1>2. CASE Applies(s) /\ s.table = "account"
  <2>1. Fake!EnsureAccount
    BY <1>2, ZenonT(30) DEF Execute, Applies, Exists, Fake!EnsureAccount, Fake!Exists
  <2> QED
    BY <2>1, Zenon DEF Fake!Next
<1>3. CASE Applies(s) /\ s.table = "cursor"
  <2>1. Fake!CommitSynchronization(cursor')
    BY <1>3, ZenonT(30) DEF Execute, Applies, Exists, Fake!CommitSynchronization, Fake!Exists
  <2> QED
    BY <2>1, Zenon DEF Fake!Next
<1>4. CASE Applies(s) /\ s.table = "credential"
  <2>1. CredentialInsertApplies(s.next) /\ credential' = s.next /\ UNCHANGED <<lifecycle, cursor>>
    BY <1>4, ZenonT(30) DEF Execute, Applies
  <2>2. s.next \in 1 .. MaxEnvelopes
    BY <1>4 DEF GoodStatement, Statements, AccountInsert, CursorInsert, CredentialInsert,
         CredentialDelete, LifecycleUpdate
  <2>3. s.next # 0
    BY <2>2
  <2>4. Fake!CommitProviderCredential(credential, credential')
    BY <2>1, <2>3, ZenonT(30)
    DEF CredentialInsertApplies, Exists, Fake!CommitProviderCredential, Fake!Exists
  <2> QED
    BY <2>4, Zenon DEF Fake!Next
<1>5. CASE Applies(s) /\ s.table = "delete"
  <2>1. /\ CredentialDeleteApplies(s.expected) /\ credential' = 0
        /\ UNCHANGED <<lifecycle, cursor>>
    BY <1>5, ZenonT(30) DEF Execute, Applies
  <2>2. s.expected \in 1 .. MaxEnvelopes
    BY <1>5 DEF GoodStatement, Statements, AccountInsert, CursorInsert, CredentialInsert,
         CredentialDelete, LifecycleUpdate
  <2>3. s.expected # 0
    BY <2>2
  <2>4. Fake!DeleteRevokedProviderCredential(credential)
    BY <2>1, <2>3, ZenonT(30)
    DEF CredentialDeleteApplies, Fake!DeleteRevokedProviderCredential
  <2> QED
    BY <2>4, Zenon DEF Fake!Next
<1>6. CASE Applies(s) /\ s.table = "lifecycle"
  BY <1>6, FakeLifecycle DEF Fake!Next
<1> QED
  BY <1>1, <1>2, <1>3, <1>4, <1>5, <1>6, ZenonT(30) DEF Applies

\* The rows change only as the contract fake would change them, one whole
\* operation at a time (internal/storage/fake, the operations of the adapter).
THEOREM RowsImplementFake == Spec => ImplementsFake
<1>1. Init => Fake!Init
  BY DEF Init, StoreInit, NoLifecycle, Fake!Init
<1>2. IInv /\ [Next]_vars => [Fake!Next]_(Fake!vars)
  <2> SUFFICES ASSUME IInv, [Next]_vars
               PROVE  Fake!Next \/ UNCHANGED Fake!vars
    OBVIOUS
  <2>1. CASE UNCHANGED tables
    BY <2>1 DEF tables, Fake!vars
  <2>2. CASE \E s : GoodStatement(s) /\ Execute(s)
    BY <2>2, FakeStatement
  <2> QED
    BY <2>1, <2>2, RowsChangeByStatements
<1> QED
  BY <1>1, <1>2, Invariance, PTL DEF Spec, ImplementsFake, Fake!Spec
=============================================================================
