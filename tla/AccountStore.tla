---------------------------- MODULE AccountStore ----------------------------
(***************************************************************************)
(* The rows of one account (internal/storage/lifecycle.go, migrations      *)
(* 0002-0004) and the storage handle's operations on them                  *)
(* (internal/storage/turso/{account,credential,lifecycle}.go).             *)
(*                                                                         *)
(* Every mutation of the handle is one SQL statement that the database     *)
(* runs atomically, preceded by inspections and followed by a verifying    *)
(* inspection on another connection.  A caller and the statement it sent   *)
(* can part company: the acknowledgement is lost, or the deadline passes   *)
(* while the statement is still on its way.  Such a statement is in late   *)
(* and runs at any later moment, or never.                                 *)
(***************************************************************************)
EXTENDS Integers

CONSTANTS
    Procs,         \* operator processes, each with a handle of its own
    HistoryIDs,    \* Gmail history identifiers a profile read can return
    Reasons,       \* reauthorization reasons
    None,          \* SQL NULL / Go nil
    MaxVersion,    \* stands for math.MaxInt64, the largest state_version
    MaxEnvelopes,  \* bound: credential envelopes ever encrypted
    MaxFaults      \* bound: failed reads, lost acknowledgements and crashes

ASSUME AccountConstants ==
    /\ None \notin HistoryIDs
    /\ None \notin Reasons
    /\ MaxVersion \in Nat \ {0}
    /\ MaxEnvelopes \in Nat
    /\ MaxFaults \in Nat

VARIABLES
    lifecycle,   \* the inboxgate_account_lifecycle row, or NoLifecycle
    cursor,      \* the inboxgate_synchronization_cursors row, or None
    credential,  \* the inboxgate_provider_credentials envelope, 0 if absent
    late,        \* statements sent whose sender no longer waits for them
    faults,      \* faults so far
    pc,          \* per process: the next step
    loc          \* per process: its local variables

tables == <<lifecycle, cursor, credential>>
storeVars == <<lifecycle, cursor, credential, late, faults, pc, loc>>

-----------------------------------------------------------------------------
(* internal/storage/lifecycle.go *)

States == {"pending", "active", "paused", "reauthorization_required", "revoked"}
Revocations == {"none", "pending", "attempting", "confirmed", "manual_action_required"}
Final == {"confirmed", "manual_action_required"}

\* The account row and its lifecycle row appear together (migration 0004's
\* trigger), so the absence of one stands for the absence of both.
NoLifecycle ==
    [state |-> "absent", version |-> 0, reason |-> None, revocation |-> "none"]

\* The row migration 0004's trigger adds for a new account.
NewLifecycle ==
    [state |-> "pending", version |-> 1, reason |-> None, revocation |-> "none"]

Lifecycle ==
    [state : States \cup {"absent"}, version : 0 .. MaxVersion,
     reason : Reasons \cup {None}, revocation : Revocations]

LifecycleCommit ==
    [expectedState : States \cup {"absent"}, expectedVersion : 0 .. MaxVersion,
     expectedRevocation : Revocations, nextState : States,
     reason : Reasons \cup {None}, revocation : Revocations]

\* The commit that moves the lifecycle l, as read, to a next state.
CommitFrom(l, next, reason, revocation) ==
    [expectedState |-> l.state, expectedVersion |-> l.version,
     expectedRevocation |-> l.revocation, nextState |-> next,
     reason |-> reason, revocation |-> revocation]

ValidExpectedShape(state, revocation) == (state = "revoked") <=> (revocation # "none")

ValidShape(state, reason, revocation) ==
    /\ (state = "reauthorization_required") <=> (reason # None)
    /\ (state = "revoked") <=> (revocation # "none")

ValidTransition(from, fromRevocation, to, revocation) ==
    \/ /\ from # "revoked" /\ from \in States
       /\ fromRevocation = "none"
       /\ \/ to = "revoked" /\ revocation = "pending"
          \/ from \in {"pending", "paused"} /\ to = "active"
          \/ from = "active" /\ to \in {"paused", "reauthorization_required"}
    \/ /\ from = "revoked" /\ to = "revoked"
       /\ \/ fromRevocation = "pending" /\ revocation = "attempting"
          \/ fromRevocation = "attempting" /\ revocation \in Final

\* "nil" or the error ValidateLifecycleCommit returns.
ValidateLifecycleCommit(c) ==
    IF c.expectedVersion = MaxVersion THEN "overflow"
    ELSE IF /\ ValidExpectedShape(c.expectedState, c.expectedRevocation)
            /\ ValidShape(c.nextState, c.reason, c.revocation)
            /\ ValidTransition(c.expectedState, c.expectedRevocation, c.nextState, c.revocation)
         THEN "nil"
         ELSE "conflict"

\* The version is not compared: an equal state reached another way matches.
MatchesCommit(l, c) ==
    /\ l.state = c.nextState
    /\ l.revocation = c.revocation
    /\ l.reason = c.reason

IsRevocationClaim(c) ==
    /\ c.expectedState = "revoked" /\ c.expectedRevocation = "pending"
    /\ c.nextState = "revoked" /\ c.revocation = "attempting"

-----------------------------------------------------------------------------
(* The SQL statements.  Applies(s): statement s would change a row;        *)
(* Execute(s): the database runs s.                                        *)

AccountInsert == [table |-> "account"]
CursorInsert(h) == [table |-> "cursor", next |-> h]
CredentialInsert(e) == [table |-> "credential", next |-> e]
CredentialDelete(e) == [table |-> "delete", expected |-> e]
LifecycleUpdate(c) == [table |-> "lifecycle", commit |-> c]

Statements ==
    {AccountInsert}
        \cup {CursorInsert(h) : h \in HistoryIDs}
        \cup {CredentialInsert(e) : e \in 1 .. MaxEnvelopes}
        \cup {CredentialDelete(e) : e \in 1 .. MaxEnvelopes}
        \cup {LifecycleUpdate(c) : c \in LifecycleCommit}

Exists == lifecycle.state # "absent"

LifecycleUpdateApplies(c) ==
    /\ lifecycle.state = c.expectedState
    /\ lifecycle.version = c.expectedVersion
    /\ lifecycle.revocation = c.expectedRevocation
    /\ lifecycle.version < MaxVersion
    /\ c.nextState = "active" => cursor # None /\ credential # 0

\* Mutant of CredentialInsertApplies: a revoked account still takes one.
InsertWhenRevoked(e) ==
    /\ Exists
    /\ credential = 0

\* Mutant of CredentialInsertApplies: a credential that is there is replaced.
InsertOverAny(e) ==
    /\ Exists
    /\ lifecycle.state # "revoked"

CredentialInsertApplies(e) ==
    /\ Exists
    /\ lifecycle.state # "revoked"
    /\ credential = 0

CredentialDeleteApplies(e) ==
    /\ credential = e
    /\ lifecycle.state = "revoked"

Applies(s) ==
    \/ s.table = "account" /\ ~Exists
    \/ s.table = "cursor" /\ Exists /\ cursor = None
    \/ s.table = "credential" /\ CredentialInsertApplies(s.next)
    \/ s.table = "delete" /\ CredentialDeleteApplies(s.expected)
    \/ s.table = "lifecycle" /\ LifecycleUpdateApplies(s.commit)

Execute(s) ==
    \/ ~Applies(s) /\ UNCHANGED tables
    \/ /\ Applies(s) /\ s.table = "account"
       /\ lifecycle' = NewLifecycle
       /\ UNCHANGED <<cursor, credential>>
    \/ /\ Applies(s) /\ s.table = "cursor"
       /\ cursor' = s.next
       /\ UNCHANGED <<lifecycle, credential>>
    \/ /\ Applies(s) /\ s.table = "credential"
       /\ credential' = s.next
       /\ UNCHANGED <<lifecycle, cursor>>
    \/ /\ Applies(s) /\ s.table = "delete"
       /\ credential' = 0
       /\ UNCHANGED <<lifecycle, cursor>>
    \/ /\ Applies(s) /\ s.table = "lifecycle"
       /\ lifecycle' = [state |-> s.commit.nextState, version |-> lifecycle.version + 1,
                        reason |-> s.commit.reason, revocation |-> s.commit.revocation]
       /\ UNCHANGED <<cursor, credential>>
-----------------------------------------------------------------------------
(* The handle's operations, as procedures of the calling process: they      *)
(* start at one of HandleLabels and end by Return, at label loc[p].ret with *)
(* the error in loc[p].err.                                                 *)

Errors == {"nil", "overflow", "conflict", "incomplete", "inspect", "unknown"}

Idle ==
    [op |-> "none", ret |-> "idle", err |-> "nil", stmt |-> AccountInsert,
     rows |-> "unknown", found |-> FALSE, lc |-> NoLifecycle, cred |-> 0,
     history |-> None, reason |-> None, status |-> "none", result |-> "none"]

Goto(p, label) == pc' = [pc EXCEPT ![p] = label]

Set(p, locals) == loc' = [loc EXCEPT ![p] = locals]

Return(p, error) ==
    /\ Goto(p, loc[p].ret)
    /\ Set(p, [loc[p] EXCEPT !.err = error, !.ret = "idle", !.rows = "unknown", !.found = FALSE])

\* A caller's operation ends with the given result.
Finish(p, result) ==
    /\ Goto(p, "idle")
    /\ Set(p, [Idle EXCEPT !.result = result])

\* Call the operation at label for statement s, to come back at label ret.
Call(p, label, s, ret, locals) ==
    /\ Goto(p, label)
    /\ Set(p, [locals EXCEPT !.stmt = s, !.ret = ret, !.err = "nil"])

Reads == UNCHANGED <<lifecycle, cursor, credential, late, faults>>

Fault == faults < MaxFaults /\ faults' = faults + 1

\* EnsureAccount, up to its insertion.
EnsureInspect(p) ==
    /\ pc[p] = "ensure"
    /\ IF Exists THEN Return(p, "nil") ELSE Goto(p, "exec") /\ UNCHANGED loc
    /\ Reads

\* CommitSynchronization, up to its insertion.
SyncInspect(p) ==
    /\ pc[p] = "sync"
    /\ IF Exists /\ cursor = None
       THEN Goto(p, "exec") /\ UNCHANGED loc
       ELSE Return(p, "conflict")
    /\ Reads

\* CommitProviderCredential's two inspections (its Expected is always nil).
CredInspectLifecycle(p) ==
    /\ pc[p] = "cred"
    /\ IF Exists /\ lifecycle.state # "revoked"
       THEN Goto(p, "cred.existing") /\ UNCHANGED loc
       ELSE Return(p, "conflict")
    /\ Reads

CredInspectExisting(p) ==
    /\ pc[p] = "cred.existing"
    /\ IF credential = 0
       THEN Goto(p, "exec") /\ UNCHANGED loc
       ELSE Return(p, IF credential = loc[p].stmt.next THEN "nil" ELSE "conflict")
    /\ Reads

\* DeleteRevokedProviderCredential's two inspections.
DeleteInspectLifecycle(p) ==
    /\ pc[p] = "delete"
    /\ IF lifecycle.state = "revoked"
       THEN Goto(p, "delete.existing") /\ UNCHANGED loc
       ELSE Return(p, "conflict")
    /\ Reads

DeleteInspectExisting(p) ==
    /\ pc[p] = "delete.existing"
    /\ IF credential = loc[p].stmt.expected
       THEN Goto(p, "exec") /\ UNCHANGED loc
       ELSE Return(p, IF credential = 0 THEN "nil" ELSE "conflict")
    /\ Reads

\* CommitAccountLifecycle up to its update: the error it returns, or "proceed".
CommitDecision(c) ==
    IF ValidateLifecycleCommit(c) # "nil" THEN ValidateLifecycleCommit(c)
    ELSE IF MatchesCommit(lifecycle, c)
    THEN IF IsRevocationClaim(c) THEN "conflict" ELSE "nil"
    ELSE IF \/ lifecycle.state # c.expectedState
            \/ lifecycle.version # c.expectedVersion
            \/ lifecycle.revocation # c.expectedRevocation
    THEN "conflict"
    ELSE "proceed"

CommitInspect(p) ==
    /\ pc[p] = "commit"
    /\ LET c == loc[p].stmt.commit
       IN  IF CommitDecision(c) = "proceed"
           THEN /\ Goto(p, IF c.nextState = "active" THEN "commit.cursor" ELSE "exec")
                /\ UNCHANGED loc
           ELSE Return(p, CommitDecision(c))
    /\ Reads

\* An activation also inspects the cursor and then the credential.
CommitInspectCursor(p) ==
    /\ pc[p] = "commit.cursor"
    /\ Goto(p, "commit.credential")
    /\ Set(p, [loc[p] EXCEPT !.found = (cursor # None)])
    /\ Reads

CommitInspectCredential(p) ==
    /\ pc[p] = "commit.credential"
    /\ IF loc[p].found /\ credential # 0
       THEN Goto(p, "exec") /\ UNCHANGED loc
       ELSE Return(p, "incomplete")
    /\ Reads

\* ExecContext: the statement runs and its row count is acknowledged ...
ExecAcknowledged(p) ==
    /\ pc[p] = "exec"
    /\ Execute(loc[p].stmt)
    /\ Goto(p, "verify")
    /\ Set(p, [loc[p] EXCEPT !.rows = IF Applies(loc[p].stmt) THEN "one" ELSE "zero"])
    /\ UNCHANGED <<late, faults>>

\* ... or ExecContext fails and says nothing about the statement.
ExecFails(p) ==
    /\ pc[p] = "exec"
    /\ Fault
    /\ late' = late \cup {loc[p].stmt}
    /\ Goto(p, "verify")
    /\ Set(p, [loc[p] EXCEPT !.rows = "unknown"])
    /\ UNCHANGED tables

\* Mutant of VerifyLifecycle: a claim seen durable is taken for one's own.
VerifyAnyClaim(c, rows) ==
    IF MatchesCommit(lifecycle, c) /\ lifecycle.version = c.expectedVersion + 1
    THEN "nil" ELSE "unknown"

\* What the verifying inspection makes of a lifecycle commit.
VerifyLifecycle(c, rows) ==
    LET success == MatchesCommit(lifecycle, c) /\ lifecycle.version = c.expectedVersion + 1
    IN  IF success /\ IsRevocationClaim(c) /\ rows # "one"
        THEN IF rows = "zero" THEN "conflict" ELSE "unknown"
        ELSE IF success THEN "nil" ELSE "unknown"

\* The error the verifying inspection leads to: what s asked for is there or not.
Verified(s, rows) ==
    IF s.table = "lifecycle"
    THEN VerifyLifecycle(s.commit, rows)
    ELSE IF \/ s.table = "account" /\ Exists
            \/ s.table = "cursor" /\ cursor = s.next
            \/ s.table = "credential" /\ credential = s.next
            \/ s.table = "delete" /\ credential = 0
    THEN "nil"
    ELSE "unknown"

\* A credential commit that is not found durable looks at the lifecycle again.
Verify(p) ==
    /\ pc[p] = "verify"
    /\ LET error == Verified(loc[p].stmt, loc[p].rows)
       IN  IF loc[p].stmt.table = "credential" /\ error # "nil"
           THEN Goto(p, "cred.recheck") /\ UNCHANGED loc
           ELSE Return(p, error)
    /\ Reads

CredRecheck(p) ==
    /\ pc[p] = "cred.recheck"
    /\ Return(p, IF lifecycle.state = "revoked" THEN "conflict" ELSE "unknown")
    /\ Reads

\* The labels of the handle that read the database or take a connection for
\* the statement.
HandleReads ==
    {"exec", "ensure", "sync", "cred", "cred.existing", "delete", "delete.existing",
     "commit", "commit.cursor", "commit.credential", "verify", "cred.recheck"}

\* An inspection fails (its connection, its query or its deadline), or no
\* connection is to be had for the statement, which is then not sent.
HandleReadFails(p) ==
    /\ pc[p] \in HandleReads
    /\ Fault
    /\ IF pc[p] = "verify" /\ loc[p].stmt.table = "credential"
       THEN Goto(p, "cred.recheck") /\ UNCHANGED loc
       ELSE Return(p, IF pc[p] \in {"verify", "cred.recheck"} THEN "unknown" ELSE "inspect")
    /\ UNCHANGED <<tables, late>>

\* The process dies; what it had sent may still arrive.
Crash(p) ==
    /\ pc[p] # "idle"
    /\ Fault
    /\ Finish(p, "none")
    /\ UNCHANGED <<tables, late>>

\* A statement nobody waits for reaches the database.
LateExecute ==
    /\ \E s \in late : Execute(s) /\ late' = late \ {s}
    /\ UNCHANGED <<faults, pc, loc>>

HandleStep(p) ==
    \/ EnsureInspect(p) \/ SyncInspect(p)
    \/ CredInspectLifecycle(p) \/ CredInspectExisting(p)
    \/ DeleteInspectLifecycle(p) \/ DeleteInspectExisting(p)
    \/ CommitInspect(p) \/ CommitInspectCursor(p) \/ CommitInspectCredential(p)
    \/ ExecAcknowledged(p) \/ Verify(p) \/ CredRecheck(p)

StoreInit ==
    /\ lifecycle = NoLifecycle
    /\ cursor = None
    /\ credential = 0
    /\ late = {}
    /\ faults = 0
    /\ pc = [p \in Procs |-> "idle"]
    /\ loc = [p \in Procs |-> Idle]
=============================================================================
