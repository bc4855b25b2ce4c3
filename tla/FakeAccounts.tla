---------------------------- MODULE FakeAccounts ----------------------------
(***************************************************************************)
(* The account operations of the contract fake (internal/storage/fake/     *)
(* fake.go), which stands for the database in the tests of everything      *)
(* above the storage handle: each operation is one step under its mutex    *)
(* and always reports what it did.  The rows of the database may change in *)
(* no other way (AccountSystem!ImplementsFake).                            *)
(***************************************************************************)
EXTENDS Integers

CONSTANTS
    None,
    Validate(_),    \* storage.ValidateLifecycleCommit
    Matches(_, _),  \* storage.LifecycleMatchesCommit
    New             \* the lifecycle of a new account

VARIABLES lifecycle, cursor, credential

vars == <<lifecycle, cursor, credential>>

Exists == lifecycle.state # "absent"

Init == lifecycle.state = "absent" /\ cursor = None /\ credential = 0

EnsureAccount ==
    /\ ~Exists
    /\ lifecycle' = New
    /\ UNCHANGED <<cursor, credential>>

CommitSynchronization(next) ==
    /\ Exists /\ cursor = None
    /\ cursor' = next
    /\ UNCHANGED <<lifecycle, credential>>

\* expected is 0 for an insertion.
CommitProviderCredential(expected, next) ==
    /\ Exists /\ lifecycle.state # "revoked"
    /\ credential # next /\ credential = expected
    /\ credential' = next
    /\ UNCHANGED <<lifecycle, cursor>>

CommitAccountLifecycle(c) ==
    /\ Exists /\ Validate(c) = "nil"
    /\ ~Matches(lifecycle, c)
    /\ lifecycle.state = c.expectedState /\ lifecycle.version = c.expectedVersion
    /\ lifecycle.revocation = c.expectedRevocation
    /\ c.nextState = "active" => cursor # None /\ credential # 0
    /\ lifecycle' = [state |-> c.nextState, version |-> lifecycle.version + 1,
                     reason |-> c.reason, revocation |-> c.revocation]
    /\ UNCHANGED <<cursor, credential>>

DeleteRevokedProviderCredential(expected) ==
    /\ lifecycle.state = "revoked"
    /\ credential # 0 /\ credential = expected
    /\ credential' = 0
    /\ UNCHANGED <<lifecycle, cursor>>

\* The commit of a caller who knows the row.
CommitTo(l) ==
    [expectedState |-> lifecycle.state, expectedVersion |-> lifecycle.version,
     expectedRevocation |-> lifecycle.revocation,
     nextState |-> l.state, reason |-> l.reason, revocation |-> l.revocation]

Next ==
    \/ EnsureAccount
    \/ CommitSynchronization(cursor')
    \/ CommitProviderCredential(credential, credential')
    \/ CommitAccountLifecycle(CommitTo(lifecycle'))
    \/ DeleteRevokedProviderCredential(credential)

Spec == Init /\ [][Next]_vars
=============================================================================
