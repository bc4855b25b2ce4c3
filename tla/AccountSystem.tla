--------------------------- MODULE AccountSystem ---------------------------
(***************************************************************************)
(* Operators' commands and enrollments of one account, running in separate *)
(* processes against one database: AccountManager and Enrollment composed  *)
(* over AccountStore.                                                      *)
(***************************************************************************)
EXTENDS AccountManager, Enrollment

vars == <<lifecycle, cursor, credential, late, faults, pc, loc, requests, grant, issued>>

Init == StoreInit /\ ManagerInit /\ EnrollInit

\* An operator or an OAuth callback starts one of the five operations.
Start(p) ==
    \/ /\ \/ \E op \in DOMAIN TransitionTo, reason \in Reasons \cup {None} :
                StartTransition(p, op, reason)
          \/ StartRevoke(p)
       /\ UNCHANGED issued
    \/ StartEnroll(p) /\ UNCHANGED providerVars

\* What p does next when nothing fails.
Step(p) ==
    \/ HandleStep(p) /\ UNCHANGED <<providerVars, issued>>
    \/ ManagerStep(p) /\ UNCHANGED issued
    \/ EnrollStep(p) /\ UNCHANGED providerVars

\* What can go wrong for p.
Fails(p) ==
    \/ (HandleReadFails(p) \/ ExecFails(p) \/ Crash(p)) /\ UNCHANGED <<providerVars, issued>>
    \/ ManagerReadFails(p) /\ UNCHANGED issued
    \/ EnrollReadFails(p) /\ UNCHANGED providerVars

Arrives == LateExecute /\ UNCHANGED <<providerVars, issued>>

Next == Arrives \/ \E p \in Procs : Start(p) \/ Step(p) \/ Fails(p)

Spec == Init /\ [][Next]_vars

\* A process that is running goes on, and each process is asked to Revoke again
\* and again: an uncertain outcome is left to "a fresh explicit invocation"
\* (docs/known-risks.md, TURSO-003).  Nothing is assumed of late statements.
Fairness ==
    \A p \in Procs :
        /\ WF_vars(Step(p))
        /\ SF_vars(StartRevoke(p) /\ UNCHANGED issued)
-----------------------------------------------------------------------------
(* Properties *)

Labels ==
    {"idle"} \cup HandleReads \cup ManagerReads \cup EnrollReads
        \cup {"revoke.provider", "enroll.profile", "enroll.encrypt"}

Results == {"none", "ok", "enrolled", "transition", "recovery", "confirmed", "manual"}

Locals ==
    [op : {"none", "revoke", "enroll"} \cup DOMAIN TransitionTo,
     ret : Labels, err : Errors, stmt : Statements, rows : {"unknown", "zero", "one"},
     found : BOOLEAN, lc : Lifecycle, cred : 0 .. MaxEnvelopes,
     history : HistoryIDs \cup {None}, reason : Reasons \cup {None},
     status : Revocations, result : Results]

\* The types of the rows, of the statements under way and of the locals.
TypeOK ==
    /\ lifecycle \in Lifecycle
    /\ cursor \in HistoryIDs \cup {None}
    /\ credential \in 0 .. MaxEnvelopes
    /\ late \subseteq Statements
    /\ faults \in 0 .. MaxFaults
    /\ pc \in [Procs -> Labels]
    /\ loc \in [Procs -> Locals]
    /\ requests \in Nat
    /\ grant \in {"live", "revoked"}
    /\ issued \in 0 .. MaxEnvelopes

\* The account's grant is offered to the provider for revocation at most once
\* over all processes, retries, lost acknowledgements and crashes: Revoke goes
\* on to revokeProvider only from a claim whose one-row update it saw.
AtMostOneProviderRequest == requests <= 1

\* No request leaves before the claim is durable: whenever one has been sent,
\* the row says attempting or final, so a restart can see that it happened.
RequestIsRestartVisible ==
    requests > 0 => lifecycle.revocation \in {"attempting"} \cup Final

\* A row that says confirmed is true of the provider: another process that
\* closed the claim as manual cannot be overtaken by a stale outcome.
ConfirmedIsTrue == lifecycle.revocation = "confirmed" => grant = "revoked"

\* A revocation that has begun never runs out of versions: Revoke reserves
\* the increments it still needs before it writes the intent.
RevocationKeepsItsBudget ==
    lifecycle.state = "revoked" =>
        \/ lifecycle.revocation \in Final
        \/ HasVersionBudget(lifecycle)

\* Once activated and until revoked, the account has its cursor and its
\* credential, however enrollments, pauses and late statements interleave.
ActivatedIsComplete ==
    lifecycle.state \in {"active", "paused", "reauthorization_required"} =>
        cursor # None /\ credential # 0

\* What Revoke reported stays true: the row holds the reported outcome and no
\* credential is left, nor can one come back.
ReportedOutcomeIsDurable ==
    \A p \in Procs :
        /\ loc[p].result = "confirmed" =>
               lifecycle.revocation = "confirmed" /\ credential = 0
        /\ loc[p].result = "manual" =>
               lifecycle.revocation = "manual_action_required" /\ credential = 0

\* An enrollment that reported success has been activated, by itself or by
\* another one, and is never pending again.
EnrolledWasActivated ==
    \A p \in Procs :
        loc[p].result = "enrolled" =>
            lifecycle.state \notin {"absent", "pending"}

\* A revocation asks the provider once, cannot forget that it asked, and can
\* always be finished, however many processes take part in it (Revoke).
RevocationIsSound ==
    AtMostOneProviderRequest /\ RequestIsRestartVisible /\ RevocationKeepsItsBudget

\* What the row says and what Revoke and the enrollment reported is so, and
\* stays so: of the provider, of the credential and of the activation.
ReportsAreTrue ==
    ConfirmedIsTrue /\ ReportedOutcomeIsDurable /\ ActivatedIsComplete /\ EnrolledWasActivated

\* Each change of the row is one edge of the lifecycle graph and adds one to
\* the version; nothing leaves revoked and nothing leaves a final outcome.
LifecycleFollowsGraph ==
    [][lifecycle' # lifecycle =>
          /\ lifecycle'.version = lifecycle.version + 1
          /\ \/ lifecycle.state = "absent" /\ lifecycle'.state = "pending"
             \/ ValidTransition(lifecycle.state, lifecycle.revocation,
                                lifecycle'.state, lifecycle'.revocation)]_vars

\* The first credential and the first cursor stay: no enrollment replaces
\* them.  The credential goes only when the row holds a final outcome, so it
\* is there for as long as it could be needed to revoke the grant.
CredentialOutlivesRevocation ==
    [][/\ cursor # None => cursor' = cursor
       /\ credential # 0 /\ credential' # credential =>
              credential' = 0 /\ lifecycle.revocation \in Final
       /\ credential = 0 /\ credential' # 0 => lifecycle.state # "revoked"]_vars

\* The rows change only as the contract fake would change them, one whole
\* operation at a time: lost acknowledgements, late statements and crashes
\* never show (internal/storage/fake).
Fake ==
    INSTANCE FakeAccounts
        WITH Validate <- ValidateLifecycleCommit, Matches <- MatchesCommit,
             New <- NewLifecycle

ImplementsFake == Fake!Spec

\* A revocation whose intent is durable is finished, and its credential gone,
\* once faults stop: every state Revoke can be interrupted in is one from
\* which a later Revoke completes.
RevocationFinishes ==
    lifecycle.state = "revoked" ~> lifecycle.revocation \in Final /\ credential = 0
=============================================================================
