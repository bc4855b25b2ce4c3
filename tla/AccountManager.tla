--------------------------- MODULE AccountManager ---------------------------
(***************************************************************************)
(* The account Manager (internal/account/lifecycle.go): pause, resume,     *)
(* reauthorization marking and the staged revocation of the provider       *)
(* grant.  Callers are separate processes, so revocationMu, which orders   *)
(* the callers of one Manager only, never helps them.                      *)
(***************************************************************************)
EXTENDS AccountStore

VARIABLES
    requests,  \* revocation requests sent to the provider
    grant      \* the grant behind the credential at the provider: "live", "revoked"

providerVars == <<requests, grant>>

\* One bounded transition(): the state it needs and the state it sets.
TransitionFrom == [pause |-> "active", resume |-> "paused", reauth |-> "active"]
TransitionTo ==
    [pause |-> "paused", resume |-> "active", reauth |-> "reauthorization_required"]

\* Pause, Resume or MarkReauthorizationRequired is called.
StartTransition(p, op, reason) ==
    /\ pc[p] = "idle"
    /\ (op = "reauth") <=> (reason # None)
    /\ Goto(p, "transition")
    /\ Set(p, [Idle EXCEPT !.op = op, !.reason = reason])
    /\ Reads /\ UNCHANGED providerVars

TransitionCommit(p, l) ==
    CommitFrom(l, TransitionTo[loc[p].op], loc[p].reason, "none")

Transition(p) ==
    /\ pc[p] = "transition"
    /\ LET op == loc[p].op
       IN  IF lifecycle.state = TransitionTo[op]
           THEN Finish(p, IF lifecycle.reason = loc[p].reason THEN "ok" ELSE "transition")
           ELSE IF lifecycle.state # TransitionFrom[op]
           THEN Finish(p, "transition")
           ELSE Call(p, "commit", LifecycleUpdate(TransitionCommit(p, lifecycle)),
                     "transition.done", loc[p])
    /\ Reads /\ UNCHANGED providerVars

TransitionDone(p) ==
    /\ pc[p] = "transition.done"
    /\ Finish(p, IF loc[p].err = "nil" \/ MatchesCommit(lifecycle, loc[p].stmt.commit)
                 THEN "ok" ELSE "transition")
    /\ Reads /\ UNCHANGED providerVars

-----------------------------------------------------------------------------
(* Revoke *)

StartRevoke(p) ==
    /\ pc[p] = "idle"
    /\ Goto(p, "revoke")
    /\ Set(p, [Idle EXCEPT !.op = "revoke"])
    /\ Reads /\ UNCHANGED providerVars

\* Lifecycle increments a revocation of l still needs.
RemainingTransitions(l) ==
    IF l.state # "revoked" THEN 3 ELSE IF l.revocation = "pending" THEN 2 ELSE 1

HasVersionBudget(l) == l.version <= MaxVersion - RemainingTransitions(l)

\* Claim the revocation of the pending lifecycle l.
CallClaim(p, l) ==
    Call(p, "commit", LifecycleUpdate(CommitFrom(l, "revoked", None, "attempting")),
         "revoke.claimed", [loc[p] EXCEPT !.lc = l])

Revoke(p) ==
    /\ pc[p] = "revoke"
    /\ IF lifecycle.state = "absent"
       THEN Finish(p, "transition")
       ELSE IF lifecycle.revocation \in Final
       THEN /\ Goto(p, "reconcile")
            /\ Set(p, [loc[p] EXCEPT !.lc = lifecycle, !.status = lifecycle.revocation])
       ELSE IF ~HasVersionBudget(lifecycle)
       THEN Finish(p, "recovery")
       ELSE IF lifecycle.state # "revoked"
       THEN Call(p, "commit", LifecycleUpdate(CommitFrom(lifecycle, "revoked", None, "pending")),
                 "revoke.intent", loc[p])
       ELSE IF lifecycle.revocation = "attempting"
       THEN Goto(p, "unclaimed") /\ Set(p, [loc[p] EXCEPT !.lc = lifecycle])
       ELSE CallClaim(p, lifecycle)
    /\ Reads /\ UNCHANGED providerVars

\* The intent must be read back; after an error it is read back twice.
RevokeIntent(p) ==
    /\ pc[p] = "revoke.intent"
    /\ IF ~MatchesCommit(lifecycle, loc[p].stmt.commit)
       THEN Finish(p, "recovery")
       ELSE IF loc[p].err # "nil"
       THEN Set(p, [loc[p] EXCEPT !.err = "nil"]) /\ UNCHANGED pc
       ELSE CallClaim(p, lifecycle)
    /\ Reads /\ UNCHANGED providerVars

\* Any error of the claim ends the call; a clean claim is read back.
RevokeClaimed(p) ==
    /\ pc[p] = "revoke.claimed"
    /\ IF /\ loc[p].err = "nil"
          /\ MatchesCommit(lifecycle, loc[p].stmt.commit)
          /\ lifecycle.version = loc[p].lc.version + 1
       THEN Goto(p, "revoke.credential") /\ Set(p, [loc[p] EXCEPT !.lc = lifecycle])
       ELSE Finish(p, "recovery")
    /\ Reads /\ UNCHANGED providerVars

\* Continue at finalizeAttempt with the given revocation outcome.
CallFinalize(p, status, locals) ==
    Call(p, "commit", LifecycleUpdate(CommitFrom(locals.lc, "revoked", None, status)),
         "finalize", [locals EXCEPT !.status = status])

RevokeCredential(p) ==
    /\ pc[p] = "revoke.credential"
    /\ IF credential = 0
       THEN CallFinalize(p, "manual_action_required", loc[p])
       ELSE Goto(p, "revoke.provider") /\ Set(p, [loc[p] EXCEPT !.cred = credential])
    /\ Reads /\ UNCHANGED providerVars

\* The keyring does not resolve or the envelope does not decrypt: no request.
RevokeUndecryptable(p) ==
    /\ pc[p] = "revoke.provider"
    /\ CallFinalize(p, "manual_action_required", loc[p])
    /\ Reads /\ UNCHANGED providerVars

\* revokeProvider: one POST.  The provider may act on it and the answer may
\* still be lost; only an HTTP 200 that arrives counts as confirmed.
RevokeProvider(p) ==
    /\ pc[p] = "revoke.provider"
    /\ requests' = requests + 1
    /\ \/ grant' = "revoked" /\ CallFinalize(p, "confirmed", loc[p])
       \/ grant' \in {grant, "revoked"} /\ CallFinalize(p, "manual_action_required", loc[p])
    /\ Reads

\* finalizeWithoutProvider: someone else's claim is closed as manual.
RevokeUnclaimed(p) ==
    /\ pc[p] = "unclaimed"
    /\ CallFinalize(p, "manual_action_required", [loc[p] EXCEPT !.cred = credential])
    /\ Reads /\ UNCHANGED providerVars

Outcome(status) == IF status = "confirmed" THEN "confirmed" ELSE "manual"

\* Delete the credential that was read, if any, then report the outcome.
CallDelete(p, envelope) ==
    Call(p, "delete", CredentialDelete(envelope), "deleted", loc[p])

\* Mutant of Finalize: the credential is deleted even when there was none.
FinalizeDeletesAlways(p) ==
    /\ pc[p] = "finalize"
    /\ IF loc[p].err # "nil" /\ ~MatchesCommit(lifecycle, loc[p].stmt.commit)
       THEN Finish(p, "recovery")
       ELSE CallDelete(p, loc[p].cred)
    /\ Reads /\ UNCHANGED providerVars

Finalize(p) ==
    /\ pc[p] = "finalize"
    /\ IF loc[p].err # "nil" /\ ~MatchesCommit(lifecycle, loc[p].stmt.commit)
       THEN Finish(p, "recovery")
       ELSE IF loc[p].cred # 0
       THEN CallDelete(p, loc[p].cred)
       ELSE Finish(p, Outcome(loc[p].status))
    /\ Reads /\ UNCHANGED providerVars

\* Mutant of Reconcile: a final row is reported as it is.
ReconcileNothing(p) ==
    /\ pc[p] = "reconcile"
    /\ Finish(p, Outcome(loc[p].status))
    /\ Reads /\ UNCHANGED providerVars

\* reconcileFinalized: a finished revocation only deletes what is left.
Reconcile(p) ==
    /\ pc[p] = "reconcile"
    /\ IF credential # 0
       THEN CallDelete(p, credential)
       ELSE Finish(p, Outcome(loc[p].status))
    /\ Reads /\ UNCHANGED providerVars

\* Mutant of Deleted: an error of the deletion is forgiven.
DeletedUnseen(p) ==
    /\ pc[p] = "deleted"
    /\ Finish(p, Outcome(loc[p].status))
    /\ Reads /\ UNCHANGED providerVars

\* deleteCredential: with or without an error, only absence is success.
Deleted(p) ==
    /\ pc[p] = "deleted"
    /\ Finish(p, IF credential = 0 THEN Outcome(loc[p].status) ELSE "recovery")
    /\ Reads /\ UNCHANGED providerVars

-----------------------------------------------------------------------------
ManagerReads ==
    {"transition", "transition.done", "revoke", "revoke.intent", "revoke.claimed",
     "revoke.credential", "unclaimed", "finalize", "reconcile", "deleted"}

\* A read of the manager fails.  A commit that returned without error is not
\* read back by transition() and finalizeAttempt().
ManagerReadFails(p) ==
    /\ pc[p] \in ManagerReads
    /\ pc[p] \in {"transition.done", "finalize"} => loc[p].err # "nil"
    /\ Fault
    /\ Finish(p, "recovery")
    /\ UNCHANGED <<tables, late>> /\ UNCHANGED providerVars

RevokeStep(p) ==
    \/ Revoke(p) \/ RevokeIntent(p) \/ RevokeClaimed(p) \/ RevokeCredential(p)
    \/ RevokeUndecryptable(p) \/ RevokeProvider(p) \/ RevokeUnclaimed(p)
    \/ Finalize(p) \/ Reconcile(p) \/ Deleted(p)

ManagerStep(p) == Transition(p) \/ TransitionDone(p) \/ RevokeStep(p)

ManagerInit == requests = 0 /\ grant = "live"
=============================================================================
