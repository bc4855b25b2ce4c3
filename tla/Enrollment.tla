----------------------------- MODULE Enrollment -----------------------------
(***************************************************************************)
(* The durable half of enrollment (internal/gmail/enroll.go, complete,     *)
(* reconcile and verifyComplete), for one provider subject: create the     *)
(* account, stage the first cursor and the encrypted credential, then      *)
(* activate.  Any number of enrollments of the subject may overlap and a   *)
(* later one resumes where an interrupted one stopped.                     *)
(***************************************************************************)
EXTENDS AccountStore

VARIABLE issued  \* envelopes encrypted so far; each has a fresh random nonce

\* complete() has a refresh token and the subject and calls EnsureAccount.
StartEnroll(p) ==
    /\ pc[p] = "idle"
    /\ Call(p, "ensure", AccountInsert, "enroll.profile", [Idle EXCEPT !.op = "enroll"])
    /\ Reads /\ UNCHANGED issued

\* EnsureAccount failed, or the profile request does, or it gives a history.
EnrollProfile(p) ==
    /\ pc[p] = "enroll.profile"
    /\ \/ Finish(p, "recovery")
       \/ /\ loc[p].err = "nil"
          /\ Goto(p, "enroll.lifecycle")
          /\ \E h \in HistoryIDs : Set(p, [loc[p] EXCEPT !.history = h])
    /\ Reads /\ UNCHANGED issued

EnrollLifecycle(p) ==
    /\ pc[p] = "enroll.lifecycle"
    /\ IF lifecycle.state \in {"pending", "active"}
       THEN Goto(p, "enroll.cursor") /\ Set(p, [loc[p] EXCEPT !.lc = lifecycle])
       ELSE Finish(p, "recovery")
    /\ Reads /\ UNCHANGED issued

EnrollCursor(p) ==
    /\ pc[p] = "enroll.cursor"
    /\ Goto(p, "enroll.credential")
    /\ Set(p, [loc[p] EXCEPT !.found = (cursor # None)])
    /\ Reads /\ UNCHANGED issued

\* verifyComplete starts by asking EnsureAccount for the canonical account.
CallComplete(p) ==
    Call(p, "ensure", AccountInsert, "complete.cursor", [Idle EXCEPT !.op = "enroll"])

\* reconcile() after both reads: what is missing decides what comes next.
EnrollCredential(p) ==
    /\ pc[p] = "enroll.credential"
    /\ IF loc[p].found /\ credential # 0
       THEN CallComplete(p)
       ELSE IF loc[p].lc.state = "active"
       THEN Finish(p, "recovery")
       ELSE IF credential # 0
       THEN Goto(p, "enroll.again") /\ UNCHANGED loc
       ELSE IF loc[p].found
       THEN Goto(p, "enroll.encrypt") /\ UNCHANGED loc
       ELSE Call(p, "sync", CursorInsert(loc[p].history), "enroll.synced",
                 [loc[p] EXCEPT !.history = None])
    /\ Reads /\ UNCHANGED issued

\* A credential without a cursor is only believed if a cursor is there by now.
EnrollAgain(p) ==
    /\ pc[p] = "enroll.again"
    /\ IF cursor # None THEN CallComplete(p) ELSE Finish(p, "recovery")
    /\ Reads /\ UNCHANGED issued

\* An error of CommitSynchronization is forgiven if there is a cursor.
EnrollSynced(p) ==
    /\ pc[p] = "enroll.synced"
    /\ IF loc[p].err = "nil" \/ cursor # None
       THEN Goto(p, "enroll.encrypt") /\ UNCHANGED loc
       ELSE Finish(p, "recovery")
    /\ Reads /\ UNCHANGED issued

EnrollEncrypt(p) ==
    /\ pc[p] = "enroll.encrypt"
    /\ \/ Finish(p, "recovery") /\ UNCHANGED issued
       \/ /\ issued < MaxEnvelopes
          /\ issued' = issued + 1
          /\ Call(p, "cred", CredentialInsert(issued'), "enroll.stored", loc[p])
    /\ Reads

\* An error of CommitProviderCredential is forgiven if there is a credential.
EnrollStored(p) ==
    /\ pc[p] = "enroll.stored"
    /\ IF loc[p].err = "nil" \/ credential # 0
       THEN CallComplete(p)
       ELSE Finish(p, "recovery")
    /\ Reads /\ UNCHANGED issued

-----------------------------------------------------------------------------
(* verifyComplete *)

CompleteCursor(p) ==
    /\ pc[p] = "complete.cursor"
    /\ IF loc[p].err = "nil" /\ cursor # None
       THEN Goto(p, "complete.credential") /\ UNCHANGED loc
       ELSE Finish(p, "recovery")
    /\ Reads /\ UNCHANGED issued

\* The stored envelope must also decrypt, which it may not.
CompleteCredential(p) ==
    /\ pc[p] = "complete.credential"
    /\ \/ credential # 0 /\ Goto(p, "complete.lifecycle") /\ UNCHANGED loc
       \/ Finish(p, "recovery")
    /\ Reads /\ UNCHANGED issued

CompleteLifecycle(p) ==
    /\ pc[p] = "complete.lifecycle"
    /\ IF lifecycle.state = "pending"
       THEN Call(p, "commit", LifecycleUpdate(CommitFrom(lifecycle, "active", None, "none")),
                 "complete.done", loc[p])
       ELSE Finish(p, IF lifecycle.state = "active" THEN "enrolled" ELSE "recovery")
    /\ Reads /\ UNCHANGED issued

CompleteDone(p) ==
    /\ pc[p] = "complete.done"
    /\ Finish(p, IF loc[p].err = "nil" \/ MatchesCommit(lifecycle, loc[p].stmt.commit)
                 THEN "enrolled" ELSE "recovery")
    /\ Reads /\ UNCHANGED issued

EnrollReads ==
    {"enroll.lifecycle", "enroll.cursor", "enroll.credential", "enroll.again",
     "enroll.synced", "enroll.stored", "complete.cursor", "complete.credential",
     "complete.lifecycle", "complete.done"}

\* A read of the enrollment fails; commits that succeeded are not read back.
EnrollReadFails(p) ==
    /\ pc[p] \in EnrollReads
    /\ pc[p] \in {"enroll.synced", "enroll.stored", "complete.done"} => loc[p].err # "nil"
    /\ Fault
    /\ Finish(p, "recovery")
    /\ UNCHANGED <<tables, late, issued>>

EnrollStep(p) ==
    \/ EnrollProfile(p) \/ EnrollLifecycle(p) \/ EnrollCursor(p)
    \/ EnrollCredential(p) \/ EnrollAgain(p) \/ EnrollSynced(p)
    \/ EnrollEncrypt(p) \/ EnrollStored(p)
    \/ CompleteCursor(p) \/ CompleteCredential(p)
    \/ CompleteLifecycle(p) \/ CompleteDone(p)

EnrollInit == issued = 0
=============================================================================
