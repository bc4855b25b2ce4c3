----------------------------- MODULE Discovery -----------------------------
(***************************************************************************)
(* CurrentDiscovery.Discover (internal/gmail/current_discovery.go) over    *)
(* the storage handle of DiscoveryStore, run by any number of processes on *)
(* one enrolled account while the mailbox and the account's lifecycle      *)
(* change around it.                                                       *)
(***************************************************************************)
EXTENDS DiscoveryStore

VARIABLES
    log,       \* the mailbox's history: the message each history id adds
    vanished   \* messages deleted from the mailbox

mailbox == <<log, vanished>>

vars == <<lifecycle, cursor, messages, attempt, staging, late, faults, pc, loc, log, vanished>>

AddedBetween(from, to) == {log[h] : h \in {i \in 1 .. Len(log) : from < i /\ i <= to}}

-----------------------------------------------------------------------------
(* The mailbox, and the account's lifecycle as other operations change it. *)

NewMail(m) ==
    /\ Len(log) < MaxHistory
    /\ log' = Append(log, m)
    /\ UNCHANGED <<rows, late, faults, pc, loc, vanished>>

Vanish(m) ==
    /\ m \in AddedBetween(0, Len(log)) \ vanished
    /\ vanished' = vanished \cup {m}
    /\ UNCHANGED <<rows, late, faults, pc, loc, log>>

Transitions ==
    [active |-> {"paused", "reauthorization_required", "revoked"},
     paused |-> {"active", "revoked"},
     reauthorization_required |-> {"revoked"},
     revoked |-> {}]

\* CommitAccountLifecycle by someone else; a revocation also removes the
\* attempt and its rows (trigger of migration 0005).
LifecycleTo(s) ==
    /\ s \in Transitions[lifecycle.state]
    /\ lifecycle.version < MaxVersion
    /\ lifecycle' = [state |-> s, version |-> lifecycle.version + 1]
    /\ attempt' = IF s = "revoked" THEN NoAttempt ELSE attempt
    /\ staging' = IF s = "revoked" THEN NoRows ELSE staging
    /\ UNCHANGED <<cursor, messages>>

ChangeLifecycle(s) == LifecycleTo(s) /\ UNCHANGED <<late, faults, pc, loc, mailbox>>

-----------------------------------------------------------------------------
(* Discover. *)

Discover(p) ==
    /\ pc[p] = "idle"
    /\ StartReconcile(p, "discover.reconciled", Idle)
    /\ Reads

DiscoverReconciled(p) ==
    /\ pc[p] = "discover.reconciled"
    /\ IF loc[p].err # "nil" THEN Finish(p)
       ELSE Goto(p, "discover.lifecycle", Idle)
    /\ Reads

DiscoverLifecycle(p) ==
    /\ pc[p] = "discover.lifecycle"
    /\ IF Active THEN Goto(p, "discover.cursor", [Idle EXCEPT !.seen = lifecycle])
       ELSE Finish(p)
    /\ Reads

\* The cursor the discovery starts from; the credential reads that follow
\* it change nothing here.
DiscoverCursor(p) ==
    /\ pc[p] = "discover.cursor"
    /\ Goto(p, "discover.verify",
            [loc[p] EXCEPT !.commit = [expected |-> cursor, next |-> cursor, msgs |-> NoRows]])
    /\ Reads

DiscoverVerify(p) ==
    /\ pc[p] = "discover.verify"
    /\ IF lifecycle = loc[p].seen THEN Goto(p, "discover.history", loc[p]) ELSE Finish(p)
    /\ Reads

\* readHistory: the last page's history id is the next cursor.
DiscoverHistory(p) ==
    /\ pc[p] = "discover.history"
    /\ IF Len(log) = loc[p].commit.expected THEN Finish(p)
       ELSE Goto(p, "discover.messages", [loc[p] EXCEPT !.commit.next = Len(log)])
    /\ Reads

\* A read of all the messages M in id order; each read returns some version.
Read(M) ==
    {q \in UNION {[1 .. n -> [id : M, body : Versions]] : n \in 0 .. MaxHistory} :
        /\ {q[i].id : i \in DOMAIN q} = M
        /\ \A i, j \in DOMAIN q : i < j => q[i].id < q[j].id}

\* Mutant of DiscoverMessages: a failed read counts as a vanished message.
SkipUnread(p) ==
    /\ pc[p] = "discover.messages"
    /\ LET c == loc[p].commit IN
       \E M \in SUBSET (AddedBetween(c.expected, c.next) \ vanished) : \E q \in Read(M) :
          StartCommit(p, "discover.committed",
                      [loc[p] EXCEPT !.commit.msgs = q, !.seen = None])
    /\ Reads

\* readMessage for each identity, a vanished one being left out.
DiscoverMessages(p) ==
    /\ pc[p] = "discover.messages"
    /\ LET c == loc[p].commit IN
       \E q \in Read(AddedBetween(c.expected, c.next) \ vanished) :
          StartCommit(p, "discover.committed",
                      [loc[p] EXCEPT !.commit.msgs = q, !.seen = None])
    /\ Reads

DiscoverCommitted(p) ==
    /\ pc[p] = "discover.committed"
    /\ Finish(p)
    /\ Reads

\* The provider refuses the credential: markReauthorization.
ProviderRefuses(p) ==
    /\ pc[p] \in {"discover.history", "discover.messages"}
    /\ loc[p].seen.version < MaxVersion
    /\ Goto(p, "discover.mark", [Idle EXCEPT !.seen = loc[p].seen])
    /\ Reads

DiscoverMark(p) ==
    /\ pc[p] = "discover.mark"
    /\ IF lifecycle = loc[p].seen
       THEN LifecycleTo("reauthorization_required") /\ Finish(p)
       ELSE UNCHANGED rows /\ Finish(p)
    /\ UNCHANGED <<late, faults>>

\* Any other provider error, or a stale cursor, or a backlog over the bounds.
ProviderFails(p) ==
    /\ pc[p] \in {"discover.history", "discover.messages"}
    /\ Finish(p)
    /\ Reads

DiscoverReadFails(p) ==
    /\ pc[p] \in {"discover.lifecycle", "discover.cursor", "discover.verify"}
    /\ Fault
    /\ Finish(p)
    /\ UNCHANGED <<rows, late>>

DiscoverReturns(p) == DiscoverReconciled(p) \/ DiscoverCommitted(p)

DiscoverStep(p) ==
    \/ DiscoverLifecycle(p) \/ DiscoverCursor(p) \/ DiscoverVerify(p)
    \/ DiscoverHistory(p) \/ DiscoverMessages(p) \/ DiscoverMark(p)

-----------------------------------------------------------------------------
Init == StoreInit /\ log = <<>> /\ vanished = {}

Resume(p) == (HandleReturns(p) \/ DiscoverReturns(p)) /\ UNCHANGED mailbox

Step(p) == (HandleStep(p) \/ DiscoverStep(p)) /\ UNCHANGED mailbox

Start(p) == Discover(p) /\ UNCHANGED mailbox

Provider(p) == (ProviderRefuses(p) \/ ProviderFails(p)) /\ UNCHANGED mailbox

Disturb(p) ==
    /\ MutateFails(p) \/ HandleReadFails(p) \/ DiscoverReadFails(p) \/ Crash(p)
    /\ UNCHANGED mailbox

Arrives == \E s \in late : LateExecute(s) /\ UNCHANGED mailbox

\* Between two accesses to what is shared a process is not interrupted: such
\* steps commute with those of the others, so no behaviour is lost.
Quiet == \A p \in Procs : pc[p] \notin Returns \cup {"discover.reconciled", "discover.committed"}

Next ==
    \/ \E p \in Procs : Resume(p)
    \/ /\ Quiet
       /\ \/ \E p \in Procs : Start(p) \/ Step(p) \/ Provider(p) \/ Disturb(p)
          \/ Arrives
          \/ \E m \in MessageIDs : NewMail(m) \/ Vanish(m)
          \/ \E s \in DOMAIN Transitions : ChangeLifecycle(s)

Spec == Init /\ [][Next]_vars

\* A started call runs on, and Discover is called again and again.  Strong
\* fairness only makes up for Quiet, which holds a step back for a moment.
Fairness ==
    \A p \in Procs :
        /\ WF_vars(Resume(p))
        /\ SF_vars(Quiet /\ Step(p))
        /\ SF_vars(Quiet /\ Start(p))

FairSpec == Spec /\ Fairness

-----------------------------------------------------------------------------
(* Properties. *)

Commit == [expected : 0 .. MaxHistory, next : 0 .. MaxHistory,
           msgs : UNION {[1 .. n -> Message] : n \in 0 .. MaxHistory}]

\* Type invariant.
TypeOK ==
    /\ lifecycle \in [state : DOMAIN Transitions, version : 1 .. MaxVersion]
    /\ cursor \in 0 .. MaxHistory
    /\ messages \in [MessageIDs -> Versions \cup {None}]
    /\ attempt # NoAttempt => attempt.commit \in Commit /\ attempt.state \in {"open", "sealed"}
    /\ DOMAIN staging \subseteq 1 .. MaxHistory
    /\ \A i \in DOMAIN staging : staging[i] \in Message
    /\ \A s \in late : s.commit \in Commit
    /\ faults \in 0 .. MaxFaults
    /\ \A p \in Procs : loc[p].commit = None \/ loc[p].commit \in Commit
    /\ log \in Seq(MessageIDs) /\ Len(log) <= MaxHistory
    /\ vanished \subseteq MessageIDs

\* The cursor never passes a message that exists in the mailbox and is not
\* stored: whatever processes staged, aborted, shared or half-committed,
\* every message added up to the cursor is stored or was gone from the
\* mailbox (finalize trigger, Discover).
NoMessageSkipped ==
    \A m \in AddedBetween(0, cursor) \ vanished : messages[m] # None

\* An attempt is about the present: its expected cursor is the cursor, and
\* the account is not revoked.  Together with the finalize guard it says a
\* sealed attempt never goes stale (finalize, abort and revocation triggers).
AttemptIsCurrent ==
    attempt # NoAttempt =>
        /\ attempt.commit.expected = cursor
        /\ attempt.commit.next <= Len(log)
        /\ lifecycle.state # "revoked"

\* Staged rows belong to the attempt that exists, and a sealed attempt has
\* all of them: no late or duplicated stage statement mixes two attempts
\* (stage SQL, seal trigger).
StagingBelongs ==
    /\ attempt = NoAttempt => staging = NoRows
    /\ \A i \in DOMAIN staging : i \in DOMAIN attempt.commit.msgs /\ staging[i] = attempt.commit.msgs[i]
    /\ attempt.state = "sealed" => staging = attempt.commit.msgs

\* What is staged is whole, of one attempt and about the present, whatever
\* processes shared, aborted or resumed it (the statements and triggers of
\* migration 0005).
StagingIsSound == TypeOK /\ AttemptIsCurrent /\ StagingBelongs

\* A commit that is about to be reported to the caller of Discover as
\* advanced has happened: the cursor reached its next history id and every
\* message it read is stored, even when its own statements were lost and
\* another process finished the shared attempt (proveCurrentDiscovery).
AdvancedIsDurable ==
    \A p \in Procs : pc[p] = "discover.committed" /\ loc[p].err = "nil" =>
        /\ cursor >= loc[p].commit.next
        /\ \A i \in DOMAIN loc[p].commit.msgs : messages[loc[p].commit.msgs[i].id] # None

\* The rows implement the one-step advance of cursor and messages: staging
\* is invisible, and no order of partial steps, lost acknowledgements and
\* late statements shows.
Atomic ==
    INSTANCE AtomicDiscovery
        WITH log <- log, vanished <- vanished, cursor <- cursor, messages <- messages

ImplementsAtomic == Atomic!Spec

\* Only an active account advances or gets a new attempt: a step that moves
\* the cursor or creates an attempt starts in state active, whatever the
\* process that sent the statement had read of the lifecycle before.
OnlyActiveAdvances ==
    [][cursor' # cursor \/ attempt' \notin {NoAttempt, attempt, [attempt EXCEPT !.state = "sealed"]}
        => lifecycle.state = "active"]_vars

\* Reconciliation completes or removes what is staged: while the account
\* stays active and Discover keeps being called, an attempt does not stay
\* (docs/product-specification.md:542, ReconcileCurrentDiscovery).
ReconciliationResolves ==
    attempt # NoAttempt ~> (attempt = NoAttempt \/ lifecycle.state # "active")
=============================================================================
