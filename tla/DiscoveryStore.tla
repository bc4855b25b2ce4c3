--------------------------- MODULE DiscoveryStore ---------------------------
(***************************************************************************)
(* The current-discovery rows of one account (migration 0005) and the      *)
(* storage handle's operations on them                                     *)
(* (internal/storage/turso/current_discovery.go).                          *)
(*                                                                         *)
(* A discovery is staged: an attempt row is created, its messages are      *)
(* staged in chunks, the attempt is sealed, and one statement promotes the *)
(* messages, advances the cursor and removes the staging.  The attempt id  *)
(* is a hash of the whole commit, so two processes that discover the same  *)
(* thing share an attempt; here the commit stands for its id, its manifest *)
(* and its witnesses.  As in AccountStore, a statement whose                *)
(* acknowledgement is lost is in late and runs at any later time or never. *)
(***************************************************************************)
EXTENDS Integers, Sequences, FiniteSets

CONSTANTS
    Procs,       \* processes that run discoveries of the account
    MessageIDs,  \* Gmail message ids, numbers so that they are ordered
    Versions,    \* [thread, meta] records a message read can return
    None,        \* SQL NULL / Go nil
    ChunkSize,   \* CurrentDiscoveryStageChunkMessages, 64 in the code
    MaxHistory,  \* bound: the largest history id the mailbox reaches
    MaxVersion,  \* bound: the largest lifecycle version
    MaxFaults    \* bound: failed reads, lost acknowledgements and crashes

ASSUME DiscoveryConstants ==
    /\ MessageIDs \subseteq Nat
    /\ None \notin Versions
    /\ ChunkSize \in Nat \ {0}
    /\ MaxHistory \in Nat
    /\ MaxVersion \in Nat \ {0}
    /\ MaxFaults \in Nat

VARIABLES
    lifecycle,  \* [state, version] of the inboxgate_account_lifecycle row
    cursor,     \* the synchronization cursor; 0 is where the enrollment put it
    messages,   \* inboxgate_messages: id -> version, None if absent
    attempt,    \* the inboxgate_current_sync_attempts row, or NoAttempt
    staging,    \* inboxgate_current_sync_staging: ordinal -> message
    late,       \* statements sent whose sender no longer waits for them
    faults,     \* faults so far
    pc,         \* per process: the next step
    loc         \* per process: its local variables

rows == <<lifecycle, cursor, messages, attempt, staging>>

-----------------------------------------------------------------------------
(* Commits and statements. *)

Message == [id : MessageIDs, body : Versions]

NoAttempt == [commit |-> None, state |-> "none"]

NoRows == <<>>

\* The ordinals of chunk k, the first chunk being 0.
Chunk(c, k) ==
    {i \in 1 .. Len(c.msgs) : k * ChunkSize < i /\ i <= (k + 1) * ChunkSize}

Statement(op, c, k) == [op |-> op, commit |-> c, chunk |-> k]

IsAttempt(c, state) == attempt.commit = c /\ attempt.state = state

\* Mutant of ThreadsStable: threads are not compared.
AnyThreads(rs) == TRUE

\* No stored message changes its thread.
ThreadsStable(rs) ==
    \A i \in DOMAIN rs :
        LET old == messages[rs[i].id] IN old # None => old.thread = rs[i].body.thread

CreateApplies(c) ==
    attempt = NoAttempt /\ lifecycle.state = "active" /\ cursor = c.expected

\* Mutant of SealApplies: the staged rows are not counted.
SealUncounted(c) == IsAttempt(c, "open")

SealApplies(c) == IsAttempt(c, "open") /\ staging = c.msgs

\* Mutant of FinalizeApplies: the lifecycle is not looked at.
FinalizeInactive(c) ==
    /\ IsAttempt(c, "sealed")
    /\ cursor = attempt.commit.expected
    /\ staging = attempt.commit.msgs
    /\ ThreadsStable(staging)

FinalizeApplies(c) ==
    /\ IsAttempt(c, "sealed")
    /\ lifecycle.state = "active"
    /\ cursor = attempt.commit.expected
    /\ staging = attempt.commit.msgs
    /\ ThreadsStable(staging)

AbortApplies(c) ==
    /\ IsAttempt(c, "open")
    /\ cursor = attempt.commit.expected
    /\ lifecycle.state = "active"

Applies(s) ==
    \/ s.op = "create" /\ CreateApplies(s.commit)
    \/ s.op = "stage" /\ IsAttempt(s.commit, "open")
    \/ s.op = "seal" /\ SealApplies(s.commit)
    \/ s.op = "finalize" /\ FinalizeApplies(s.commit)
    \/ s.op = "abort" /\ AbortApplies(s.commit)

\* Staged rows are inserted, never replaced.
Staged(s) ==
    [i \in DOMAIN staging \cup Chunk(s.commit, s.chunk) |->
        IF i \in DOMAIN staging THEN staging[i] ELSE s.commit.msgs[i]]

\* The messages after the staged rows are promoted.
Promoted ==
    [m \in MessageIDs |->
        IF \E i \in DOMAIN staging : staging[i].id = m
        THEN staging[CHOOSE i \in DOMAIN staging : staging[i].id = m].body
        ELSE messages[m]]

\* The cursor after the staged rows are promoted.
Advanced == attempt.commit.next

\* The database runs s.
Execute(s) ==
    \/ ~Applies(s) /\ UNCHANGED rows
    \/ /\ Applies(s) /\ s.op = "create"
       /\ attempt' = [commit |-> s.commit, state |-> "open"]
       /\ UNCHANGED <<lifecycle, cursor, messages, staging>>
    \/ /\ Applies(s) /\ s.op = "stage"
       /\ staging' = Staged(s)
       /\ UNCHANGED <<lifecycle, cursor, messages, attempt>>
    \/ /\ Applies(s) /\ s.op = "seal"
       /\ attempt' = [attempt EXCEPT !.state = "sealed"]
       /\ UNCHANGED <<lifecycle, cursor, messages, staging>>
    \/ /\ Applies(s) /\ s.op = "finalize"
       /\ messages' = Promoted
       /\ cursor' = Advanced
       /\ attempt' = NoAttempt /\ staging' = NoRows
       /\ UNCHANGED lifecycle
    \/ /\ Applies(s) /\ s.op = "abort"
       /\ attempt' = NoAttempt /\ staging' = NoRows
       /\ UNCHANGED <<lifecycle, cursor, messages>>

-----------------------------------------------------------------------------
(* A process.  The handle's operations call each other, so a process keeps *)
(* a stack of return labels; err and durable are what the last call        *)
(* returned.                                                               *)

NoInspection == [commit |-> None, state |-> "none", rows |-> NoRows]

Idle ==
    [commit |-> None,          \* the prepared commit of the operation
     insp   |-> NoInspection,  \* what inspectCurrentDiscovery returned
     stmt   |-> None,          \* the statement of mutateCurrentDiscovery
     err    |-> "nil",
     saved  |-> "nil",         \* an error kept over a later call
     durable |-> FALSE,        \* what proveCurrentDiscovery returned
     count  |-> 0,             \* len(inspection.messages) in the stage loop
     proved |-> 0,             \* chunks proved
     tries  |-> 0,             \* turns of the stage recovery loop
     snaps  |-> 0,             \* turns of the inspection loop
     seen   |-> None,          \* the lifecycle Discover read
     stack  |-> <<>>]

Goto(p, label, l) == pc' = [pc EXCEPT ![p] = label] /\ loc' = [loc EXCEPT ![p] = l]

Call(p, label, ret, l) ==
    Goto(p, label, [l EXCEPT !.stack = <<ret>> \o @, !.err = "nil", !.durable = FALSE])

Return(p, l) == Goto(p, Head(l.stack), [l EXCEPT !.stack = Tail(@)])

Fails(p, e) == Return(p, [loc[p] EXCEPT !.err = e, !.insp = NoInspection, !.saved = "nil"])

Succeeds(p) == Fails(p, "nil")

\* Discover returns; what it returns to its caller plays no part here.
Finish(p) == Goto(p, "idle", Idle)

Fault == faults < MaxFaults /\ faults' = faults + 1

Reads == UNCHANGED <<rows, late, faults>>

Active == lifecycle.state = "active"

Durable(p) == loc[p].err = "nil" /\ loc[p].durable

\* inspectCurrentDiscoveryOnce, the attempt query.
InspectAttempt(p) ==
    /\ pc[p] = "inspect"
    /\ LET l == loc[p] IN
       IF attempt = NoAttempt
       THEN Return(p, [l EXCEPT !.insp = NoInspection, !.err = "nil", !.snaps = 0])
       ELSE Goto(p, "inspect.rows",
                 [l EXCEPT !.insp = [commit |-> attempt.commit, state |-> attempt.state,
                                     rows |-> NoRows]])

\* inspectCurrentDiscoveryOnce, the staging query, and the loop around both:
\* a vanished attempt is a changed snapshot, another attempt or a gap in the
\* ordinals is an error.
InspectRows(p) ==
    /\ pc[p] = "inspect.rows"
    /\ LET l == loc[p]
           fresh == [l EXCEPT !.insp = NoInspection, !.snaps = 0] IN
       IF attempt = NoAttempt
       THEN IF l.snaps = 2
            THEN Return(p, [fresh EXCEPT !.err = "recovery"])
            ELSE Goto(p, "inspect", [fresh EXCEPT !.snaps = l.snaps + 1])
       ELSE IF attempt.commit # l.insp.commit \/ DOMAIN staging # 1 .. Cardinality(DOMAIN staging)
       THEN Return(p, [fresh EXCEPT !.err = "inspect"])
       ELSE Return(p, [l EXCEPT !.insp.rows = staging, !.err = "nil", !.snaps = 0])

\* matchCurrentDiscoveryInspection.
Match(c, insp, requireStaging) ==
    IF insp.commit # c THEN "conflict"
    ELSE IF \/ Len(insp.rows) > Len(c.msgs)
            \/ \E i \in DOMAIN insp.rows : insp.rows[i] # c.msgs[i]
            \/ requireStaging /\ insp.state = "sealed" /\ Len(insp.rows) # Len(c.msgs)
         THEN "recovery"
         ELSE "nil"

ChunkCount(c) == (Len(c.msgs) + ChunkSize - 1) \div ChunkSize

\* proveCurrentDiscovery: the cursor, the chunks one by one, no attempt.
ProveNext(p, l) ==
    IF l.proved < ChunkCount(l.commit)
    THEN Goto(p, "prove.chunk", l)
    ELSE Call(p, "inspect", "prove.inspected", [l EXCEPT !.proved = 0])

ProveCursor(p) ==
    /\ pc[p] = "prove"
    /\ LET l == [loc[p] EXCEPT !.durable = FALSE] IN
       IF cursor # l.commit.next
       THEN Return(p, [l EXCEPT !.err = "nil"])
       ELSE ProveNext(p, l)

ProveChunk(p) ==
    /\ pc[p] = "prove.chunk"
    /\ LET l == loc[p]
           c == l.commit IN
       IF \A i \in Chunk(c, l.proved) : messages[c.msgs[i].id] = c.msgs[i].body
       THEN ProveNext(p, [l EXCEPT !.proved = l.proved + 1])
       ELSE Return(p, [l EXCEPT !.err = "nil", !.proved = 0])

ProveInspected(p) ==
    /\ pc[p] = "prove.inspected"
    /\ LET l == loc[p] IN
       Return(p, [l EXCEPT !.durable = l.err = "nil" /\ l.insp = NoInspection,
                           !.insp = NoInspection])

\* mutateCurrentDiscovery: the statement is sent once, then verified,
\* whatever came back.
CallMutate(p, op, k, ret, l) ==
    Call(p, "mutate", ret, [l EXCEPT !.stmt = Statement(op, l.commit, k), !.insp = NoInspection])

CallVerify(p) ==
    LET op == loc[p].stmt.op IN
    \/ op \in {"create", "seal", "abort"} /\ Call(p, "inspect", "verify", loc[p])
    \/ op = "finalize" /\ Call(p, "prove", "verify", loc[p])
    \/ op = "stage" /\ Goto(p, "verify.stage", loc[p])

Mutate(p) ==
    /\ pc[p] = "mutate"
    /\ Execute(loc[p].stmt)
    /\ CallVerify(p)
    /\ UNCHANGED <<late, faults>>

MutateFails(p) ==
    /\ pc[p] = "mutate"
    /\ Fault
    /\ late' = late \cup {loc[p].stmt}
    /\ CallVerify(p)
    /\ UNCHANGED rows

LateExecute(s) ==
    /\ s \in late
    /\ late' = late \ {s}
    /\ Execute(s)
    /\ UNCHANGED <<faults, pc, loc>>

Verified(l) ==
    LET c == l.stmt.commit IN
    \/ l.stmt.op = "create" /\ Match(c, l.insp, FALSE) = "nil"
    \/ l.stmt.op = "seal" /\ l.insp.state = "sealed" /\ Match(c, l.insp, TRUE) = "nil"
    \/ l.stmt.op = "abort" /\ l.insp = NoInspection
    \/ l.stmt.op = "finalize" /\ l.durable

Verify(p) ==
    /\ pc[p] = "verify"
    /\ LET l == loc[p] IN
       Return(p, [l EXCEPT !.err = IF l.err # "nil" THEN "inspect"
                                   ELSE IF Verified(l) THEN "nil" ELSE "unknown",
                           !.insp = NoInspection, !.stmt = None])

VerifyStage(p) ==
    /\ pc[p] = "verify.stage"
    /\ LET l == loc[p]
           c == l.stmt.commit
           staged == \A i \in Chunk(c, l.stmt.chunk) : i \in DOMAIN staging /\ staging[i] = c.msgs[i] IN
       Return(p, [l EXCEPT !.err = IF IsAttempt(c, "open") /\ staged THEN "nil" ELSE "unknown",
                           !.stmt = None])

-----------------------------------------------------------------------------
(* CommitCurrentDiscovery. *)

StartCommit(p, ret, l) == Call(p, "prove", "commit.proved", [l EXCEPT !.stack = <<ret>>])

CommitProved(p) ==
    /\ pc[p] = "commit.proved"
    /\ IF Durable(p) THEN Succeeds(p) ELSE Call(p, "inspect", "commit.inspected", loc[p])

CommitInspected(p) ==
    /\ pc[p] = "commit.inspected"
    /\ LET l == loc[p]
           matched == Match(l.commit, l.insp, TRUE) IN
       IF l.err # "nil" THEN Fails(p, l.err)
       ELSE IF l.insp = NoInspection THEN Goto(p, "commit.fresh", l)
       ELSE IF matched # "nil" THEN Fails(p, matched)
       ELSE Goto(p, "commit.cursor", l)

\* The chunk loop from the count of messages known to be staged.
StageNext(p, l) ==
    IF l.count >= Len(l.commit.msgs) THEN CallMutate(p, "seal", 0, "commit.sealed", l)
    ELSE IF l.count % ChunkSize # 0 THEN Fails(p, "recovery")
    ELSE CallMutate(p, "stage", l.count \div ChunkSize, "commit.staged", l)

CommitStage(p, l) ==
    IF l.insp.state = "sealed"
    THEN Goto(p, "finalize", [l EXCEPT !.insp = NoInspection])
    ELSE StageNext(p, [l EXCEPT !.count = Len(l.insp.rows)])

\* An attempt for the same commit exists: go on with it.
CommitCursor(p) ==
    /\ pc[p] = "commit.cursor"
    /\ IF cursor # loc[p].commit.expected
       THEN Call(p, "prove", "commit.diverged", [loc[p] EXCEPT !.insp = NoInspection])
       ELSE CommitStage(p, loc[p])

\* Mutant of CommitDiverged: an attempt that is gone after a failed seal was
\* finalized.
GoneIsDone(p) ==
    /\ pc[p] \in {"commit.diverged", "commit.unsealed", "finalize.gone"}
    /\ IF Durable(p) \/ pc[p] = "commit.unsealed" THEN Succeeds(p)
       ELSE Fails(p, IF pc[p] = "commit.unsealed" THEN loc[p].saved ELSE "recovery")

\* Also the end of a failed seal and of a finalize whose attempt is gone.
CommitDiverged(p) ==
    /\ pc[p] \in {"commit.diverged", "commit.unsealed", "finalize.gone"}
    /\ IF Durable(p) THEN Succeeds(p)
       ELSE Fails(p, IF pc[p] = "commit.unsealed" THEN loc[p].saved ELSE "recovery")

\* No attempt exists: the cursor is read, then the lifecycle, then both are
\* judged.
CommitFresh(p) ==
    /\ pc[p] = "commit.fresh"
    /\ Goto(p, "commit.lifecycle",
            [loc[p] EXCEPT !.saved = IF cursor = loc[p].commit.expected THEN "nil" ELSE "conflict"])

CommitLifecycle(p) ==
    /\ pc[p] = "commit.lifecycle"
    /\ IF loc[p].saved # "nil" THEN Fails(p, loc[p].saved)
       ELSE IF ~Active THEN Fails(p, "lifecycle")
       ELSE CallMutate(p, "create", 0, "commit.created", loc[p])

CommitCreated(p) ==
    /\ pc[p] = "commit.created"
    /\ LET l == loc[p] IN
       IF l.err = "nil" THEN Call(p, "inspect", "commit.reinspected", l)
       ELSE Call(p, "prove", "commit.uncreated", [l EXCEPT !.saved = l.err])

CommitReinspected(p) ==
    /\ pc[p] = "commit.reinspected"
    /\ IF loc[p].err # "nil" THEN Fails(p, loc[p].err) ELSE CommitStage(p, loc[p])

CommitUncreated(p) ==
    /\ pc[p] = "commit.uncreated"
    /\ IF Durable(p) THEN Succeeds(p) ELSE Call(p, "inspect", "commit.why", loc[p])

\* Why the attempt was not created; the lifecycle and the cursor are read in
\* one step, as they only choose the error.
CommitWhy(p) ==
    /\ pc[p] = "commit.why"
    /\ LET l == loc[p]
           none == l.insp = NoInspection IN
       Fails(p, IF l.err # "nil" \/ l.insp.commit = l.commit THEN l.saved
                ELSE IF ~none THEN "conflict"
                ELSE IF ~Active THEN "lifecycle"
                ELSE IF cursor # l.commit.expected THEN "conflict" ELSE l.saved)

\* A chunk is staged, or three turns look for it.
ChunkStaged(p, l) ==
    LET end == l.count + ChunkSize IN
    StageNext(p, [l EXCEPT !.insp = NoInspection, !.tries = 0, !.saved = "nil",
                           !.count = IF end > Len(l.commit.msgs) THEN Len(l.commit.msgs) ELSE end])

CommitStaged(p) ==
    /\ pc[p] = "commit.staged"
    /\ LET l == loc[p] IN
       IF l.err = "nil" THEN ChunkStaged(p, l)
       ELSE IF l.err = "inspect" THEN Fails(p, l.err)
       ELSE Call(p, "prove", "commit.recover", [l EXCEPT !.saved = l.err])

CommitRecover(p) ==
    /\ pc[p] = "commit.recover"
    /\ IF Durable(p) THEN Succeeds(p) ELSE Call(p, "inspect", "commit.recovered", loc[p])

CommitRecovered(p) ==
    /\ pc[p] = "commit.recovered"
    /\ LET l == loc[p]
           c == l.commit
           ours == l.err = "nil" /\ Match(c, l.insp, TRUE) = "nil" IN
       IF ours /\ l.insp.state = "sealed"
       THEN Goto(p, "finalize", [l EXCEPT !.insp = NoInspection, !.saved = "nil", !.tries = 0])
       ELSE IF /\ ours /\ l.insp.state = "open"
               /\ \/ Len(l.insp.rows) >= l.count + ChunkSize
                  \/ Len(l.insp.rows) = Len(c.msgs)
       THEN ChunkStaged(p, l)
       ELSE IF l.tries = 2 THEN Fails(p, l.saved)
       ELSE Call(p, "prove", "commit.recover", [l EXCEPT !.tries = l.tries + 1,
                                                         !.insp = NoInspection])

CommitSealed(p) ==
    /\ pc[p] = "commit.sealed"
    /\ LET l == loc[p] IN
       IF l.err = "nil" THEN Goto(p, "finalize", l)
       ELSE Call(p, "prove", "commit.unsealed", [l EXCEPT !.saved = l.err])

-----------------------------------------------------------------------------
(* finalizeCurrentDiscovery and ReconcileCurrentDiscovery. *)

Finalize(p) ==
    /\ pc[p] = "finalize"
    /\ Call(p, "inspect", "finalize.inspected", [loc[p] EXCEPT !.count = 0])

FinalizeInspected(p) ==
    /\ pc[p] = "finalize.inspected"
    /\ LET l == loc[p] IN
       IF l.err # "nil" THEN Fails(p, l.err)
       ELSE IF l.insp = NoInspection THEN Call(p, "prove", "finalize.gone", l)
       ELSE IF l.insp.state # "sealed" \/ Match(l.commit, l.insp, TRUE) # "nil" THEN Fails(p, "recovery")
       ELSE Goto(p, "finalize.lifecycle", [l EXCEPT !.insp = NoInspection])

FinalizeLifecycle(p) ==
    /\ pc[p] = "finalize.lifecycle"
    /\ IF Active THEN CallMutate(p, "finalize", 0, "finalize.done", loc[p])
       ELSE Fails(p, "lifecycle")

FinalizeDone(p) ==
    /\ pc[p] = "finalize.done"
    /\ IF loc[p].err = "nil" THEN Succeeds(p)
       ELSE Goto(p, "finalize.classify", [loc[p] EXCEPT !.saved = loc[p].err, !.err = "nil"])

\* classifyCurrentDiscoveryConflict, its reads in one step.
FinalizeClassify(p) ==
    /\ pc[p] = "finalize.classify"
    /\ IF ThreadsStable(loc[p].commit.msgs)
       THEN Call(p, "inspect", "finalize.why", loc[p])
       ELSE Fails(p, "conflict")

\* Why nothing was finalized; the reads only choose the error.
FinalizeWhy(p) ==
    /\ pc[p] = "finalize.why"
    /\ LET l == loc[p]
           broken == Match(l.commit, l.insp, TRUE) # "nil" \/ cursor # l.commit.expected IN
       Fails(p, IF l.err # "nil" THEN "recovery"
                ELSE IF ~Active THEN "lifecycle"
                ELSE IF l.insp.state = "sealed" /\ broken THEN "recovery"
                ELSE l.saved)

StartReconcile(p, ret, l) == Call(p, "inspect", "reconcile.inspected", [l EXCEPT !.stack = <<ret>>])

ReconcileInspected(p) ==
    /\ pc[p] = "reconcile.inspected"
    /\ LET l == loc[p] IN
       IF l.err # "nil" THEN Fails(p, l.err)
       ELSE IF l.insp = NoInspection THEN Succeeds(p)
       ELSE Goto(p, "reconcile.cursor", l)

\* An open attempt is aborted; a sealed one is prepared again from its rows
\* and finalized.
ReconcileCursor(p) ==
    /\ pc[p] = "reconcile.cursor"
    /\ LET l == loc[p]
           c == l.insp.commit
           again == [l EXCEPT !.commit = c, !.insp = NoInspection] IN
       IF l.insp.state = "open"
       THEN IF cursor # c.expected \/ Len(l.insp.rows) > Len(c.msgs)
            THEN Fails(p, "recovery")
            ELSE Goto(p, "reconcile.lifecycle", again)
       ELSE IF l.insp.rows # c.msgs THEN Fails(p, "recovery")
       ELSE IF cursor # c.expected THEN Call(p, "prove", "reconcile.diverged", again)
       ELSE Goto(p, "finalize", again)

ReconcileDiverged(p) ==
    /\ pc[p] = "reconcile.diverged"
    /\ LET l == loc[p] IN
       Fails(p, IF l.err # "nil" THEN l.err ELSE IF l.durable THEN "nil" ELSE "recovery")

\* Mutant of ReconcileLifecycle: the state is tested the wrong way round.
AbortInactive(p) ==
    /\ pc[p] = "reconcile.lifecycle"
    /\ IF ~Active THEN CallMutate(p, "abort", 0, "reconcile.aborted", loc[p])
       ELSE Fails(p, "lifecycle")

ReconcileLifecycle(p) ==
    /\ pc[p] = "reconcile.lifecycle"
    /\ IF Active THEN CallMutate(p, "abort", 0, "reconcile.aborted", loc[p])
       ELSE Fails(p, "lifecycle")

ReconcileAborted(p) ==
    /\ pc[p] = "reconcile.aborted"
    /\ Fails(p, IF loc[p].err # "nil" /\ ~Active THEN "lifecycle" ELSE loc[p].err)

-----------------------------------------------------------------------------
(* All steps of the handle. *)

\* Steps that only look at what a call returned, and so touch nothing that
\* is shared.
Returns ==
    {"prove.inspected", "verify", "commit.proved", "commit.inspected", "commit.diverged",
     "commit.unsealed", "finalize.gone", "commit.created", "commit.reinspected",
     "commit.uncreated", "commit.staged", "commit.recover", "commit.recovered",
     "commit.sealed", "finalize", "finalize.inspected", "finalize.done",
     "reconcile.inspected", "reconcile.diverged"}

HandleReturns(p) ==
    /\ \/ ProveInspected(p) \/ Verify(p)
       \/ CommitProved(p) \/ CommitInspected(p) \/ CommitDiverged(p) \/ CommitCreated(p)
       \/ CommitReinspected(p) \/ CommitUncreated(p) \/ CommitStaged(p) \/ CommitRecover(p)
       \/ CommitRecovered(p) \/ CommitSealed(p)
       \/ Finalize(p) \/ FinalizeInspected(p) \/ FinalizeDone(p)
       \/ ReconcileInspected(p) \/ ReconcileDiverged(p)
    /\ Reads

HandleReads(p) ==
    /\ \/ InspectAttempt(p) \/ InspectRows(p) \/ ProveCursor(p) \/ ProveChunk(p) \/ VerifyStage(p)
       \/ CommitCursor(p) \/ CommitFresh(p) \/ CommitLifecycle(p) \/ CommitWhy(p)
       \/ FinalizeLifecycle(p) \/ FinalizeClassify(p) \/ FinalizeWhy(p)
       \/ ReconcileCursor(p) \/ ReconcileLifecycle(p) \/ ReconcileAborted(p)
    /\ Reads

\* Where a failed read, or no connection, is a persistence error of the
\* function that reads; the two cursor reads make it recovery-required.
Failing ==
    {"inspect", "inspect.rows", "prove", "prove.chunk", "verify.stage", "mutate",
     "commit.fresh", "commit.lifecycle", "finalize.lifecycle", "finalize.classify",
     "reconcile.lifecycle"}

HandleReadFails(p) ==
    /\ Fault
    /\ \/ /\ pc[p] \in Failing
          /\ Return(p, [loc[p] EXCEPT !.err = "inspect", !.insp = NoInspection, !.stmt = None,
                                      !.durable = FALSE, !.proved = 0, !.snaps = 0])
       \/ pc[p] \in {"commit.cursor", "reconcile.cursor"} /\ Fails(p, "recovery")
    /\ UNCHANGED <<rows, late>>

\* The process dies, or its deadline passes and every read left fails.
Crash(p) ==
    /\ pc[p] # "idle"
    /\ Fault
    /\ Finish(p)
    /\ UNCHANGED <<rows, late>>

HandleStep(p) == HandleReads(p) \/ Mutate(p)

StoreInit ==
    /\ lifecycle = [state |-> "active", version |-> 1]
    /\ cursor = 0
    /\ messages = [m \in MessageIDs |-> None]
    /\ attempt = NoAttempt
    /\ staging = NoRows
    /\ late = {}
    /\ faults = 0
    /\ pc = [p \in Procs |-> "idle"]
    /\ loc = [p \in Procs |-> Idle]
=============================================================================
