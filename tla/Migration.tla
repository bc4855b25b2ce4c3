----------------------------- MODULE Migration -----------------------------
(***************************************************************************)
(* Migrate (internal/storage/turso/migration.go): processes, possibly of   *)
(* different releases, bring one database to their embedded catalogs.      *)
(*                                                                         *)
(* A migration is one transaction sequence, then a second sequence on the  *)
(* same session sets user_version, and another connection must see both.   *)
(* A sequence that fails leaves its transaction, and with it the writer    *)
(* lock, to a rollback that may be lost.  A sequence whose answer is lost  *)
(* is in late and runs at any later time or never.                         *)
(***************************************************************************)
EXTENDS Integers, Sequences

CONSTANTS
    Procs,      \* processes that run Migrate
    Checksums,  \* checksums of migration files
    Catalog,    \* per process: its catalog, as the sequence of the checksums
    Free,       \* no session holds the writer lock
    Orphan,     \* a session without a process holds it
    MaxFaults   \* bound: failed reads, lost or cut sequences and crashes

ASSUME MigrationConstants ==
    /\ Catalog \in [Procs -> Seq(Checksums)]
    /\ \A p \in Procs : Catalog[p] # <<>>
    /\ Free \notin Procs /\ Orphan \notin Procs /\ Free # Orphan
    /\ MaxFaults \in Nat

VARIABLES
    ledger,  \* inboxgate_schema_migrations; <<>> when there is no table
    marker,  \* PRAGMA user_version
    holder,  \* whose session holds the writer lock with nothing committed
    late,    \* sequences sent whose sender no longer waits for them
    faults,  \* faults so far
    pc,      \* per process: the next step
    loc      \* per process: its local variables

database == <<ledger, marker, holder>>

vars == <<ledger, marker, holder, late, faults, pc, loc>>

-----------------------------------------------------------------------------
(* The two sequences. *)

IsPrefix(s, t) == Len(s) <= Len(t) /\ \A i \in 1 .. Len(s) : s[i] = t[i]

\* migrationSequence and terminalSequence for the first n files of a catalog.
Apply(cat, n) == [op |-> "apply", target |-> SubSeq(cat, 1, n)]

Mark(cat, n) == [op |-> "mark", target |-> SubSeq(cat, 1, n)]

\* The prefix guard: an apply needs all of its target but the last row.
ApplyGuard(s) == ledger = SubSeq(s.target, 1, Len(s.target) - 1)

\* Mutant of MarkGuard: later rows and a later marker do not matter.
MarkLoose(s) == IsPrefix(s.target, ledger)

MarkGuard(s) == ledger = s.target /\ marker \in 0 .. Len(s.target)

Guard(s) == IF s.op = "apply" THEN ApplyGuard(s) ELSE MarkGuard(s)

Marked(s) == Len(s.target)

\* s runs to its end: COMMIT, or RELEASE of the outer savepoint.
Commit(s) ==
    IF s.op = "apply"
    THEN ledger' = Append(ledger, s.target[Len(s.target)]) /\ UNCHANGED marker
    ELSE marker' = Marked(s) /\ UNCHANGED ledger

\* Session q runs s: it is busy, or commits, or stops at the guard and keeps
\* the transaction it began.
Run(s, q) ==
    \/ holder # Free /\ UNCHANGED database
    \/ holder = Free /\ Guard(s) /\ Commit(s) /\ UNCHANGED holder
    \/ holder = Free /\ ~Guard(s) /\ holder' = q /\ UNCHANGED <<ledger, marker>>

-----------------------------------------------------------------------------
(* A process. *)

Idle == [current |-> 0, number |-> 0, turns |-> 0, result |-> "none"]

Goto(p, label, l) == pc' = [pc EXCEPT ![p] = label] /\ loc' = [loc EXCEPT ![p] = l]

Finish(p, result) == Goto(p, "idle", [Idle EXCEPT !.result = result])

Reads == UNCHANGED <<database, late, faults>>

Fault == faults < MaxFaults /\ faults' = faults + 1

Start(p) ==
    /\ pc[p] = "idle"
    /\ Goto(p, "inspect", Idle)
    /\ Reads

\* An inspection finds drift; the one that verifies then has no proof.
Drift(p) ==
    IF pc[p] \in {"inspect", "inspect.version"} THEN Finish(p, "drift")
    ELSE Goto(p, "rollback", loc[p])

\* The rows are those of a prefix of the catalog.
Conforms(p) == IsPrefix(ledger, Catalog[p])

\* inspectLedger reads the rows first, then, in another query, user_version.
InspectRows(p) ==
    /\ pc[p] \in {"inspect", "verify"}
    /\ IF ~Conforms(p) THEN Drift(p)
       ELSE Goto(p, IF pc[p] = "inspect" THEN "inspect.version" ELSE "verify.version",
                 [loc[p] EXCEPT !.current = Len(ledger)])
    /\ Reads

\* The loop's next turn, from the number of rows seen.
NextTurn(p) ==
    LET l == loc[p] IN
    IF l.turns > Len(Catalog[p]) THEN Finish(p, "drift")
    ELSE Goto(p, "apply", [l EXCEPT !.number = l.current + 1, !.turns = l.turns + 1])

\* Mutant of InspectVersion: a complete ledger is enough.
InspectComplete(p) ==
    /\ pc[p] = "inspect.version"
    /\ LET n == loc[p].current IN
       IF marker > n THEN Drift(p)
       ELSE IF n = Len(Catalog[p]) THEN Finish(p, "ok")
       ELSE NextTurn(p)
    /\ Reads

InspectVersion(p) ==
    /\ pc[p] = "inspect.version"
    /\ LET n == loc[p].current IN
       IF marker > n THEN Drift(p)
       ELSE IF n = Len(Catalog[p]) /\ marker = n THEN Finish(p, "ok")
       ELSE IF n = Len(Catalog[p]) THEN Goto(p, "mark", [loc[p] EXCEPT !.number = n])
       ELSE NextTurn(p)
    /\ Reads

Sequence(p) ==
    IF pc[p] = "apply" THEN Apply(Catalog[p], loc[p].number) ELSE Mark(Catalog[p], loc[p].number)

\* ExecContext returns.  Within a transaction of its own the mark succeeds
\* and nothing becomes durable.
Execute(p) ==
    /\ pc[p] \in {"apply", "mark"}
    /\ LET s == Sequence(p) IN
       /\ Run(s, p)
       /\ Goto(p, IF (holder = Free /\ Guard(s)) \/ (holder = p /\ s.op = "mark")
                  THEN IF s.op = "apply" THEN "mark" ELSE "verify"
                  ELSE "rollback",
               loc[p])
    /\ UNCHANGED <<late, faults>>

\* The driver accepts an answer that leaves the transaction open.
ExecuteOpen(p) ==
    /\ pc[p] = "apply"
    /\ Fault
    /\ holder = Free /\ Guard(Sequence(p))
    /\ holder' = p
    /\ Goto(p, "mark", loc[p])
    /\ UNCHANGED <<ledger, marker, late>>

ExecuteFails(p) ==
    /\ pc[p] \in {"apply", "mark"}
    /\ Fault
    /\ late' = late \cup {Sequence(p)}
    /\ Goto(p, "rollback", loc[p])
    /\ UNCHANGED database

\* Mutant of VerifyVersion: the acknowledgements are believed.
VerifyNothing(p) ==
    /\ pc[p] = "verify.version"
    /\ LET l == loc[p] IN
       IF l.number = Len(Catalog[p]) THEN Finish(p, "ok") ELSE NextTurn(p)
    /\ Reads

\* The end of proveTerminalState, and what the loop makes of it.
VerifyVersion(p) ==
    /\ pc[p] = "verify.version"
    /\ LET l == loc[p] IN
       IF marker > l.current THEN Drift(p)
       ELSE IF l.current < l.number \/ marker # l.number THEN Goto(p, "rollback", l)
       ELSE IF l.current = Len(Catalog[p]) THEN Finish(p, "ok")
       ELSE NextTurn(p)
    /\ Reads

\* attemptRollback, then the connection is discarded.
Rollback(p) ==
    /\ pc[p] = "rollback"
    /\ holder' = IF holder = p THEN Free ELSE holder
    /\ Finish(p, "unknown")
    /\ UNCHANGED <<ledger, marker, late, faults>>

Abandon(p) == holder' = IF holder = p THEN Orphan ELSE holder

RollbackFails(p) ==
    /\ pc[p] = "rollback"
    /\ Fault
    /\ Abandon(p)
    /\ Finish(p, "unknown")
    /\ UNCHANGED <<ledger, marker, late>>

\* An inspection fails, or no connection is to be had.
ReadFails(p) ==
    /\ Fault
    /\ \/ /\ pc[p] \in {"inspect", "inspect.version", "apply"} \/ (pc[p] = "mark" /\ loc[p].turns = 0)
          /\ Finish(p, "failed")
       \/ pc[p] \in {"verify", "verify.version"} /\ Goto(p, "rollback", loc[p])
    /\ UNCHANGED <<database, late>>

Crash(p) ==
    /\ pc[p] # "idle"
    /\ Fault
    /\ Abandon(p)
    /\ Finish(p, "none")
    /\ UNCHANGED <<ledger, marker, late>>

-----------------------------------------------------------------------------
(* The database server. *)

LateExecute(s) ==
    /\ s \in late
    /\ late' = late \ {s}
    /\ Run(s, Orphan)
    /\ UNCHANGED <<faults, pc, loc>>

\* The server ends a session that nobody uses.
Expire ==
    /\ holder = Orphan
    /\ holder' = Free
    /\ UNCHANGED <<ledger, marker, late, faults, pc, loc>>

-----------------------------------------------------------------------------
Init ==
    /\ ledger = <<>>
    /\ marker = 0
    /\ holder = Free
    /\ late = {}
    /\ faults = 0
    /\ pc = [p \in Procs |-> "idle"]
    /\ loc = [p \in Procs |-> Idle]

Step(p) ==
    \/ InspectRows(p) \/ InspectVersion(p) \/ Execute(p) \/ VerifyVersion(p) \/ Rollback(p)

Fails(p) ==
    \/ ExecuteOpen(p) \/ ExecuteFails(p) \/ RollbackFails(p) \/ ReadFails(p) \/ Crash(p)

Next ==
    \/ \E p \in Procs : Start(p) \/ Step(p) \/ Fails(p)
    \/ \E s \in late : LateExecute(s)
    \/ Expire

Spec == Init /\ [][Next]_vars

\* A started Migrate runs on, Migrate is called again and again ("a later
\* explicit invocation", docs/adr/0005), and abandoned sessions end.  Nothing
\* is assumed of late sequences.
FairSpec ==
    /\ Spec
    /\ \A p \in Procs : WF_vars(Start(p)) /\ WF_vars(Step(p))
    /\ WF_vars(Expire)

-----------------------------------------------------------------------------
(* Properties. *)

Labels ==
    {"idle", "inspect", "inspect.version", "apply", "mark", "verify", "verify.version", "rollback"}

\* The types of the rows, of the sequences under way and of the locals; the
\* number a process works on is one of its catalog, so catalog[current] and
\* catalog[:number] are never out of range.
TypeOK ==
    /\ ledger \in Seq(Checksums)
    /\ marker \in Nat
    /\ holder \in Procs \cup {Free, Orphan}
    /\ \A s \in late : s.op \in {"apply", "mark"} /\ s.target \in Seq(Checksums) /\ s.target # <<>>
    /\ faults \in 0 .. MaxFaults
    /\ pc \in [Procs -> Labels]
    /\ \A p \in Procs :
        /\ loc[p] \in [current : Nat, number : Nat, turns : Nat,
                       result : {"none", "ok", "drift", "failed", "unknown"}]
        /\ pc[p] \in {"apply", "mark", "verify", "verify.version"} =>
               loc[p].number \in 1 .. Len(Catalog[p])

\* The ledger is always a prefix of one process's catalog: releases whose
\* catalogs differ never build a mixture, late sequences included.
LedgerIsSomeCatalog ==
    ledger # <<>> => \E p \in Procs : IsPrefix(ledger, Catalog[p])

\* user_version never claims a migration that the ledger does not have.
MarkerNeverAhead == marker <= Len(ledger)

\* A Migrate that returned success left its whole catalog in the durable
\* ledger, even if its own transaction was answered and never committed.
SuccessIsDurable ==
    \A p \in Procs : loc[p].result = "ok" => IsPrefix(Catalog[p], ledger)

\* Ledger, marker and reports of Migrate agree, and Migrate stays within its
\* catalog, whatever releases run and whatever arrives late.
MigrateIsSound == TypeOK /\ LedgerIsSomeCatalog /\ MarkerNeverAhead /\ SuccessIsDurable

\* Rows are only ever added and user_version is never set back, whatever
\* order delayed terminal sequences arrive in.
OnlyForward == [][IsPrefix(ledger, ledger') /\ marker <= marker']_vars

\* Every catalog that the ledger does not contradict gets applied and the
\* marker set, also after a stop between the two sequences: later calls go on
\* where one stopped, and repair the marker.
MigrationCompletes ==
    <>[](/\ marker = Len(ledger)
         /\ \A p \in Procs : IsPrefix(ledger, Catalog[p]) => ledger = Catalog[p])
=============================================================================
