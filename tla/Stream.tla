------------------------------- MODULE Stream -------------------------------
(***************************************************************************)
(* One connection of the serverless driver and the server-side stream that *)
(* its statements run on (third_party/tursogo-serverless/session.go).      *)
(* Every request carries the baton of the last response; a response that   *)
(* cannot be used makes the session forget the stream.  The server is      *)
(* external: it rolls a stream back that is not used again, and it may     *)
(* execute a request whose answer is lost, at once or late.                *)
(***************************************************************************)
EXTENDS Integers, Sequences, FiniteSets

CONSTANTS
    Writes,      \* statements that change a row, each executed once
    MaxStreams,  \* bounds the streams that are opened
    MaxTurns,    \* bounds the requests of one stream
    MaxFaults,   \* bounds the answers that cannot be used
    NoTransaction

ASSUME StreamConstants ==
    /\ {MaxStreams, MaxTurns} \subseteq Nat \ {0} /\ MaxFaults \in Nat
    /\ {"BEGIN", "COMMIT", NoTransaction} \cap Writes = {}

VARIABLES
    baton,       \* session.baton: a stream and its turn, or turn 0 for nil
    autocommit,  \* session.autocommit
    unsure,      \* the last question for the transaction was answered with an error
    streams,     \* the streams of the server
    durable,     \* the writes that are committed
    late,        \* requests that the client no longer waits for
    sent,        \* the writes that were sent
    acked,       \* what succeeded since BEGIN, while nothing failed; else NoTransaction
    whole,       \* it was durable whenever COMMIT succeeded
    dropped,     \* refreshAutocommit failed and dropped the stream since BEGIN
    faults

streamVars == <<baton, autocommit, unsure, streams, durable, late, sent, acked, whole, dropped, faults>>

Nil == [id |-> 0, turn |-> 0]

StreamInit ==
    /\ baton = Nil /\ autocommit = TRUE /\ unsure = FALSE
    /\ streams = <<>> /\ durable = {} /\ late = {} /\ sent = {}
    /\ acked = {NoTransaction} /\ whole = TRUE
    /\ dropped = FALSE /\ faults = 0

Fault == faults < MaxFaults /\ faults' = faults + 1

-----------------------------------------------------------------------------
(* The server. *)

NewStream == [turn |-> 0, live |-> TRUE, tx |-> FALSE, pending |-> {}]

Valid(b) == b = Nil \/ (streams[b.id].live /\ streams[b.id].turn = b.turn)

\* Whether stream s accepts a statement; a write may be refused for its own reasons.
Verdicts(s, st) ==
    IF st = "BEGIN" THEN {~s.tx} ELSE IF st = "COMMIT" THEN {s.tx} ELSE BOOLEAN

After(s, st, ok) ==
    [turn |-> s.turn + 1, live |-> TRUE,
     tx |-> IF ok /\ st \in {"BEGIN", "COMMIT"} THEN st = "BEGIN" ELSE s.tx,
     pending |-> IF ~ok \/ ~s.tx \/ st = "BEGIN" THEN s.pending
                 ELSE IF st = "COMMIT" THEN {} ELSE s.pending \union {st}]

Committed(s, st, ok) ==
    IF ~ok \/ st = "BEGIN" THEN {}
    ELSE IF st = "COMMIT" THEN s.pending ELSE IF s.tx THEN {} ELSE {st}

\* The server executes st on stream id, which is opened for a nil baton.
Executes(id, st, ok) ==
    LET s == IF id > Len(streams) THEN NewStream ELSE streams[id]
    IN  /\ ok \in Verdicts(s, st) /\ s.turn < MaxTurns
        /\ streams' = IF id > Len(streams) THEN Append(streams, After(s, st, ok))
                      ELSE [streams EXCEPT ![id] = After(s, st, ok)]
        /\ durable' = durable \union Committed(s, st, ok)

\* A request that was given up is executed after all, if its stream still waits for it.
LateExecute(m) ==
    /\ late' = late \ {m}
    /\ IF Valid(m.baton) /\ (m.baton # Nil \/ Len(streams) < MaxStreams)
       THEN \E ok \in BOOLEAN :
                Executes(IF m.baton = Nil THEN Len(streams) + 1 ELSE m.baton.id, m.st, ok)
       ELSE UNCHANGED <<streams, durable>>
    /\ UNCHANGED <<baton, autocommit, unsure, sent, acked, whole, dropped, faults>>

\* A stream that is not used is closed: its transaction is rolled back.
Expire(id) ==
    /\ streams[id].live
    /\ streams' = [streams EXCEPT ![id].live = FALSE, ![id].tx = FALSE, ![id].pending = {}]
    /\ UNCHANGED <<baton, autocommit, unsure, durable, late, sent, acked, whole, dropped, faults>>

-----------------------------------------------------------------------------
(* The session. *)

\* resetStream
Reset == baton' = Nil /\ autocommit' = TRUE /\ unsure' = FALSE

\* updateStream with the baton of the answer
Update(id) == baton' = [id |-> id, turn |-> streams'[id].turn]

\* refreshAutocommit: answered, answered with an error, or failed.  Its turn is counted with the statement's.
Refreshed(id, drop) ==
    \/ ~drop /\ Update(id) /\ autocommit' = ~streams'[id].tx /\ unsure' = FALSE
    \/ ~drop /\ Update(id) /\ autocommit' = autocommit /\ unsure' = TRUE
    \/ drop /\ Reset

\* What the application concludes: a transaction is given up at the first error.
Concluded(st, ok, drop) ==
    LET now == IF ~ok THEN {NoTransaction} ELSE IF st = "BEGIN" THEN {}
               ELSE IF NoTransaction \in acked THEN acked ELSE acked \union {st}
    IN  /\ dropped' = (drop \/ (dropped /\ st # "BEGIN"))
        /\ acked' = IF st = "COMMIT" THEN {NoTransaction} ELSE now
        /\ whole' = (whole /\ (ok /\ st = "COMMIT" /\ NoTransaction \notin acked => acked \subseteq durable'))

Issues(st) == (st \in Writes => st \notin sent) /\ sent' = sent \union ({st} \intersect Writes)

Target == IF baton = Nil THEN Len(streams) + 1 ELSE baton.id

\* The whole answer arrives; the probe step tells whether a transaction is open.
StreamAnswered(st) ==
    /\ \E ok \in BOOLEAN : Executes(Target, st, ok) /\ Concluded(st, ok, FALSE)
    /\ Update(Target) /\ autocommit' = ~streams'[Target].tx /\ unsure' = FALSE
    /\ UNCHANGED <<late, faults>>

\* The probe step fails, or the cursor dies after the statement: the session asks again.
Probed(st) ==
    /\ Fault
    /\ \E ok \in BOOLEAN, died \in BOOLEAN, drop \in BOOLEAN :
          Executes(Target, st, ok) /\ Concluded(st, ok /\ ~died, drop) /\ Refreshed(Target, drop)
    /\ UNCHANGED late

\* Mutant of Unusable: a request that fails keeps the baton.
UnusableKept(st) ==
    /\ Fault
    /\ \E ok \in BOOLEAN : Executes(Target, st, ok)
    /\ Concluded(st, FALSE, FALSE)
    /\ UNCHANGED <<baton, autocommit, unsure, late>>

\* Executed, but the status, the first line or a later entry of the answer is unusable.
Unusable(st) ==
    /\ Fault
    /\ \E ok \in BOOLEAN : Executes(Target, st, ok)
    /\ Concluded(st, FALSE, FALSE)
    /\ Reset
    /\ UNCHANGED late

\* post fails before anything was executed; the request may still be under way.
Unanswered(st) ==
    /\ Fault
    /\ late' \in {late, late \union {[baton |-> baton, st |-> st]}}
    /\ Concluded(st, FALSE, FALSE)
    /\ Reset
    /\ UNCHANGED <<streams, durable>>

\* Mutant of Rejected: the statement is sent again without a baton.
RejectedResent(st) ==
    /\ Len(streams) < MaxStreams
    /\ \E ok \in BOOLEAN : Executes(Len(streams) + 1, st, ok) /\ Concluded(st, ok, FALSE)
    /\ Update(Len(streams) + 1) /\ autocommit' = ~streams'[Len(streams) + 1].tx /\ unsure' = FALSE
    /\ UNCHANGED <<late, faults>>

\* The server no longer knows the stream: a status that is not 2xx.
Rejected(st) ==
    /\ Concluded(st, FALSE, FALSE)
    /\ Reset
    /\ UNCHANGED <<streams, durable, late, faults>>

\* executeStmt, and executePipeline for a sequence
ExecuteStmt(st) ==
    /\ Issues(st)
    /\ IF Valid(baton)
       THEN /\ Target <= MaxStreams
            /\ StreamAnswered(st) \/ Probed(st) \/ Unusable(st) \/ Unanswered(st)
       ELSE Rejected(st)

StreamNext ==
    \/ \E st \in {"BEGIN", "COMMIT"} \union Writes : ExecuteStmt(st)
    \/ \E m \in late : LateExecute(m)
    \/ \E id \in DOMAIN streams : Expire(id)

StreamSpec == StreamInit /\ [][StreamNext]_streamVars

-----------------------------------------------------------------------------
Live == baton # Nil /\ streams[baton.id].live

\* Between two statements the session holds no baton or the one that the server
\* expects next, whatever was lost: a failed statement never leaves a baton that
\* every later statement of the connection would be refused with.
StreamAgrees == Live => streams[baton.id].turn = baton.turn

\* session.autocommit is the server's state of the transaction, unless the
\* server answered the last question for it with an error.
AutocommitAgrees ==
    /\ Live /\ ~unsure => autocommit = ~streams[baton.id].tx
    /\ baton = Nil => autocommit

\* What the session believes of its stream is what the server has (session).
SessionAgrees == StreamAgrees /\ AutocommitAgrees

\* While an application is inside a transaction in which nothing failed, none of
\* its writes is durable: the stream is never changed under it, since a request
\* is never sent again on its own.  Only a refreshAutocommit that fails does that.
NothingOutside == ~dropped => acked \intersect durable = {}

\* The comment on refreshAutocommit: it "runs on error paths", so the stream it
\* drops was that of a statement that reports an error, and a transaction in
\* which nothing failed still has its stream.  A probe step that fails makes
\* executeStmt call it after a statement that succeeded.
RefreshedOnErrorPaths == NoTransaction \notin acked => baton # Nil

\* When BEGIN, the writes and COMMIT all reported success, the writes are durable.
CommitIsWhole == whole

\* A transaction is all or nothing for an application that sees no error: nothing
\* of it is durable before COMMIT, and all of it after (executeStmt).
TransactionIsWhole == NothingOutside /\ CommitIsWhole
=============================================================================
