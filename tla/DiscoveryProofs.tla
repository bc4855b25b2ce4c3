-------------------------- MODULE DiscoveryProofs --------------------------
(***************************************************************************)
(* Proofs about Discovery, for any processes, messages, chunk size and     *)
(* faults.  The rows are easy: each statement of migration 0005 keeps them *)
(* sound if the commit it carries is sound, and DiscoveryMoves shows that  *)
(* it is.                                                                  *)
(***************************************************************************)
EXTENDS DiscoveryMoves

-----------------------------------------------------------------------------
(* Discover. *)

\* A process that holds nothing is in order, whatever the store has.
LEMMA IdleSane ==
    ASSUME NEW w, NEW s, NEW t
    PROVE  /\ Sane(Idle, w) /\ Local("idle", Idle, w) /\ Local("discover.lifecycle", Idle, w)
           /\ Local("discover.cursor", [Idle EXCEPT !.seen = s], w)
           /\ Local("discover.mark", [Idle EXCEPT !.seen = s], w)
           /\ LET l == [Idle EXCEPT !.stack = t] IN
                 Sane(l, w) /\ l.stack = t /\ l.proved = 0
<1>1. Sane(Idle, w) /\ Idle.proved = 0
  BY Zenon DEF Idle, Sane, Fields
<1>2. Local("idle", Idle, w) /\ Local("discover.lifecycle", Idle, w)
  BY <1>1, Zenon DEF Local, InDiscover, Discovering, Tops
<1> DEFINE n == [Idle EXCEPT !.seen = s]
           l == [Idle EXCEPT !.stack = t]
<1>3. Sane(n, w) /\ n.proved = 0
  BY <1>1, Zenon DEF Sane, Fields
<1>4. Sane(l, w) /\ l.stack = t /\ l.proved = 0
  BY <1>1, Zenon DEF Sane, Fields
<1> HIDE DEF n, l
<1>5. Local("discover.cursor", n, w) /\ Local("discover.mark", n, w)
  BY <1>3, Zenon DEF Local, InDiscover, Discovering, Tops
<1> QED
  BY <1>1, <1>2, <1>4, <1>5, Zenon DEF n, l

\* Discover ends, however it does.
LEMMA FinishMoves ==
    ASSUME NEW p \in Procs, Finish(p)
    PROVE  Moves(p)
  BY IdleSane, Zenon DEF Finish, Moves

\* Discover starts with a reconciliation.
LEMMA DiscoverMoves ==
    ASSUME NEW p \in Procs, Discover(p)
    PROVE  Moves(p)
<1> DEFINE l == [Idle EXCEPT !.stack = <<"discover.reconciled">>]
<1>1. Call(p, "inspect", "reconcile.inspected", l)
  BY Zenon DEF Discover, StartReconcile
<1>2. Sane(l, World) /\ l.stack = <<"discover.reconciled">> /\ l.proved = 0
  BY IdleSane, ZenonT(30)
<1>3. /\ "reconcile.inspected" \in InspectReturns /\ "reconcile.inspected" \in Blank
      /\ "reconcile.inspected" \notin Saving /\ "discover.reconciled" \in Tops
  BY Zenon DEF InspectReturns, Blank, Saving, Tops
<1> HIDE DEF l
<1> QED
  BY <1>1, <1>2, <1>3, BodyInspects, Zenon

\* A process at a label of Discover is in no call.
LEMMA Outside ==
    ASSUME NEW w, NEW lab \in Discovering, NEW l, Local(lab, l, w)
    PROVE  InDiscover(lab, l, w)
<1>1. lab \notin Inspecting \cup Proving \cup {"mutate", "verify", "verify.stage"} \cup Body
  BY Zenon DEF Inspecting, Proving, Discovering, Body, Tops, InspectReturns, ProveReturns, MutateReturns
<1> QED
  BY <1>1, Zenon DEF Local, InHandle, Placed

\* The discovery starts from the cursor, which the mailbox has reached.
LEMMA DiscoverCursorMoves ==
    ASSUME NEW p \in Procs, Rows, Local(pc[p], loc[p], World), DiscoverCursor(p)
    PROVE  Moves(p)
<1> DEFINE c == [expected |-> cursor, next |-> cursor, msgs |-> NoRows]
           n == [loc[p] EXCEPT !.commit = c]
<1>1. Goto(p, "discover.verify", n) /\ pc[p] = "discover.cursor" /\ Sane(loc[p], World)
  BY Zenon DEF DiscoverCursor, Local
<1>2. loc[p].proved = 0
  <2>1. pc[p] \in Discovering /\ pc[p] \notin Tops
    BY <1>1, Zenon DEF Discovering, Tops
  <2> QED
    BY <2>1, Outside DEF InDiscover
<1>3. c \in Commit
  <2>1. NoRows \in [1 .. 0 -> Message]
    BY DEF NoRows
  <2>2. 0 \in 0 .. MaxHistory
    BY DiscoveryConstants
  <2>3. NoRows \in UNION {[1 .. i -> Message] : i \in 0 .. MaxHistory}
    BY <2>1, <2>2, Zenon
  <2> QED
    BY <2>3, Zenon DEF Commit, Rows
<1>4. c.next <= Len(World.log) /\ c.next = c.expected /\ c.msgs = NoRows
  BY Zenon DEF Rows, World
<1> HIDE DEF c
<1>5. Sane(n, World) /\ n.commit = c /\ n.proved = 0
  BY <1>1, <1>2, <1>3, Zenon DEF Sane, Fields
<1> HIDE DEF n
<1>6. InDiscover("discover.verify", n, World)
  BY <1>3, <1>4, <1>5, Zenon DEF InDiscover, Discovering, Tops
<1> QED
  BY <1>1, <1>5, <1>6, Zenon DEF Moves, Local

\* The lifecycle is still the one that was read.
LEMMA DiscoverVerifyMoves ==
    ASSUME NEW p \in Procs, Local(pc[p], loc[p], World), DiscoverVerify(p)
    PROVE  Moves(p)
<1>1. pc[p] = "discover.verify" /\ Sane(loc[p], World)
  BY Zenon DEF DiscoverVerify, Local
<1>2. CASE Finish(p)
  BY <1>2, FinishMoves, Zenon
<1>3. CASE Goto(p, "discover.history", loc[p])
  <2>1. InDiscover("discover.verify", loc[p], World)
    BY <1>1, Outside, Zenon DEF Discovering
  <2>2. InDiscover("discover.history", loc[p], World)
    BY <2>1, Zenon DEF InDiscover, Discovering, Tops
  <2> QED
    BY <1>1, <1>3, <2>2, Zenon DEF Moves, Local
<1> QED
  BY <1>2, <1>3, Zenon DEF DiscoverVerify

\* The commit will go as far as the mailbox does now.
LEMMA DiscoverHistoryMoves ==
    ASSUME NEW p \in Procs, Rest, Local(pc[p], loc[p], World), DiscoverHistory(p)
    PROVE  Moves(p)
<1> DEFINE l == loc[p]
           n == [l EXCEPT !.commit.next = Len(log)]
           c == [l.commit EXCEPT !.next = Len(log)]
<1>1. pc[p] = "discover.history" /\ Sane(l, World)
  BY Zenon DEF DiscoverHistory, Local
<1>2. CASE Finish(p)
  BY <1>2, FinishMoves, Zenon
<1>3. CASE Len(log) # l.commit.expected /\ Goto(p, "discover.messages", n)
  <2>1. InDiscover("discover.history", l, World)
    BY <1>1, Outside, Zenon DEF Discovering
  <2>2. /\ l.commit \in Commit /\ l.commit.expected <= Len(World.log) /\ l.proved = 0
    BY <2>1, Zenon DEF InDiscover, Tops
  <2>3. World.log = log /\ Len(log) \in 0 .. MaxHistory
    BY DEF World, Rest
  <2>4. c \in Commit /\ c.next = Len(log) /\ c.expected = l.commit.expected
    BY <2>2, <2>3, Zenon DEF Commit
  <2>5. c.expected < c.next /\ c.next <= Len(World.log)
    BY <1>3, <2>2, <2>3, <2>4, CommitType, DiscoveryConstants
  <2>6. n = [l EXCEPT !.commit = c]
    BY <1>1, Zenon DEF Sane, Fields
  <2> HIDE DEF c, n
  <2>7. Sane(n, World) /\ n.commit = c /\ n.proved = 0
    BY <1>1, <2>2, <2>4, <2>6, Zenon DEF Sane, Fields
  <2>8. InDiscover("discover.messages", n, World)
    BY <2>4, <2>5, <2>7, Zenon DEF InDiscover, Discovering, Tops
  <2> QED
    BY <1>3, <2>7, <2>8, Zenon DEF Moves, Local
<1> QED
  BY <1>2, <1>3, Zenon DEF DiscoverHistory

\* Every message that was added and still exists is read, and the commit is good.
LEMMA DiscoverMessagesMoves ==
    ASSUME NEW p \in Procs, Rest, Local(pc[p], loc[p], World), DiscoverMessages(p)
    PROVE  Moves(p)
<1> DEFINE l == loc[p]
           M == AddedBetween(l.commit.expected, l.commit.next) \ vanished
<1>1. pc[p] = "discover.messages" /\ Sane(l, World)
  BY Zenon DEF DiscoverMessages, Local
<1>2. PICK q \in Read(M) :
          StartCommit(p, "discover.committed", [l EXCEPT !.commit.msgs = q, !.seen = None])
  BY Zenon DEF DiscoverMessages
<1> DEFINE n == [l EXCEPT !.commit.msgs = q, !.seen = None]
           c == [l.commit EXCEPT !.msgs = q]
           k == [n EXCEPT !.stack = <<"discover.committed">>]
<1>3. /\ l.commit \in Commit /\ l.commit.expected < l.commit.next
      /\ l.commit.next <= Len(World.log) /\ l.proved = 0
  BY <1>1, Outside DEF InDiscover, Discovering, Tops
<1>4. M = Added(World.log, l.commit.expected, l.commit.next) \ World.vanished
  BY Zenon DEF AddedBetween, Added, World
<1>5. World.log \in Seq(MessageIDs) /\ Len(World.log) <= MaxHistory
  BY Zenon DEF World, Rest
<1> HIDE DEF M
<1>6. \A m \in M : m \in MessageIDs
  BY <1>4, <1>5 DEF Added
<1>7. {q[i].id : i \in DOMAIN q} = M
  BY <1>2, Zenon DEF Read
<1>8. PICK j \in 0 .. MaxHistory : q \in [1 .. j -> [id : M, body : Versions]]
  BY <1>2, Zenon DEF Read
<1>9. q \in [1 .. j -> Message]
  BY <1>6, <1>8, Zenon DEF Message
<1>10. /\ \A m \in M : \E i \in DOMAIN q : q[i].id = m
       /\ \A i \in DOMAIN q : q[i].id \in M
  BY <1>7, Zenon
<1>11. c \in Commit /\ c.msgs = q /\ c.next = l.commit.next /\ c.expected = l.commit.expected
  BY <1>3, <1>9 DEF Commit
<1>12. Good(c, World)
  BY <1>3, <1>4, <1>10, <1>11, Zenon DEF Good
<1>13. n = [l EXCEPT !.commit = c, !.seen = None]
  BY <1>1, Zenon DEF Sane, Fields
<1>14. Call(p, "prove", "commit.proved", k)
  BY <1>2, Zenon DEF StartCommit
<1> HIDE DEF c, n
<1>15. /\ Sane(k, World) /\ k.stack = <<"discover.committed">> /\ k.proved = 0
       /\ k.commit = c
  BY <1>1, <1>3, <1>11, <1>13, Zenon DEF Sane, Fields
<1> HIDE DEF k
<1>16. /\ "commit.proved" \in ProveReturns /\ "commit.proved" \notin Reconciles \cup Saving
       /\ "discover.committed" \in Tops
  BY Zenon DEF ProveReturns, Reconciles, Saving, Tops
<1> QED
  BY <1>12, <1>14, <1>15, <1>16, BodyProves, Zenon

\* The steps of Discover that begin or end it, or only remember the lifecycle.
LEMMA DiscoverOthersMove ==
    ASSUME NEW p \in Procs,
           \/ DiscoverReconciled(p) \/ DiscoverCommitted(p) \/ DiscoverLifecycle(p)
           \/ ProviderRefuses(p) \/ ProviderFails(p) \/ DiscoverReadFails(p) \/ DiscoverMark(p)
           \/ Crash(p)
    PROVE  Moves(p)
<1>1. \/ Finish(p)
      \/ Goto(p, "discover.lifecycle", Idle)
      \/ \E s : Goto(p, "discover.cursor", [Idle EXCEPT !.seen = s])
      \/ \E s : Goto(p, "discover.mark", [Idle EXCEPT !.seen = s])
  BY Zenon DEF DiscoverReconciled, DiscoverCommitted, DiscoverLifecycle, ProviderRefuses,
         ProviderFails, DiscoverReadFails, DiscoverMark, Crash
<1> QED
  BY <1>1, IdleSane, FinishMoves, Zenon DEF Moves

-----------------------------------------------------------------------------
(* The shared state. *)

\* A step of one process keeps what is known of all of them, as the world only grows.
LEMMA MovesKeeps ==
    ASSUME Processes, NEW p \in Procs, Moves(p), Grew(World, World')
    PROVE  Processes'
<1>1. PICK lab, n : Goto(p, lab, n) /\ Local(lab, n, World)
  BY Zenon DEF Moves
<1>2. /\ pc' = [q \in Procs |-> pc'[q]] /\ loc' = [q \in Procs |-> loc'[q]]
      /\ pc'[p] = lab /\ loc'[p] = n
      /\ \A q \in Procs \ {p} : pc'[q] = pc[q] /\ loc'[q] = loc[q]
  BY <1>1, Zenon DEF Goto, Processes
<1>3. \A q \in Procs : Local(pc'[q], loc'[q], World)
  BY <1>1, <1>2, Zenon DEF Processes
<1>4. \A q \in Procs : Local(pc'[q], loc'[q], World')
  BY <1>3, GrownLocal, Zenon
<1> QED
  BY <1>2, <1>4, Zenon DEF Processes

\* So does a step of none.
LEMMA StayKeeps ==
    ASSUME Processes, UNCHANGED <<pc, loc>>, Grew(World, World')
    PROVE  Processes'
<1>1. \A q \in Procs : Local(pc'[q], loc'[q], World')
  BY GrownLocal, Zenon DEF Processes
<1> QED
  BY <1>1, Zenon DEF Processes

\* A world that does not change has grown, and statements in flight stay good when it grows.
LEMMA WorldSame ==
    ASSUME Rows, Rest, UNCHANGED <<rows, mailbox>>
    PROVE  Grew(World, World') /\ Rows' /\ (NoMessageSkipped => NoMessageSkipped')
<1>1. /\ World' = World
      /\ UNCHANGED <<lifecycle, cursor, messages, attempt, staging, log, vanished>>
  BY Zenon DEF World, rows, mailbox
<1>2. Grew(World, World)
  BY DiscoveryConstants DEF Grew, World, Rows, Rest
<1>3. Rows'
  BY <1>1, Zenon DEF Rows
<1>4. NoMessageSkipped => NoMessageSkipped'
  BY <1>1, Zenon DEF NoMessageSkipped, AddedBetween
<1> QED
  BY <1>1, <1>2, <1>3, <1>4, Zenon

\* Late statements stay good while the rows move on.
LEMMA GrownRest ==
    ASSUME Rest, Grew(World, World'), UNCHANGED mailbox, faults' \in 0 .. MaxFaults,
           \A s \in late' : s \in late \/ GoodStatement(s, World)
    PROVE  Rest'
<1>1. \A s \in late' : GoodStatement(s, World)
  BY Zenon DEF Rest
<1>2. \A s \in late' : GoodStatement(s, World')
  BY <1>1, GrownGood, Zenon DEF GoodStatement
<1> QED
  BY <1>2, Zenon DEF Rest, mailbox

\* A step of a process that reads.
LEMMA ReadStep ==
    ASSUME IInv, NEW p \in Procs, Moves(p), UNCHANGED <<rows, mailbox>>,
           faults' \in 0 .. MaxFaults, \A s \in late' : s \in late \/ GoodStatement(s, World)
    PROVE  IInv'
<1>1. Rows /\ Rest /\ Processes /\ NoMessageSkipped
  BY Zenon DEF IInv
<1>2. Grew(World, World') /\ Rows' /\ NoMessageSkipped'
  BY <1>1, WorldSame, Zenon
<1>3. Processes'
  BY <1>1, <1>2, MovesKeeps, Zenon
<1>4. UNCHANGED mailbox
  OBVIOUS
<1>5. Rest'
  BY <1>1, <1>2, <1>4, GrownRest, Zenon
<1> QED
  BY <1>2, <1>3, <1>5, Zenon DEF IInv

\* The statements that leave the cursor and the messages alone: create, stage, seal, abort.
LEMMA StagingStep ==
    ASSUME Rows, Rest, NoMessageSkipped, UNCHANGED <<cursor, messages, mailbox>>
    PROVE  /\ Grew(World, World') /\ NoMessageSkipped' /\ World' = World
           /\ cursor' \in 0 .. MaxHistory /\ cursor' <= Len(log')
           /\ messages' \in [MessageIDs -> Versions \cup {None}]
<1>1. World' = World /\ UNCHANGED <<cursor, messages, log, vanished>>
  BY Zenon DEF World, mailbox
<1>2. Grew(World, World)
  BY DiscoveryConstants DEF Grew, World, Rows, Rest
<1>3. NoMessageSkipped'
  BY <1>1 DEF NoMessageSkipped, AddedBetween
<1> QED
  BY <1>1, <1>2, <1>3, Zenon DEF Rows

\* The rows of an attempt, as Rows has them.
AttemptRows(a, st) ==
    /\ a = [commit |-> a.commit, state |-> a.state]
    /\ a.state \in {"open", "sealed"}
    /\ Good(a.commit, World)
    /\ a.commit.expected = cursor
    /\ lifecycle.state # "revoked"
    /\ st = [i \in DOMAIN st |-> a.commit.msgs[i]]
    /\ DOMAIN st \subseteq DOMAIN a.commit.msgs
    /\ a.state = "sealed" => st = a.commit.msgs

\* A statement that changes the staging, and what it has to show.
LEMMA StagingRows ==
    ASSUME Rows, Rest, NoMessageSkipped, UNCHANGED <<lifecycle, cursor, messages, mailbox>>,
           (attempt' = NoAttempt /\ staging' = NoRows) \/ AttemptRows(attempt', staging')
    PROVE  Rows' /\ Grew(World, World') /\ NoMessageSkipped'
<1>1. /\ Grew(World, World') /\ NoMessageSkipped' /\ World' = World
      /\ cursor' \in 0 .. MaxHistory /\ cursor' <= Len(log')
      /\ messages' \in [MessageIDs -> Versions \cup {None}]
  BY StagingStep, Zenon DEF mailbox
<1>2. lifecycle' \in [state : DOMAIN Transitions, version : 1 .. MaxVersion]
  BY Zenon DEF Rows
<1> QED
  BY <1>1, <1>2, Zenon DEF Rows, AttemptRows

\* The insert of an attempt.
LEMMA CreateKeeps ==
    ASSUME Rows, Rest, NoMessageSkipped, UNCHANGED mailbox,
           NEW s, GoodStatement(s, World), CreateApplies(s.commit),
           attempt' = [commit |-> s.commit, state |-> "open"],
           UNCHANGED <<lifecycle, cursor, messages, staging>>
    PROVE  Rows' /\ Grew(World, World') /\ NoMessageSkipped'
<1>1. staging = NoRows
  BY Zenon DEF Rows, CreateApplies, NoAttempt
<1>2. DOMAIN NoRows = {} /\ NoRows = [i \in {} |-> s.commit.msgs[i]]
  BY DEF NoRows
<1>3. AttemptRows(attempt', staging')
  BY <1>1, <1>2, Zenon DEF AttemptRows, GoodStatement, CreateApplies
<1> QED
  BY <1>3, StagingRows, Zenon

\* The insert of a chunk.
LEMMA StageKeeps ==
    ASSUME Rows, Rest, NoMessageSkipped, UNCHANGED mailbox,
           NEW s, GoodStatement(s, World), IsAttempt(s.commit, "open"),
           staging' = Staged(s), UNCHANGED <<lifecycle, cursor, messages, attempt>>
    PROVE  Rows' /\ Grew(World, World') /\ NoMessageSkipped'
<1>1. AttemptRows(attempt, staging) /\ attempt.state = "open" /\ attempt.commit = s.commit
  BY DEF Rows, AttemptRows, IsAttempt, NoAttempt
<1>2. Chunk(s.commit, s.chunk) \subseteq DOMAIN s.commit.msgs
  BY CommitType, Zenon DEF Chunk, GoodStatement, Good
<1> DEFINE D == DOMAIN staging \cup Chunk(s.commit, s.chunk)
<1>3. staging' = [i \in D |-> s.commit.msgs[i]]
  <2>1. \A i \in DOMAIN staging : staging[i] = s.commit.msgs[i]
    BY <1>1, Zenon DEF AttemptRows
  <2> QED
    BY <2>1, Zenon DEF Staged
<1>4. D \subseteq DOMAIN s.commit.msgs
  BY <1>1, <1>2, Zenon DEF AttemptRows
<1> HIDE DEF D
<1>5. AttemptRows(attempt', staging')
  BY <1>1, <1>3, <1>4, Zenon DEF AttemptRows
<1> QED
  BY <1>5, StagingRows, Zenon

\* The update that seals.
LEMMA SealKeeps ==
    ASSUME Rows, Rest, NoMessageSkipped, UNCHANGED mailbox,
           NEW s, SealApplies(s.commit),
           attempt' = [attempt EXCEPT !.state = "sealed"],
           UNCHANGED <<lifecycle, cursor, messages, staging>>
    PROVE  Rows' /\ Grew(World, World') /\ NoMessageSkipped'
<1>1. /\ AttemptRows(attempt, staging) /\ attempt.state = "open" /\ attempt.commit = s.commit
      /\ staging = s.commit.msgs
  BY DEF Rows, AttemptRows, SealApplies, IsAttempt, NoAttempt
<1>2. attempt' = [commit |-> s.commit, state |-> "sealed"]
  BY <1>1, Zenon DEF AttemptRows
<1>3. AttemptRows(attempt', staging')
  BY <1>1, <1>2, Zenon DEF AttemptRows
<1> QED
  BY <1>3, StagingRows, Zenon

\* What the promotion of a sealed attempt's rows does to the messages: those of the attempt
\* get the version that was read, the others stay.
LEMMA PromotedIs ==
    ASSUME Rows, AttemptRows(attempt, staging), staging = attempt.commit.msgs
    PROVE  /\ Promoted \in [MessageIDs -> Versions \cup {None}]
           /\ \A m \in MessageIDs :
                 IF \E i \in DOMAIN staging : staging[i].id = m
                 THEN \E i \in DOMAIN staging : staging[i].id = m /\ Promoted[m] = staging[i].body
                                                /\ Promoted[m] \in Versions
                 ELSE Promoted[m] = messages[m]
<1>1. \A i \in DOMAIN staging : staging[i].body \in Versions
  BY CommitType, Zenon DEF AttemptRows, Good
<1>2. ASSUME NEW m \in MessageIDs, NEW j \in DOMAIN staging, staging[j].id = m
      PROVE  \E i \in DOMAIN staging :
                 staging[i].id = m /\ Promoted[m] = staging[i].body /\ Promoted[m] \in Versions
  <2> DEFINE i == CHOOSE i \in DOMAIN staging : staging[i].id = m
  <2>1. i \in DOMAIN staging /\ staging[i].id = m
    BY <1>2, Zenon
  <2>2. Promoted[m] = staging[i].body
    BY <1>2, Zenon DEF Promoted
  <2> HIDE DEF i
  <2> QED
    BY <1>1, <2>1, <2>2, Zenon
<1>3. ASSUME NEW m \in MessageIDs, ~\E i \in DOMAIN staging : staging[i].id = m
      PROVE  Promoted[m] = messages[m] /\ messages[m] \in Versions \cup {None}
  BY <1>3, Zenon DEF Promoted, Rows
<1>4. \A m \in MessageIDs : Promoted[m] \in Versions \cup {None}
  BY <1>2, <1>3, Zenon
<1>5. Promoted = [m \in MessageIDs |-> Promoted[m]]
  BY Zenon DEF Promoted
<1>6. Promoted \in [MessageIDs -> Versions \cup {None}]
  BY <1>4, <1>5, Zenon
<1> QED
  BY <1>2, <1>3, <1>6, Zenon

\* The statement that finalizes: nothing that the new cursor passes is missing.
LEMMA FinalizeKeeps ==
    ASSUME Rows, Rest, NoMessageSkipped, UNCHANGED mailbox,
           NEW s, FinalizeApplies(s.commit), messages' = Promoted, cursor' = Advanced,
           attempt' = NoAttempt, staging' = NoRows, UNCHANGED lifecycle
    PROVE  Rows' /\ Grew(World, World') /\ NoMessageSkipped'
<1> DEFINE c == attempt.commit
<1>1. AttemptRows(attempt, staging) /\ staging = c.msgs
  BY DEF Rows, AttemptRows, FinalizeApplies, IsAttempt, NoAttempt
<1>2. /\ messages' \in [MessageIDs -> Versions \cup {None}]
      /\ \A m \in MessageIDs :
            IF \E i \in DOMAIN staging : staging[i].id = m
            THEN messages'[m] # None ELSE messages'[m] = messages[m]
  BY <1>1, PromotedIs, DiscoveryConstants
<1>3. /\ c \in Commit /\ c.expected = cursor /\ c.expected < c.next /\ c.next <= Len(log)
      /\ c.next \in 0 .. MaxHistory /\ c.next \in Nat /\ cursor \in Nat /\ cursor' = c.next
  BY <1>1, CommitType, DiscoveryConstants, Zenon DEF AttemptRows, Good, World, Advanced
<1>4. log' = log /\ vanished' = vanished
  BY Zenon DEF mailbox
<1>5. Rows'
  BY <1>2, <1>3, <1>4, Zenon DEF Rows
<1>6. Grew(World, World')
  <2>1. log \in Seq(MessageIDs) /\ cursor <= cursor' /\ cursor' \in Nat
    BY <1>3 DEF Rest
  <2>2. \A m \in MessageIDs : messages[m] # None => messages'[m] # None
    BY <1>2, Zenon
  <2> QED
    BY <1>3, <1>4, <2>1, <2>2 DEF Grew, World
<1>7. ASSUME NEW m \in AddedBetween(0, c.next) \ vanished PROVE messages'[m] # None
  <2>1. PICK h \in 1 .. Len(log) : 0 < h /\ h <= c.next /\ m = log[h]
    BY Zenon DEF AddedBetween
  <2>2. m \in MessageIDs /\ h \in Nat
    BY <2>1 DEF Rest
  <2>3. CASE h <= cursor
    <3>1. m \in AddedBetween(0, cursor) \ vanished
      BY <2>1, <2>3, Zenon DEF AddedBetween
    <3>2. messages[m] # None
      BY <3>1, Zenon DEF NoMessageSkipped
    <3> QED
      BY <1>2, <2>2, <3>2, Zenon
  <2>4. CASE ~(h <= cursor)
    <3>1. c.expected < h
      BY <1>3, <2>2, <2>4
    <3>2. m \in Added(World.log, c.expected, c.next) \ World.vanished
      BY <2>1, <3>1, Zenon DEF Added, World
    <3>3. \E i \in DOMAIN staging : staging[i].id = m
      BY <1>1, <3>2, Zenon DEF AttemptRows, Good
    <3> QED
      BY <1>2, <2>2, <3>3, Zenon
  <2> QED
    BY <2>3, <2>4, Zenon
<1>8. NoMessageSkipped'
  BY <1>3, <1>4, <1>7 DEF NoMessageSkipped, AddedBetween
<1> QED
  BY <1>5, <1>6, <1>8, Zenon

\* The database runs a statement, whenever that is.
LEMMA ExecuteKeeps ==
    ASSUME Rows, Rest, NoMessageSkipped, UNCHANGED mailbox,
           NEW s, GoodStatement(s, World), Execute(s)
    PROVE  Rows' /\ Grew(World, World') /\ NoMessageSkipped'
<1>1. CASE UNCHANGED rows
  BY <1>1, WorldSame, Zenon
<1>2. CASE /\ Applies(s) /\ s.op = "create"
           /\ attempt' = [commit |-> s.commit, state |-> "open"]
           /\ UNCHANGED <<lifecycle, cursor, messages, staging>>
  BY <1>2, CreateKeeps, Zenon DEF Applies
<1>3. CASE /\ Applies(s) /\ s.op = "stage" /\ staging' = Staged(s)
           /\ UNCHANGED <<lifecycle, cursor, messages, attempt>>
  BY <1>3, StageKeeps, Zenon DEF Applies
<1>4. CASE /\ Applies(s) /\ s.op = "seal" /\ attempt' = [attempt EXCEPT !.state = "sealed"]
           /\ UNCHANGED <<lifecycle, cursor, messages, staging>>
  BY <1>4, SealKeeps, Zenon DEF Applies
<1>5. CASE /\ Applies(s) /\ s.op = "finalize" /\ messages' = Promoted /\ cursor' = Advanced
           /\ attempt' = NoAttempt /\ staging' = NoRows /\ UNCHANGED lifecycle
  BY <1>5, FinalizeKeeps, Zenon DEF Applies
<1>6. CASE /\ Applies(s) /\ s.op = "abort" /\ attempt' = NoAttempt /\ staging' = NoRows
           /\ UNCHANGED <<lifecycle, cursor, messages>>
  BY <1>6, StagingRows, Zenon
<1> QED
  BY <1>1, <1>2, <1>3, <1>4, <1>5, <1>6, Zenon DEF Execute

\* The lifecycle changes; a revocation removes the attempt and its rows.
LEMMA LifecycleKeeps ==
    ASSUME Rows, Rest, NoMessageSkipped, UNCHANGED mailbox, NEW t, LifecycleTo(t)
    PROVE  Rows' /\ Grew(World, World') /\ NoMessageSkipped'
<1>1. /\ Grew(World, World') /\ NoMessageSkipped' /\ World' = World
      /\ cursor' \in 0 .. MaxHistory /\ cursor' <= Len(log')
      /\ messages' \in [MessageIDs -> Versions \cup {None}]
  BY StagingStep, Zenon DEF LifecycleTo, mailbox
<1>2. /\ lifecycle.state \in {"active", "paused", "reauthorization_required", "revoked"}
      /\ lifecycle.version \in 1 .. MaxVersion /\ lifecycle.version < MaxVersion
      /\ t \in Transitions[lifecycle.state]
      /\ lifecycle' = [state |-> t, version |-> lifecycle.version + 1]
  BY Zenon DEF Rows, LifecycleTo, Transitions
<1>3. t \in DOMAIN Transitions
  BY <1>2 DEF Transitions
<1>4. lifecycle' \in [state : DOMAIN Transitions, version : 1 .. MaxVersion]
  BY <1>2, <1>3, DiscoveryConstants
<1>5. CASE t = "revoked"
  <2>1. attempt' = NoAttempt /\ staging' = NoRows
    BY <1>5, ZenonT(30) DEF LifecycleTo
  <2> QED
    BY <1>1, <1>4, <2>1, Zenon DEF Rows
<1>6. CASE t # "revoked"
  <2>1. attempt' = attempt /\ staging' = staging /\ lifecycle'.state # "revoked"
    BY <1>2, <1>6 DEF LifecycleTo
  <2>2. cursor' = cursor
    BY Zenon DEF LifecycleTo
  <2> QED
    BY <1>1, <1>4, <2>1, <2>2, Zenon DEF Rows
<1> QED
  BY <1>5, <1>6, Zenon

\* A process sends its statement and the database runs it.
LEMMA MutateStep ==
    ASSUME IInv, NEW p \in Procs, Mutate(p), UNCHANGED mailbox
    PROVE  IInv'
<1>1. Rows /\ Rest /\ Processes /\ NoMessageSkipped /\ Local(pc[p], loc[p], World)
  BY Zenon DEF IInv, Processes
<1>2. pc[p] = "mutate" /\ Execute(loc[p].stmt) /\ CallVerify(p) /\ UNCHANGED <<late, faults>>
  BY Zenon DEF Mutate
<1>3. GoodStatement(loc[p].stmt, World)
  BY <1>1, <1>2, Inside, Zenon DEF At
<1>4. Rows' /\ Grew(World, World') /\ NoMessageSkipped'
  BY <1>1, <1>2, <1>3, ExecuteKeeps, ZenonT(30)
<1>5. Processes'
  BY <1>1, <1>2, <1>4, CallVerifyMoves, MovesKeeps, Zenon
<1>6. Rest'
  BY <1>1, <1>2, <1>4, GrownRest, Zenon DEF Rest
<1> QED
  BY <1>4, <1>5, <1>6, Zenon DEF IInv

\* The acknowledgement of a statement is lost, or the statement is; it may still arrive.
LEMMA MutateFailsStep ==
    ASSUME IInv, NEW p \in Procs, MutateFails(p), UNCHANGED mailbox
    PROVE  IInv'
<1>1. Rest /\ Processes /\ Local(pc[p], loc[p], World)
  BY Zenon DEF IInv, Processes
<1>2. /\ pc[p] = "mutate" /\ CallVerify(p) /\ late' = late \cup {loc[p].stmt} /\ UNCHANGED rows
      /\ faults < MaxFaults /\ faults' = faults + 1
  BY Zenon DEF MutateFails, Fault
<1>3. GoodStatement(loc[p].stmt, World)
  BY <1>1, <1>2, Inside, Zenon DEF At
<1>4. Moves(p)
  BY <1>1, <1>2, CallVerifyMoves, Zenon
<1>5. faults' \in 0 .. MaxFaults
  <2>1. faults \in 0 .. MaxFaults /\ MaxFaults \in Nat
    BY <1>1, DiscoveryConstants, Zenon DEF Rest
  <2> QED
    BY <1>2, <2>1
<1>6. \A s \in late' : s \in late \/ GoodStatement(s, World)
  BY <1>2, <1>3, Zenon
<1>7. UNCHANGED <<rows, mailbox>>
  BY <1>2, Zenon
<1> QED
  BY <1>4, <1>5, <1>6, <1>7, ReadStep, Zenon

\* It does arrive.
LEMMA LateStep ==
    ASSUME IInv, NEW s, LateExecute(s), UNCHANGED mailbox
    PROVE  IInv'
<1>1. Rows /\ Rest /\ Processes /\ NoMessageSkipped
  BY Zenon DEF IInv
<1>2. s \in late /\ late' = late \ {s} /\ Execute(s) /\ UNCHANGED <<faults, pc, loc>>
  BY Zenon DEF LateExecute
<1>3. Rows' /\ Grew(World, World') /\ NoMessageSkipped'
  BY <1>1, <1>2, ExecuteKeeps, Zenon DEF Rest
<1>4. Processes'
  BY <1>1, <1>2, <1>3, StayKeeps, Zenon
<1>5. Rest'
  BY <1>1, <1>2, <1>3, GrownRest, Zenon DEF Rest
<1> QED
  BY <1>3, <1>4, <1>5, Zenon DEF IInv

\* Someone else changes the lifecycle.
LEMMA ChangeLifecycleStep ==
    ASSUME IInv, NEW t, ChangeLifecycle(t)
    PROVE  IInv'
<1>1. Rows /\ Rest /\ Processes /\ NoMessageSkipped
  BY Zenon DEF IInv
<1>2. LifecycleTo(t) /\ UNCHANGED <<late, faults, pc, loc, mailbox>>
  BY Zenon DEF ChangeLifecycle
<1>3. Rows' /\ Grew(World, World') /\ NoMessageSkipped'
  BY <1>1, <1>2, LifecycleKeeps, Zenon
<1>4. Processes'
  BY <1>1, <1>2, <1>3, StayKeeps, Zenon
<1>5. Rest'
  BY <1>1, <1>2, <1>3, GrownRest, Zenon DEF Rest
<1> QED
  BY <1>3, <1>4, <1>5, Zenon DEF IInv

\* Discover marks the account for reauthorization, or finds that the lifecycle has changed.
LEMMA DiscoverMarkStep ==
    ASSUME IInv, NEW p \in Procs, DiscoverMark(p), UNCHANGED mailbox
    PROVE  IInv'
<1>1. Rows /\ Rest /\ Processes /\ NoMessageSkipped /\ Moves(p)
  BY DiscoverOthersMove, Zenon DEF IInv
<1>2. UNCHANGED <<late, faults>> /\ (UNCHANGED rows \/ LifecycleTo("reauthorization_required"))
  BY Zenon DEF DiscoverMark
<1>3. Rows' /\ Grew(World, World') /\ NoMessageSkipped'
  BY <1>1, <1>2, LifecycleKeeps, WorldSame, Zenon
<1>4. Processes'
  BY <1>1, <1>3, MovesKeeps, Zenon
<1>5. Rest'
  BY <1>1, <1>2, <1>3, GrownRest, Zenon DEF Rest
<1> QED
  BY <1>3, <1>4, <1>5, Zenon DEF IInv

\* The mailbox changes: what was added stays added.
LEMMA MailStep ==
    ASSUME IInv, UNCHANGED <<rows, late, faults, pc, loc>>, Grew(World, World'),
           log' \in Seq(MessageIDs), Len(log') <= MaxHistory, vanished' \subseteq MessageIDs
    PROVE  IInv'
<1>1. Rows /\ Rest /\ Processes /\ NoMessageSkipped
  BY Zenon DEF IInv
<1>2. UNCHANGED <<lifecycle, cursor, messages, attempt, staging>>
  BY Zenon DEF rows
<1>3. /\ Len(log) \in Nat /\ Len(log') \in Nat /\ Len(log) <= Len(log') /\ vanished \subseteq vanished'
      /\ cursor \in Nat
  BY <1>1, DiscoveryConstants DEF Grew, World, Rest, Rows
<1>4. Rows'
  <2>1. cursor' <= Len(log')
    BY <1>1, <1>2, <1>3 DEF Rows
  <2>2. \A c : Good(c, World) => Good(c, World')
    BY GrownGood, Zenon
  <2> QED
    BY <1>1, <1>2, <2>1, <2>2, Zenon DEF Rows
<1>5. Rest'
  <2>1. \A s \in late' : GoodStatement(s, World')
    BY <1>1, GrownGood, Zenon DEF Rest, GoodStatement
  <2> QED
    BY <1>1, <2>1, Zenon DEF Rest
<1>6. Processes'
  BY <1>1, StayKeeps, Zenon
<1>7. NoMessageSkipped'
  <2>1. Added(World'.log, 0, cursor) = Added(World.log, 0, cursor)
    <3>1. cursor <= Len(World.log)
      BY <1>1, Zenon DEF Rows, World
    <3> QED
      BY <1>3, <3>1, GrownAdded
  <2>2. AddedBetween(0, cursor)' = AddedBetween(0, cursor)
    BY <1>2, <2>1, Zenon DEF Added, AddedBetween, World
  <2> QED
    BY <1>1, <1>2, <1>3, <2>2, Zenon DEF NoMessageSkipped
<1> QED
  BY <1>4, <1>5, <1>6, <1>7, Zenon DEF IInv

\* A history with one message more.
LEMMA Appended ==
    ASSUME NEW S, NEW h \in Seq(S), NEW m \in S
    PROVE  /\ Append(h, m) \in Seq(S) /\ Len(Append(h, m)) = Len(h) + 1 /\ Len(h) \in Nat
           /\ \A i \in 1 .. Len(h) : Append(h, m)[i] = h[i]
OBVIOUS

\* A message arrives.
LEMMA NewMailStep ==
    ASSUME IInv, NEW m \in MessageIDs, NewMail(m)
    PROVE  IInv'
<1>1. Rows /\ Rest
  BY Zenon DEF IInv
<1>2. /\ log \in Seq(MessageIDs) /\ Len(log) < MaxHistory /\ log' = Append(log, m)
      /\ vanished' = vanished /\ UNCHANGED <<rows, late, faults, pc, loc>>
  BY <1>1, Zenon DEF NewMail, Rest
<1>3. /\ log' \in Seq(MessageIDs) /\ Len(log') = Len(log) + 1 /\ Len(log) \in Nat
      /\ \A i \in 1 .. Len(log) : log'[i] = log[i]
  BY <1>2, Appended, Zenon
<1>4. cursor \in Nat /\ cursor' = cursor /\ messages' = messages
  BY <1>1, <1>2, DiscoveryConstants DEF Rows, rows
<1>5. Grew(World, World')
  <2>1. Len(log) <= Len(log')
    BY <1>3
  <2> QED
    BY <1>2, <1>3, <1>4, <2>1 DEF Grew, World
<1>6. Len(log') <= MaxHistory /\ vanished' \subseteq MessageIDs
  <2>1. vanished' \subseteq MessageIDs
    BY <1>1, <1>2, Zenon DEF Rest
  <2>2. Len(log') <= MaxHistory
    BY <1>2, <1>3, DiscoveryConstants
  <2> QED
    BY <2>1, <2>2, Zenon
<1> QED
  BY <1>2, <1>3, <1>5, <1>6, MailStep, Zenon

\* A message is deleted from the mailbox.
LEMMA VanishStep ==
    ASSUME IInv, NEW m \in MessageIDs, Vanish(m)
    PROVE  IInv'
<1>1. Rows /\ Rest
  BY Zenon DEF IInv
<1>2. /\ vanished' = vanished \cup {m} /\ log' = log
      /\ UNCHANGED <<rows, late, faults, pc, loc>>
  BY Zenon DEF Vanish
<1>3. cursor \in Nat /\ cursor' = cursor /\ messages' = messages
  BY <1>1, <1>2, DiscoveryConstants DEF Rows, rows
<1>4. Grew(World, World')
  BY <1>1, <1>2, <1>3 DEF Grew, World, Rest
<1>5. log' \in Seq(MessageIDs) /\ Len(log') <= MaxHistory /\ vanished' \subseteq MessageIDs
  BY <1>1, <1>2, Zenon DEF Rest
<1> QED
  BY <1>2, <1>4, <1>5, MailStep, Zenon

-----------------------------------------------------------------------------
(* The inductive invariant. *)

\* Nothing is staged, stored or running at first.
LEMMA InitInv == Init => IInv
<1> SUFFICES ASSUME Init PROVE IInv
  OBVIOUS
<1>1. /\ lifecycle = [state |-> "active", version |-> 1] /\ cursor = 0
      /\ messages = [m \in MessageIDs |-> None] /\ attempt = NoAttempt /\ staging = NoRows
      /\ late = {} /\ faults = 0 /\ pc = [p \in Procs |-> "idle"] /\ loc = [p \in Procs |-> Idle]
      /\ log = <<>> /\ vanished = {}
  BY Zenon DEF Init, StoreInit
<1>2. Rows
  <2>1. lifecycle \in [state : DOMAIN Transitions, version : 1 .. MaxVersion]
    BY <1>1, DiscoveryConstants DEF Transitions
  <2>2. cursor \in 0 .. MaxHistory /\ cursor <= Len(log)
    BY <1>1, DiscoveryConstants
  <2> QED
    BY <1>1, <2>1, <2>2, Zenon DEF Rows
<1>3. Rest
  BY <1>1, DiscoveryConstants DEF Rest
<1>4. Processes
  BY <1>1, IdleSane, Zenon DEF Processes
<1>5. NoMessageSkipped
  BY <1>1 DEF NoMessageSkipped, AddedBetween
<1> QED
  BY <1>2, <1>3, <1>4, <1>5, Zenon DEF IInv

\* A step in which a process returns from a call.
LEMMA ResumeStep ==
    ASSUME IInv, NEW p \in Procs, Resume(p)
    PROVE  IInv'
<1>1. Local(pc[p], loc[p], World) /\ faults \in 0 .. MaxFaults
  BY Zenon DEF IInv, Processes, Rest
<1>2. Moves(p)
  BY <1>1, HandleReturnsMoves, DiscoverOthersMove, Zenon DEF Resume, DiscoverReturns
<1>3. UNCHANGED <<rows, late, faults>> /\ UNCHANGED mailbox
  BY Zenon DEF Resume, HandleReturns, DiscoverReturns, DiscoverReconciled, DiscoverCommitted, Reads
<1>4. UNCHANGED <<rows, mailbox>> /\ faults' \in 0 .. MaxFaults /\ \A s \in late' : s \in late
  BY <1>1, <1>3, Zenon
<1> QED
  BY <1>2, <1>4, ReadStep, Zenon

\* A step of a process of its own, or a call of Discover, or an answer of the provider.
LEMMA OwnStep ==
    ASSUME IInv, NEW p \in Procs, Start(p) \/ Step(p) \/ Provider(p)
    PROVE  IInv'
<1>1. Rows /\ Rest /\ Local(pc[p], loc[p], World) /\ faults \in 0 .. MaxFaults /\ UNCHANGED mailbox
  BY Zenon DEF IInv, Processes, Rest, Start, Step, Provider
<1>2. CASE Mutate(p)
  BY <1>1, <1>2, MutateStep, Zenon
<1>3. CASE DiscoverMark(p)
  BY <1>1, <1>3, DiscoverMarkStep, Zenon
<1>4. CASE \/ HandleReads(p) \/ DiscoverLifecycle(p) \/ DiscoverCursor(p) \/ DiscoverVerify(p)
           \/ DiscoverHistory(p) \/ DiscoverMessages(p) \/ Discover(p)
           \/ ProviderRefuses(p) \/ ProviderFails(p)
  <2>1. Moves(p)
    BY <1>1, <1>4, HandleReadsMoves, DiscoverOthersMove, DiscoverCursorMoves, DiscoverVerifyMoves,
       DiscoverHistoryMoves, DiscoverMessagesMoves, DiscoverMoves, Zenon
  <2>2. UNCHANGED <<rows, late, faults>>
    BY <1>4, Zenon DEF HandleReads, DiscoverLifecycle, DiscoverCursor, DiscoverVerify, DiscoverHistory,
                DiscoverMessages, Discover, ProviderRefuses, ProviderFails, Reads
  <2>3. UNCHANGED <<rows, mailbox>> /\ faults' \in 0 .. MaxFaults /\ \A s \in late' : s \in late
    BY <1>1, <2>2, Zenon
  <2> QED
    BY <2>1, <2>3, ReadStep, Zenon
<1> QED
  BY <1>2, <1>3, <1>4, Zenon DEF Start, Step, Provider, HandleStep, DiscoverStep

\* A fault.
LEMMA DisturbStep ==
    ASSUME IInv, NEW p \in Procs, Disturb(p)
    PROVE  IInv'
<1>1. Local(pc[p], loc[p], World) /\ faults \in 0 .. MaxFaults /\ UNCHANGED mailbox
  BY Zenon DEF IInv, Processes, Rest, Disturb
<1>2. CASE MutateFails(p)
  BY <1>1, <1>2, MutateFailsStep, Zenon
<1>3. CASE HandleReadFails(p) \/ DiscoverReadFails(p) \/ Crash(p)
  <2>1. Moves(p)
    BY <1>1, <1>3, HandleReadFailsMoves, DiscoverOthersMove, Zenon
  <2>2. /\ UNCHANGED <<rows, late>> /\ faults < MaxFaults /\ faults' = faults + 1
    BY <1>3, Zenon DEF HandleReadFails, DiscoverReadFails, Crash, Fault
  <2>3. faults' \in 0 .. MaxFaults
    BY <1>1, <2>2, DiscoveryConstants
  <2>4. UNCHANGED <<rows, mailbox>> /\ \A s \in late' : s \in late
    BY <1>1, <2>2, Zenon
  <2> QED
    BY <2>1, <2>3, <2>4, ReadStep, Zenon
<1> QED
  BY <1>2, <1>3, Zenon DEF Disturb

\* Every step keeps the invariant.
LEMMA NextInv == IInv /\ [Next]_vars => IInv'
<1> SUFFICES ASSUME IInv, [Next]_vars PROVE IInv'
  OBVIOUS
<1>1. CASE UNCHANGED vars
  <2>1. World' = World
    BY <1>1, Zenon DEF vars, World
  <2>2. Rows'
    BY <1>1, <2>1, Zenon DEF vars, IInv, Rows
  <2>3. Rest' /\ NoMessageSkipped'
    BY <1>1, <2>1, Zenon DEF vars, IInv, Rest, NoMessageSkipped, AddedBetween
  <2>4. Processes'
    BY <1>1, <2>1, Zenon DEF vars, IInv, Processes
  <2> QED
    BY <2>2, <2>3, <2>4, Zenon DEF IInv
<1>2. ASSUME NEW p \in Procs, Resume(p) PROVE IInv'
  BY <1>2, ResumeStep, Zenon
<1>3. ASSUME NEW p \in Procs, Start(p) \/ Step(p) \/ Provider(p) PROVE IInv'
  BY <1>3, OwnStep, Zenon
<1>4. ASSUME NEW p \in Procs, Disturb(p) PROVE IInv'
  BY <1>4, DisturbStep, Zenon
<1>5. CASE Arrives
  BY <1>5, LateStep, Zenon DEF Arrives
<1>6. ASSUME NEW m \in MessageIDs, NewMail(m) \/ Vanish(m) PROVE IInv'
  BY <1>6, NewMailStep, VanishStep, Zenon
<1>7. ASSUME NEW t, ChangeLifecycle(t) PROVE IInv'
  BY <1>7, ChangeLifecycleStep, Zenon
<1> QED
  BY <1>1, <1>2, <1>3, <1>4, <1>5, <1>6, <1>7, Zenon DEF Next

\* So it holds in every reachable state.
LEMMA SpecInv == Spec => []IInv
  BY InitInv, NextInv, PTL DEF Spec

-----------------------------------------------------------------------------
(* Theorems. *)

\* The cursor never passes a message that exists in the mailbox and is not stored, for any
\* number of processes, messages and faults (the finalize statement, Discover).
THEOREM NothingSkipped == Spec => []NoMessageSkipped
<1>1. IInv => NoMessageSkipped
  BY Zenon DEF IInv
<1> QED
  BY <1>1, SpecInv, PTL

\* What is staged is whole, of one attempt and about the present (the statements and
\* triggers of migration 0005).
THEOREM StagingSound == Spec => []StagingIsSound
<1>1. ASSUME IInv PROVE StagingIsSound
  <2>1. Rows /\ Rest /\ Processes
    BY <1>1, Zenon DEF IInv
  <2>2. (attempt = NoAttempt /\ staging = NoRows) \/ AttemptRows(attempt, staging)
    BY <2>1, Zenon DEF Rows, AttemptRows
  <2>3. AttemptRows(attempt, staging) =>
            /\ attempt # NoAttempt /\ attempt.commit \in Commit
            /\ attempt.commit.next <= Len(log)
            /\ DOMAIN attempt.commit.msgs \subseteq 1 .. MaxHistory
            /\ \A i \in DOMAIN staging :
                  i \in DOMAIN attempt.commit.msgs /\ staging[i] = attempt.commit.msgs[i]
    BY CommitType, DiscoveryConstants DEF AttemptRows, Good, World, NoAttempt
  <2>4. DOMAIN NoRows = {} /\ NoAttempt.state # "sealed"
    BY DEF NoRows, NoAttempt
  <2>5. AttemptIsCurrent
    BY <2>2, <2>3, Zenon DEF AttemptIsCurrent, AttemptRows
  <2>6. StagingBelongs
    BY <2>2, <2>3, <2>4, Zenon DEF StagingBelongs, AttemptRows
  <2>7. /\ attempt # NoAttempt => attempt.commit \in Commit /\ attempt.state \in {"open", "sealed"}
        /\ DOMAIN staging \subseteq 1 .. MaxHistory
    BY <2>2, <2>3, <2>4, Zenon DEF AttemptRows
  <2>8. \A i \in DOMAIN staging : staging[i] \in Message
    BY <2>2, <2>3, <2>4, CommitType, Zenon
  <2>9. \A s \in late : s.commit \in Commit
    BY <2>1, Zenon DEF Rest, GoodStatement, Good
  <2>10. \A p \in Procs : loc[p].commit = None \/ loc[p].commit \in Commit
    BY <2>1, ZenonT(30) DEF Processes, Local, Sane
  <2>11. TypeOK
    BY <2>1, <2>7, <2>8, <2>9, <2>10 DEF TypeOK, Rows, Rest
  <2> QED
    BY <2>5, <2>6, <2>11, Zenon DEF StagingIsSound
<1> QED
  BY <1>1, SpecInv, PTL

\* What Discover reports as advanced has happened, whoever did it
\* (proveCurrentDiscovery, verifyMutation).
THEOREM AdvancedDurable == Spec => []AdvancedIsDurable
<1>1. ASSUME IInv PROVE AdvancedIsDurable
  <2> SUFFICES ASSUME NEW p \in Procs, pc[p] = "discover.committed", loc[p].err = "nil"
               PROVE  /\ cursor >= loc[p].commit.next
                      /\ \A i \in DOMAIN loc[p].commit.msgs :
                            messages[loc[p].commit.msgs[i].id] # None
    BY Zenon DEF AdvancedIsDurable
  <2>1. Local(pc[p], loc[p], World)
    BY <1>1, Zenon DEF IInv, Processes
  <2>2. pc[p] \in Discovering
    BY ZenonT(30) DEF Discovering, Tops
  <2>3. Reached(loc[p].commit, World)
    BY <2>1, <2>2, Outside, Zenon DEF InDiscover
  <2> QED
    BY <2>3, Zenon DEF Reached, World
<1> QED
  BY <1>1, SpecInv, PTL

\* What a step does to the rows and the mailbox: the database runs a good statement, the
\* lifecycle changes, the mailbox changes, or nothing.
LEMMA StepIs ==
    ASSUME IInv, [Next]_vars
    PROVE  \/ UNCHANGED <<rows, mailbox>>
           \/ UNCHANGED mailbox /\ \E s : Execute(s) /\ GoodStatement(s, World)
           \/ UNCHANGED mailbox /\ \E t : LifecycleTo(t)
           \/ UNCHANGED rows /\ \E m \in MessageIDs : NewMail(m) \/ Vanish(m)
<1>1. CASE UNCHANGED vars
  BY <1>1, Zenon DEF vars, rows, mailbox
<1>2. ASSUME NEW p \in Procs, Resume(p) PROVE UNCHANGED <<rows, mailbox>>
  BY <1>2, ZenonT(30) DEF Resume, HandleReturns, DiscoverReturns, DiscoverReconciled, DiscoverCommitted, Reads
<1>3. ASSUME NEW p \in Procs, Mutate(p) PROVE \E s : Execute(s) /\ GoodStatement(s, World)
  <2>1. Local(pc[p], loc[p], World) /\ pc[p] = "mutate" /\ Execute(loc[p].stmt)
    BY <1>3, Zenon DEF IInv, Processes, Mutate
  <2>2. GoodStatement(loc[p].stmt, World)
    BY <2>1, Inside, Zenon DEF At
  <2> QED
    BY <2>1, <2>2, Zenon
<1>4. ASSUME NEW p \in Procs, Start(p) \/ Step(p) \/ Provider(p), ~Mutate(p)
      PROVE  UNCHANGED mailbox /\ (UNCHANGED rows \/ \E t : LifecycleTo(t))
  <2>1. UNCHANGED mailbox
    BY <1>4, Zenon DEF Start, Step, Provider
  <2>2. \/ Discover(p) \/ HandleReads(p) \/ DiscoverStep(p) \/ ProviderRefuses(p) \/ ProviderFails(p)
    BY <1>4, Zenon DEF Start, Step, Provider, HandleStep
  <2>3. UNCHANGED rows \/ \E t : LifecycleTo(t)
    BY <2>2, Zenon DEF Discover, HandleReads, DiscoverStep, DiscoverLifecycle, DiscoverCursor,
                DiscoverVerify, DiscoverHistory, DiscoverMessages, DiscoverMark, ProviderRefuses,
                ProviderFails, Reads
  <2> QED
    BY <2>1, <2>3, Zenon
<1>5. ASSUME NEW p \in Procs, Disturb(p) PROVE UNCHANGED <<rows, mailbox>>
  BY <1>5, Zenon DEF Disturb, MutateFails, HandleReadFails, DiscoverReadFails, Crash
<1>6. CASE Arrives
  BY <1>6, Zenon DEF Arrives, LateExecute, IInv, Rest
<1>7. ASSUME NEW m \in MessageIDs, NewMail(m) \/ Vanish(m) PROVE UNCHANGED rows
  BY <1>7, Zenon DEF NewMail, Vanish
<1>8. ASSUME NEW t, ChangeLifecycle(t) PROVE UNCHANGED mailbox /\ LifecycleTo(t)
  BY <1>8, Zenon DEF ChangeLifecycle
<1>9. ASSUME NEW p \in Procs, Start(p) \/ Step(p) \/ Provider(p) PROVE UNCHANGED mailbox
  BY <1>9, Zenon DEF Start, Step, Provider
<1> QED
  BY <1>1, <1>2, <1>3, <1>4, <1>5, <1>6, <1>7, <1>8, <1>9, Zenon DEF Next

\* Only an active account advances or gets a new attempt, whatever the sender of the
\* statement had read of the lifecycle (the guards of create and finalize).
THEOREM OnlyActive == Spec => OnlyActiveAdvances
<1> DEFINE A == cursor' # cursor
                \/ attempt' \notin {NoAttempt, attempt, [attempt EXCEPT !.state = "sealed"]}
                => lifecycle.state = "active"
<1>1. ASSUME IInv, [Next]_vars PROVE [A]_vars
  <2>1. CASE UNCHANGED rows
    BY <2>1, Zenon DEF rows
  <2>2. ASSUME NEW s, Execute(s) PROVE A
    BY <2>2, Zenon DEF Execute, Applies, CreateApplies, FinalizeApplies, rows
  <2>3. ASSUME NEW t, LifecycleTo(t) PROVE A
    BY <2>3, Zenon DEF LifecycleTo
  <2> QED
    BY <1>1, <2>1, <2>2, <2>3, StepIs, Zenon
<1>2. Spec => [][A]_vars
  BY <1>1, SpecInv, PTL DEF Spec
<1> QED
  BY <1>2, Zenon DEF OnlyActiveAdvances

\* The finalize statement is the one-step advance of the abstract specification.
LEMMA FinalizeAdvances ==
    ASSUME Rows, Rest, UNCHANGED mailbox,
           NEW c, FinalizeApplies(c), messages' = Promoted, cursor' = Advanced
    PROVE  \E next \in 1 .. Len(log) : Atomic!Advance(next)
<1> DEFINE next == attempt.commit.next
<1>1. AttemptRows(attempt, staging) /\ staging = attempt.commit.msgs /\ ThreadsStable(staging)
  BY DEF Rows, AttemptRows, FinalizeApplies, IsAttempt, NoAttempt
<1>2. /\ attempt.commit \in Commit /\ attempt.commit.expected = cursor /\ cursor \in Nat
      /\ cursor < next /\ next <= Len(log) /\ next \in Nat /\ cursor' = next /\ Len(log) \in Nat
  BY <1>1, CommitType, DiscoveryConstants DEF AttemptRows, Good, World, Advanced, Rest
<1>3. log' = log /\ vanished' = vanished /\ next \in 1 .. Len(log)
  BY <1>2 DEF mailbox
<1>4. Added(World.log, cursor, next) = Atomic!AddedBetween(cursor, next)
  BY ZenonT(30) DEF Added, Atomic!AddedBetween, World
<1>5. \A i \in DOMAIN staging : staging[i].id \in Atomic!AddedBetween(cursor, next)
  BY <1>1, <1>2, <1>4 DEF AttemptRows, Good
<1>6. \A m \in Atomic!AddedBetween(cursor, next) \ vanished :
          \E i \in DOMAIN staging : staging[i].id = m
  BY <1>1, <1>2, <1>4, Zenon DEF AttemptRows, Good, World
<1>7. \A m \in MessageIDs :
          IF \E i \in DOMAIN staging : staging[i].id = m
          THEN \E i \in DOMAIN staging : /\ staging[i].id = m /\ messages'[m] = staging[i].body
                                         /\ messages'[m] \in Versions
          ELSE messages'[m] = messages[m]
  BY <1>1, PromotedIs, ZenonT(30)
<1>8. messages' \in [MessageIDs -> Versions \cup {None}]
  BY <1>1, PromotedIs, Zenon
<1>9. ASSUME NEW m \in MessageIDs
      PROVE  /\ messages'[m] # messages[m] =>
                 /\ m \in Atomic!AddedBetween(cursor, next)
                 /\ messages'[m] # None
                 /\ messages[m] # None => messages'[m].thread = messages[m].thread
             /\ m \in Atomic!AddedBetween(cursor, next) \ vanished => messages'[m] # None
  <2>1. CASE \E i \in DOMAIN staging : staging[i].id = m
    <3>1. PICK i \in DOMAIN staging : /\ staging[i].id = m /\ messages'[m] = staging[i].body
                                      /\ messages'[m] \in Versions
      BY <1>7, <2>1, Zenon
    <3>2. messages'[m] # None
      BY <3>1, DiscoveryConstants, Zenon
    <3>3. messages[m] # None => messages[m].thread = staging[i].body.thread
      BY <1>1, <3>1, Zenon DEF ThreadsStable
    <3> QED
      BY <1>5, <3>1, <3>2, <3>3, Zenon
  <2>2. CASE ~\E i \in DOMAIN staging : staging[i].id = m
    BY <1>6, <1>7, <2>2, Zenon
  <2> QED
    BY <2>1, <2>2, Zenon
<1> HIDE DEF next
<1>10. Atomic!Advance(next)
  BY <1>2, <1>3, <1>8, <1>9, Zenon DEF Atomic!Advance
<1> QED
  BY <1>3, <1>10, Zenon

\* The rows and the mailbox start as the abstract specification does.
LEMMA InitAtomic == Init => Atomic!Init
  BY Zenon DEF Init, StoreInit, Atomic!Init

\* Every step is a step of the abstract specification, or changes nothing it shows.
LEMMA NextAtomic == IInv /\ [Next]_vars => [Atomic!Next]_(Atomic!vars)
<1> SUFFICES ASSUME IInv, [Next]_vars PROVE [Atomic!Next]_(Atomic!vars)
  OBVIOUS
<1>1. Rows /\ Rest
  BY Zenon DEF IInv
<1>2. CASE UNCHANGED <<cursor, messages, mailbox>>
  BY <1>2, Zenon DEF Atomic!vars, mailbox
<1>3. ASSUME UNCHANGED mailbox, NEW s, Execute(s)
      PROVE  [Atomic!Next]_(Atomic!vars)
  <2>1. \/ UNCHANGED <<cursor, messages>>
        \/ FinalizeApplies(s.commit) /\ messages' = Promoted /\ cursor' = Advanced
    BY <1>3, Zenon DEF Execute, Applies, rows
  <2>2. CASE FinalizeApplies(s.commit) /\ messages' = Promoted /\ cursor' = Advanced
    BY <1>1, <1>3, <2>2, FinalizeAdvances, Zenon DEF Atomic!Next
  <2> QED
    BY <1>2, <1>3, <2>1, <2>2, Zenon
<1>4. ASSUME UNCHANGED mailbox, NEW t, LifecycleTo(t)
      PROVE  [Atomic!Next]_(Atomic!vars)
  BY <1>2, <1>4, Zenon DEF LifecycleTo
<1>5. ASSUME UNCHANGED rows, NEW m \in MessageIDs, NewMail(m) \/ Vanish(m)
      PROVE  [Atomic!Next]_(Atomic!vars)
  BY <1>5, Zenon DEF rows, NewMail, Vanish, Atomic!Next, Atomic!NewMail, Atomic!Vanish
<1>6. CASE UNCHANGED <<rows, mailbox>>
  BY <1>2, <1>6, Zenon DEF rows
<1> QED
  BY <1>3, <1>4, <1>5, <1>6, StepIs, Zenon

\* The rows implement the one-step advance of cursor and messages (migration 0005, Discover).
THEOREM AtomicAdvance == Spec => ImplementsAtomic
<1>1. Spec => Atomic!Init /\ [][Atomic!Next]_(Atomic!vars)
  BY InitAtomic, NextAtomic, SpecInv, PTL DEF Spec
<1> QED
  BY <1>1, Zenon DEF ImplementsAtomic, Atomic!Spec
=============================================================================
