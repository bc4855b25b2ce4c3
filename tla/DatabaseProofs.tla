-------------------------- MODULE DatabaseProofs ---------------------------
(***************************************************************************)
(* Theorems about Migration, for any processes, catalogs and faults, and   *)
(* about DriverClose, for any connections, callers and workers.            *)
(*                                                                         *)
(* Migration.  What a process has read of the ledger stays true because    *)
(* rows are only added; that rows are only added rests on the guards,      *)
(* which hold at the time a sequence runs, however late.  So the inductive *)
(* invariant has a part about the database, one about the sequences under  *)
(* way and one about each process.                                         *)
(***************************************************************************)
EXTENDS Migration, DriverClose, TLAPS

\* The database part.
Sound ==
    /\ ledger \in Seq(Checksums)
    /\ marker \in Nat
    /\ holder \in Procs \cup {Free, Orphan}
    /\ LedgerIsSomeCatalog
    /\ MarkerNeverAhead

\* A step of the database that only goes forward.
Forward == IsPrefix(ledger, ledger') /\ marker <= marker'

\* s is a sequence for the first files of some catalog.
Known(s) ==
    /\ s.op \in {"apply", "mark"}
    /\ \E p \in Procs : \E n \in 1 .. Len(Catalog[p]) : s.target = SubSeq(Catalog[p], 1, n)

Working == {"apply", "mark", "verify", "verify.version"}

Locals ==
    [current : Nat, number : Nat, turns : Nat,
     result : {"none", "ok", "drift", "failed", "unknown"}]

\* The first n rows are those of catalog c.
Holds(c, n) == n <= Len(c) /\ n <= Len(ledger) /\ \A i \in 1 .. n : c[i] = ledger[i]

\* The part about process p.
Local(p) ==
    /\ pc[p] \in Labels
    /\ loc[p] \in Locals
    /\ pc[p] \in Working => loc[p].number \in 1 .. Len(Catalog[p])
    /\ pc[p] \in {"inspect.version", "verify.version"} => Holds(Catalog[p], loc[p].current)
    /\ loc[p].result = "ok" => Holds(Catalog[p], Len(Catalog[p]))

IInv ==
    /\ Sound
    /\ \A s \in late : Known(s)
    /\ faults \in 0 .. MaxFaults
    /\ pc = [p \in Procs |-> pc[p]]
    /\ loc = [p \in Procs |-> loc[p]]
    /\ \A p \in Procs : Local(p)

-----------------------------------------------------------------------------
\* The first n elements of a sequence.
LEMMA Initial ==
    ASSUME NEW S, NEW c \in Seq(S), NEW n \in 0 .. Len(c)
    PROVE  /\ SubSeq(c, 1, n) \in Seq(S)
           /\ Len(SubSeq(c, 1, n)) = n
           /\ \A i \in 1 .. n : SubSeq(c, 1, n)[i] = c[i]
  OBVIOUS

\* A catalog is a sequence that is not empty.
LEMMA CatalogType ==
    ASSUME NEW p \in Procs
    PROVE  Catalog[p] \in Seq(Checksums) /\ Len(Catalog[p]) \in Nat \ {0}
<1>1. Catalog[p] \in Seq(Checksums) /\ Catalog[p] # <<>>
  BY MigrationConstants, Zenon
<1> QED
  BY <1>1

\* The targets of known sequences.
LEMMA TargetType ==
    ASSUME NEW s, Known(s)
    PROVE  s.target \in Seq(Checksums) /\ Len(s.target) \in Nat \ {0}
<1>1. PICK p \in Procs : \E n \in 1 .. Len(Catalog[p]) : s.target = SubSeq(Catalog[p], 1, n)
  BY Zenon DEF Known
<1>0. PICK n \in 1 .. Len(Catalog[p]) : s.target = SubSeq(Catalog[p], 1, n)
  BY <1>1, Zenon
<1>2. n \in 0 .. Len(Catalog[p]) /\ n # 0 /\ n \in Nat
  BY CatalogType
<1>3. SubSeq(Catalog[p], 1, n) \in Seq(Checksums) /\ Len(SubSeq(Catalog[p], 1, n)) = n
  BY <1>2, CatalogType, Initial
<1> QED
  BY <1>0, <1>2, <1>3, Zenon

\* A step that leaves rows and marker alone goes forward.
LEMMA Still ==
    ASSUME Sound, UNCHANGED <<ledger, marker>>, holder' \in Procs \cup {Free, Orphan}
    PROVE  Sound' /\ Forward
  BY DEF Sound, Forward, LedgerIsSomeCatalog, MarkerNeverAhead, IsPrefix

\* Running a known sequence keeps the database sound and goes forward.
LEMMA RunForward ==
    ASSUME Sound, NEW s, Known(s), NEW q \in Procs \cup {Orphan}, Run(s, q)
    PROVE  Sound' /\ Forward
<1>1. CASE UNCHANGED <<ledger, marker>>
  <2>1. holder' \in Procs \cup {Free, Orphan}
    BY Zenon DEF Run, Sound, database
  <2> QED
    BY <1>1, <2>1, Still, Zenon
<1>2. CASE holder = Free /\ Guard(s) /\ Commit(s) /\ UNCHANGED holder /\ s.op = "apply"
  <2>1. PICK p \in Procs : \E n \in 1 .. Len(Catalog[p]) : s.target = SubSeq(Catalog[p], 1, n)
    BY Zenon DEF Known
  <2>0. PICK n \in 1 .. Len(Catalog[p]) : s.target = SubSeq(Catalog[p], 1, n)
    BY <2>1, Zenon
  <2> DEFINE c == Catalog[p]
             t == s.target
  <2>2. c \in Seq(Checksums) /\ Len(c) \in Nat /\ n \in 0 .. Len(c) /\ n >= 1 /\ n \in Nat
    BY CatalogType
  <2>3. t \in Seq(Checksums) /\ Len(t) = n /\ \A i \in 1 .. n : t[i] = c[i]
    BY <2>0, <2>2, Initial
  <2>4. ledger = SubSeq(t, 1, n - 1) /\ ledger' = Append(ledger, t[n]) /\ marker' = marker
    BY <1>2, <2>3, Zenon DEF Guard, ApplyGuard, Commit
  <2>5. n - 1 \in 0 .. Len(t)
    BY <2>2, <2>3
  <2>6. Len(ledger) = n - 1 /\ \A i \in 1 .. n - 1 : ledger[i] = t[i]
    BY <2>3, <2>4, <2>5, Initial
  <2>7. t[n] \in Checksums
    BY <2>2, <2>3
  <2>8. /\ ledger' \in Seq(Checksums)
        /\ Len(ledger') = n
        /\ ledger'[n] = t[n]
        /\ \A i \in 1 .. n - 1 : ledger'[i] = ledger[i]
    <3> HIDE DEF t
    <3> QED
      BY <2>2, <2>4, <2>6, <2>7 DEF Sound
  <2>9. \A i \in 1 .. n : ledger'[i] = c[i]
    <3> HIDE DEF t, c
    <3> QED
      BY <2>2, <2>3, <2>6, <2>8
  <2>10. LedgerIsSomeCatalog'
    BY <2>2, <2>8, <2>9 DEF LedgerIsSomeCatalog, IsPrefix
  <2>11. Forward
    BY <2>2, <2>4, <2>6, <2>8 DEF Forward, IsPrefix, Sound
  <2>12. MarkerNeverAhead'
    BY <2>2, <2>4, <2>6, <2>8 DEF MarkerNeverAhead, Sound
  <2> QED
    BY <1>2, <2>4, <2>8, <2>10, <2>11, <2>12, Zenon DEF Sound
<1>3. CASE holder = Free /\ Guard(s) /\ Commit(s) /\ UNCHANGED holder /\ s.op # "apply"
  <2>1. ledger' = ledger /\ ledger = s.target /\ marker' = Len(ledger) /\ marker <= Len(ledger)
    BY <1>3, Zenon DEF Guard, MarkGuard, Commit, Marked, Sound, MarkerNeverAhead
  <2>2. Len(ledger) \in Nat
    BY DEF Sound
  <2> QED
    BY <1>3, <2>1, <2>2 DEF Sound, Forward, LedgerIsSomeCatalog, MarkerNeverAhead, IsPrefix
<1> QED
  BY <1>1, <1>2, <1>3, Zenon DEF Run, database

\* Rows that were read stay while the database goes forward.
LEMMA HoldsStays ==
    ASSUME Sound, Sound', Forward, NEW c, NEW n \in Nat, Holds(c, n)
    PROVE  Holds(c, n)'
<1>1. Len(ledger) \in Nat /\ Len(ledger') \in Nat /\ Len(ledger) <= Len(ledger')
  BY DEF Sound, Forward, IsPrefix
<1>2. \A i \in 1 .. Len(ledger) : ledger'[i] = ledger[i]
  BY Zenon DEF Forward, IsPrefix
<1> QED
  BY <1>1, <1>2 DEF Holds

\* A process that does not move keeps its part.
LEMMA LocalStays ==
    ASSUME Sound, Sound', Forward, NEW p \in Procs, Local(p),
           pc'[p] = pc[p], loc'[p] = loc[p]
    PROVE  Local(p)'
<1>1. PICK c : c = Catalog[p]
  BY Zenon
<1>2. PICK n : n = loc[p].current
  BY Zenon
<1>3. n \in Nat /\ Len(c) \in Nat
  BY <1>1, <1>2, CatalogType, Zenon DEF Local, Locals
<1>4. Holds(c, n) => Holds(c, n)'
  BY <1>3, HoldsStays, Zenon
<1>5. Holds(c, Len(c)) => Holds(c, Len(c))'
  BY <1>3, HoldsStays, Zenon
<1> QED
  BY <1>1, <1>2, <1>4, <1>5, Zenon DEF Local

\* Only process p moves.
Moves(p) ==
    /\ pc' = [pc EXCEPT ![p] = pc'[p]]
    /\ loc' = [loc EXCEPT ![p] = loc'[p]]

\* What is left to show of a step of process p.
LEMMA Preserves ==
    ASSUME IInv, NEW p \in Procs, Moves(p), Local(p)', Sound', Forward,
           \A s \in late' : Known(s), faults' \in 0 .. MaxFaults
    PROVE  IInv'
<1>1. ASSUME NEW q \in Procs, q # p
      PROVE  Local(q)'
  <2>1. pc'[q] = pc[q] /\ loc'[q] = loc[q]
    BY <1>1, Zenon DEF Moves, IInv
  <2> QED
    BY <2>1, LocalStays, Zenon DEF IInv
<1>2. \A q \in Procs : Local(q)'
  BY <1>1, Zenon
<1>3. pc' = [q \in Procs |-> pc'[q]] /\ loc' = [q \in Procs |-> loc'[q]]
  BY Zenon DEF Moves, IInv
<1> QED
  BY <1>2, <1>3, Zenon DEF IInv

\* Goto moves p only, and says where.
LEMMA GotoMoves ==
    ASSUME IInv, NEW p \in Procs, NEW label, NEW l,
           pc' = [pc EXCEPT ![p] = label], loc' = [loc EXCEPT ![p] = l]
    PROVE  Moves(p) /\ pc'[p] = label /\ loc'[p] = l
  BY Zenon DEF Moves, IInv

\* Any return but success.
LEMMA FinishMoves ==
    ASSUME IInv, NEW p \in Procs, NEW r \in {"none", "drift", "failed", "unknown"}, Finish(p, r)
    PROVE  Moves(p) /\ Local(p)'
<1>1. PICK l : l = [Idle EXCEPT !.result = r]
  BY Zenon
<1>2. l \in Locals /\ l.result # "ok"
  BY <1>1, Zenon DEF Locals, Idle
<1>3. Moves(p) /\ pc'[p] = "idle" /\ loc'[p] = l
  BY <1>1, GotoMoves, Zenon DEF Finish, Goto
<1> QED
  BY <1>2, <1>3, Zenon DEF Local, Labels, Working

\* Success, once the whole catalog was seen.
LEMMA FinishOk ==
    ASSUME IInv, Sound', Forward, NEW p \in Procs, Finish(p, "ok"),
           Holds(Catalog[p], Len(Catalog[p]))
    PROVE  Moves(p) /\ Local(p)'
<1>1. PICK l : l = [Idle EXCEPT !.result = "ok"]
  BY Zenon
<1>2. l \in Locals
  BY <1>1, Zenon DEF Locals, Idle
<1>3. Moves(p) /\ pc'[p] = "idle" /\ loc'[p] = l
  BY <1>1, GotoMoves, Zenon DEF Finish, Goto
<1>4. PICK c : c = Catalog[p]
  BY Zenon
<1>5. Holds(c, Len(c))'
  BY <1>4, CatalogType, HoldsStays, Zenon DEF IInv
<1> QED
  BY <1>2, <1>3, <1>4, <1>5, Zenon DEF Local, Labels, Working

\* A step to a label that does not follow a read.
LEMMA GotoLabel ==
    ASSUME IInv, Sound', Forward, NEW p \in Procs,
           NEW label \in Labels \ {"inspect.version", "verify.version"}, NEW l \in Locals,
           label \in Working => l.number \in 1 .. Len(Catalog[p]),
           l.result = loc[p].result \/ l.result = "none",
           Goto(p, label, l)
    PROVE  Moves(p) /\ Local(p)'
<1>1. Moves(p) /\ pc'[p] = label /\ loc'[p] = l
  BY GotoMoves, Zenon DEF Goto
<1>2. PICK c : c = Catalog[p]
  BY Zenon
<1>3. loc[p].result = "ok" => Holds(c, Len(c))
  BY <1>2, Zenon DEF IInv, Local
<1>4. Holds(c, Len(c)) => Holds(c, Len(c))'
  BY <1>2, CatalogType, HoldsStays, Zenon DEF IInv
<1>5. l.result = "ok" => Holds(c, Len(c))'
  BY <1>3, <1>4, Zenon
<1> QED
  BY <1>1, <1>2, <1>5, Zenon DEF Local

\* The next turn has a file to apply.
LEMMA NextTurnMoves ==
    ASSUME IInv, Sound', Forward, NEW p \in Procs, NextTurn(p),
           loc[p].current < Len(Catalog[p])
    PROVE  Moves(p) /\ Local(p)'
<1>1. CASE Finish(p, "drift")
  BY <1>1, FinishMoves, Zenon
<1>2. CASE Goto(p, "apply", [loc[p] EXCEPT !.number = loc[p].current + 1,
                                           !.turns = loc[p].turns + 1])
  <2> DEFINE k == loc[p]
  <2>1. PICK l : l = [k EXCEPT !.number = k.current + 1, !.turns = k.turns + 1]
    BY Zenon
  <2>2. k \in Locals
    BY Zenon DEF IInv, Local
  <2>3. l \in Locals /\ l.number = loc[p].current + 1 /\ l.result = loc[p].result
    <3>1. k.current + 1 \in Nat /\ k.turns + 1 \in Nat
      BY <2>2 DEF Locals
    <3> HIDE DEF k
    <3>2. l \in Locals /\ l.number = k.current + 1 /\ l.result = k.result
      BY <2>1, <2>2, <3>1, Zenon DEF Locals
    <3> QED
      BY <3>2, Zenon DEF k
  <2>4. l.number \in 1 .. Len(Catalog[p])
    BY <2>2, <2>3, CatalogType DEF Locals
  <2>5. Goto(p, "apply", l)
    BY <1>2, <2>1, Zenon DEF Goto
  <2> QED
    BY <2>3, <2>4, <2>5, GotoLabel, Zenon DEF Labels
<1> QED
  BY <1>1, <1>2, Zenon DEF NextTurn

-----------------------------------------------------------------------------
\* The sequence that process p is about to send is a known one.
LEMMA SequenceKnown ==
    ASSUME IInv, NEW p \in Procs, pc[p] \in {"apply", "mark"}
    PROVE  Known(Sequence(p))
<1>1. loc[p].number \in 1 .. Len(Catalog[p])
  BY Zenon DEF IInv, Local, Working
<1>2. Sequence(p).target = SubSeq(Catalog[p], 1, loc[p].number)
  BY Zenon DEF Sequence, Apply, Mark
<1>3. Sequence(p).op \in {"apply", "mark"}
  BY Zenon DEF Sequence, Apply, Mark
<1> QED
  BY <1>1, <1>2, <1>3, Zenon DEF Known

\* A step of p to a label, with its locals as they are.
LEMMA GoOn ==
    ASSUME IInv, Sound', Forward, NEW p \in Procs,
           NEW label \in {"mark", "verify", "rollback"},
           label # "rollback" => pc[p] \in Working,
           Goto(p, label, loc[p])
    PROVE  Moves(p) /\ Local(p)'
<1>1. PICK l : l = loc[p]
  BY Zenon
<1>2. l \in Locals /\ (label \in Working => l.number \in 1 .. Len(Catalog[p]))
  BY <1>1, Zenon DEF IInv, Local, Working
<1>3. Goto(p, label, l)
  BY <1>1, Zenon DEF Goto
<1> QED
  BY <1>1, <1>2, <1>3, GotoLabel, Zenon DEF Labels

\* A process that only reads.
LEMMA ReadsStill ==
    ASSUME IInv, Reads
    PROVE  Sound' /\ Forward /\ (\A s \in late' : Known(s)) /\ faults' \in 0 .. MaxFaults
  BY Still, Zenon DEF IInv, Reads, database, Sound

\* The steps of an inspection.
LEMMA InspectSteps ==
    ASSUME IInv, NEW p \in Procs, Start(p) \/ InspectRows(p) \/ InspectVersion(p) \/ VerifyVersion(p)
    PROVE  IInv' /\ Forward
<1>1. Reads
  BY Zenon DEF Start, InspectRows, InspectVersion, VerifyVersion
<1>2. Sound' /\ Forward /\ (\A s \in late' : Known(s)) /\ faults' \in 0 .. MaxFaults
  BY <1>1, ReadsStill, Zenon
<1>3. ASSUME Drift(p)
      PROVE  Moves(p) /\ Local(p)'
  <2>1. CASE Finish(p, "drift")
    BY <2>1, FinishMoves, Zenon
  <2>2. CASE Goto(p, "rollback", loc[p])
    BY <1>2, <2>2, GoOn, Zenon
  <2> QED
    BY <1>3, <2>1, <2>2, Zenon DEF Drift
<1>4. CASE Start(p)
  <2>1. PICK l : l = Idle
    BY Zenon
  <2>2. l \in Locals /\ l.result = "none" /\ Goto(p, "inspect", l)
    BY <1>4, <2>1, Zenon DEF Start, Idle, Locals
  <2>3. Moves(p) /\ Local(p)'
    BY <1>2, <2>2, GotoLabel, Zenon DEF Labels, Working
  <2> QED
    BY <1>2, <2>3, Preserves, Zenon
<1>5. CASE InspectRows(p) /\ Conforms(p)
  <2> DEFINE to == IF pc[p] = "inspect" THEN "inspect.version" ELSE "verify.version"
             k  == loc[p]
  <2>1. PICK l : l = [k EXCEPT !.current = Len(ledger)]
    BY Zenon
  <2>2. PICK label : label = to
    BY Zenon
  <2>3. k \in Locals /\ Len(ledger) \in Nat
    BY DEF IInv, Local, Sound
  <2>4. l \in Locals /\ l.current = Len(ledger) /\ l.number = loc[p].number /\ l.result = loc[p].result
    <3> HIDE DEF k
    <3>1. l \in Locals /\ l.current = Len(ledger) /\ l.number = k.number /\ l.result = k.result
      BY <2>1, <2>3, Zenon DEF Locals
    <3> QED
      BY <3>1, Zenon DEF k
  <2>5. pc' = [pc EXCEPT ![p] = label] /\ loc' = [loc EXCEPT ![p] = l]
    BY <1>5, <2>1, <2>2, Zenon DEF InspectRows, Goto
  <2>6. Moves(p) /\ pc'[p] = label /\ loc'[p] = l
    BY <2>5, GotoMoves, Zenon
  <2>7. ledger' = ledger /\ Holds(Catalog[p], Len(ledger))
    BY <1>1, <1>5, <2>3, CatalogType DEF Conforms, IsPrefix, Holds, Reads, database
  <2>8. /\ pc[p] \in {"inspect", "verify"}
        /\ label = "inspect.version" => pc[p] = "inspect"
        /\ label \in {"inspect.version", "verify.version"}
    BY <1>5, <2>2, Zenon DEF InspectRows
  <2>9. label \in Working => l.number \in 1 .. Len(Catalog[p])
    BY <2>2, <2>4, <2>8, Zenon DEF IInv, Local, Working
  <2>10. loc[p].result = "ok" => Holds(Catalog[p], Len(Catalog[p]))
    BY Zenon DEF IInv, Local
  <2>11. Local(p)'
    BY <2>4, <2>6, <2>7, <2>8, <2>9, <2>10, Zenon DEF Local, Labels, Holds
  <2> QED
    BY <1>2, <2>6, <2>11, Preserves, Zenon
<1>6. CASE InspectRows(p) /\ ~Conforms(p)
  <2>1. Drift(p)
    BY <1>6, Zenon DEF InspectRows
  <2> QED
    BY <1>2, <1>3, <2>1, Preserves, Zenon
<1>7. CASE InspectVersion(p) \/ VerifyVersion(p)
  <2> DEFINE n == loc[p].current
             c == Catalog[p]
  <2>1. Holds(c, n) /\ n \in Nat /\ n <= Len(c) /\ Len(c) \in Nat \ {0}
    BY <1>7, CatalogType, Zenon DEF IInv, Local, Locals, Holds, InspectVersion, VerifyVersion
  <2>2. \/ Drift(p)
        \/ n = Len(c) /\ Finish(p, "ok")
        \/ n = Len(c) /\ Goto(p, "mark", [loc[p] EXCEPT !.number = n])
        \/ n # Len(c) /\ NextTurn(p)
        \/ Goto(p, "rollback", loc[p])
    BY <1>7, Zenon DEF InspectVersion, VerifyVersion
  <2>3. CASE n = Len(c) /\ Finish(p, "ok")
    BY <1>2, <2>1, <2>3, FinishOk, Preserves, Zenon
  <2>4. CASE n = Len(c) /\ Goto(p, "mark", [loc[p] EXCEPT !.number = n])
    <3> DEFINE k == loc[p]
    <3>1. PICK l : l = [k EXCEPT !.number = n]
      BY Zenon
    <3>2. k \in Locals
      BY Zenon DEF IInv, Local
    <3>3. l \in Locals /\ l.number = n /\ l.result = loc[p].result
      <4>1. l = [k EXCEPT !.number = k.current] /\ k.current \in Nat
        BY <2>1, <3>1, Zenon
      <4> HIDE DEF k
      <4>2. l \in Locals /\ l.number = k.current /\ l.result = k.result
        BY <3>2, <4>1, Zenon DEF Locals
      <4> QED
        BY <4>2, Zenon DEF k
    <3>4. Goto(p, "mark", l) /\ l.number \in 1 .. Len(Catalog[p])
      BY <2>1, <2>4, <3>1, <3>3 DEF Goto
    <3>5. Moves(p) /\ Local(p)'
      BY <1>2, <3>3, <3>4, GotoLabel, Zenon DEF Labels
    <3> QED
      BY <1>2, <3>5, Preserves, Zenon
  <2>5. CASE n # Len(c) /\ NextTurn(p)
    BY <1>2, <2>1, <2>5, NextTurnMoves, Preserves
  <2>6. CASE Goto(p, "rollback", loc[p])
    BY <1>2, <2>6, GoOn, Preserves, Zenon
  <2> QED
    BY <1>2, <1>3, <2>2, <2>3, <2>4, <2>5, <2>6, Preserves, Zenon
<1> QED
  BY <1>4, <1>5, <1>6, <1>7, Zenon

\* The steps that send a sequence, end one, or fail.
LEMMA OtherSteps ==
    ASSUME IInv, NEW p \in Procs, Execute(p) \/ Rollback(p) \/ Fails(p)
    PROVE  IInv' /\ Forward
<1>1. ASSUME Fault
      PROVE  faults' \in 0 .. MaxFaults
  BY <1>1, MigrationConstants DEF Fault, IInv
<1>2. CASE Execute(p)
  <2>1. pc[p] \in {"apply", "mark"} /\ Run(Sequence(p), p)
    BY <1>2, Zenon DEF Execute
  <2>2. PICK s : s = Sequence(p)
    BY Zenon
  <2>3. Known(s)
    BY <2>1, <2>2, SequenceKnown, Zenon
  <2>4. Run(s, p)
    BY <2>1, <2>2, Zenon
  <2>5. Sound' /\ Forward
    BY <2>3, <2>4, RunForward, Zenon DEF IInv
  <2>6. \/ Goto(p, "mark", loc[p])
        \/ Goto(p, "verify", loc[p])
        \/ Goto(p, "rollback", loc[p])
    BY <1>2, Zenon DEF Execute
  <2>7. Moves(p) /\ Local(p)'
    BY <2>1, <2>5, <2>6, GoOn, Zenon DEF Working
  <2> QED
    BY <1>2, <2>5, <2>7, Preserves, Zenon DEF Execute, IInv
<1>3. CASE Rollback(p)
  <2>1. Sound' /\ Forward
    BY <1>3, Still, Zenon DEF IInv, Rollback, Sound
  <2>2. Moves(p) /\ Local(p)'
    BY <1>3, FinishMoves, Zenon DEF Rollback
  <2> QED
    BY <1>3, <2>1, <2>2, Preserves, Zenon DEF Rollback, IInv
<1>4. CASE ExecuteOpen(p)
  <2>1. Sound' /\ Forward
    BY <1>4, Still, Zenon DEF IInv, ExecuteOpen, Sound
  <2>2. Moves(p) /\ Local(p)'
    BY <1>4, <2>1, GoOn, Zenon DEF ExecuteOpen, Working
  <2> QED
    BY <1>1, <1>4, <2>1, <2>2, Preserves, Zenon DEF ExecuteOpen, IInv
<1>5. CASE ExecuteFails(p)
  <2>1. Sound' /\ Forward
    BY <1>5, Still, Zenon DEF IInv, ExecuteFails, Sound, database
  <2>2. Moves(p) /\ Local(p)'
    BY <1>5, <2>1, GoOn, Zenon DEF ExecuteFails
  <2>3. \A s \in late' : Known(s)
    BY <1>5, SequenceKnown, Zenon DEF ExecuteFails, IInv
  <2> QED
    BY <1>1, <1>5, <2>1, <2>2, <2>3, Preserves, Zenon DEF ExecuteFails
<1>6. CASE RollbackFails(p) \/ Crash(p)
  <2>1. Sound' /\ Forward
    BY <1>6, Still, Zenon DEF IInv, RollbackFails, Crash, Abandon, Sound
  <2>2. Moves(p) /\ Local(p)'
    BY <1>6, FinishMoves, Zenon DEF RollbackFails, Crash
  <2> QED
    BY <1>1, <1>6, <2>1, <2>2, Preserves, Zenon DEF RollbackFails, Crash, IInv
<1>7. CASE ReadFails(p)
  <2>1. Sound' /\ Forward
    BY <1>7, Still, Zenon DEF IInv, ReadFails, Sound, database
  <2>2. Finish(p, "failed") \/ Goto(p, "rollback", loc[p])
    BY <1>7, Zenon DEF ReadFails
  <2>3. Moves(p) /\ Local(p)'
    BY <2>1, <2>2, FinishMoves, GoOn, Zenon
  <2> QED
    BY <1>1, <1>7, <2>1, <2>3, Preserves, Zenon DEF ReadFails, IInv
<1> QED
  BY <1>2, <1>3, <1>4, <1>5, <1>6, <1>7, Zenon DEF Fails

\* The steps of the server, and stuttering: no process moves.
LEMMA ServerSteps ==
    ASSUME IInv, (\E s \in late : LateExecute(s)) \/ Expire \/ UNCHANGED vars
    PROVE  IInv' /\ Forward
<1>1. UNCHANGED <<faults, pc, loc>> /\ late' \subseteq late
  BY Zenon DEF LateExecute, Expire, vars
<1>2. Sound' /\ Forward
  <2>1. ASSUME NEW s \in late, LateExecute(s)
        PROVE  Sound' /\ Forward
    BY <2>1, RunForward, Zenon DEF LateExecute, IInv
  <2>2. CASE Expire \/ UNCHANGED vars
    BY <2>2, Still, Zenon DEF IInv, Sound, Expire, vars
  <2> QED
    BY <2>1, <2>2, Zenon
<1>3. \A q \in Procs : Local(q)'
  BY <1>1, <1>2, LocalStays, Zenon DEF IInv
<1> QED
  BY <1>1, <1>2, <1>3, Zenon DEF IInv

\* Every step keeps the invariant and only goes forward.
LEMMA Inductive ==
    ASSUME IInv, [Next]_vars
    PROVE  IInv' /\ Forward
<1>1. ASSUME NEW p \in Procs, Start(p) \/ Step(p) \/ Fails(p)
      PROVE  IInv' /\ Forward
  BY <1>1, InspectSteps, OtherSteps, Zenon DEF Step
<1> QED
  BY <1>1, ServerSteps, Zenon DEF Next

\* The empty database satisfies the invariant.
LEMMA Initially == Init => IInv
<1> SUFFICES ASSUME Init
             PROVE  IInv
  OBVIOUS
<1>1. Sound
  BY DEF Init, Sound, LedgerIsSomeCatalog, MarkerNeverAhead
<1>2. \A p \in Procs : Local(p)
  BY Zenon DEF Init, Local, Idle, Locals, Labels, Working
<1> QED
  BY <1>1, <1>2, MigrationConstants DEF Init, IInv

\* What the invariant says in terms of the checked properties.
LEMMA Implies ==
    ASSUME IInv
    PROVE  TypeOK /\ LedgerIsSomeCatalog /\ MarkerNeverAhead /\ SuccessIsDurable
<1>1. \A s \in late : s.op \in {"apply", "mark"} /\ s.target \in Seq(Checksums) /\ s.target # <<>>
  <2>1. ASSUME NEW s \in late
        PROVE  s.op \in {"apply", "mark"} /\ s.target \in Seq(Checksums) /\ s.target # <<>>
    <3>1. Known(s)
      BY <2>1, Zenon DEF IInv
    <3>2. s.target \in Seq(Checksums) /\ Len(s.target) \in Nat \ {0}
      BY <3>1, TargetType, Zenon
    <3> QED
      BY <3>1, <3>2 DEF Known
  <2> QED
    BY <2>1, Zenon
<1>2. pc \in [Procs -> Labels]
  BY Zenon DEF IInv, Local
<1>3. TypeOK
  BY <1>1, <1>2, Zenon DEF TypeOK, IInv, Sound, Local, Locals, Working
<1>4. SuccessIsDurable
  BY CatalogType, Zenon DEF SuccessIsDurable, IInv, Local, Holds, IsPrefix
<1> QED
  BY <1>3, <1>4, Zenon DEF IInv, Sound

\* Migrate never indexes its catalog out of range, whatever it reads.
THEOREM MigrationTypes == Spec => []TypeOK
<1>1. IInv /\ [Next]_vars => IInv'
  BY Inductive, Zenon
<1>2. IInv => TypeOK
  BY Implies, Zenon
<1> QED
  BY Initially, <1>1, <1>2, PTL DEF Spec

\* For any releases and any number of processes, faults and late sequences,
\* the ledger is a prefix of one catalog and user_version is not ahead of it.
THEOREM LedgerCorrect == Spec => [](LedgerIsSomeCatalog /\ MarkerNeverAhead)
<1>1. IInv /\ [Next]_vars => IInv'
  BY Inductive, Zenon
<1>2. IInv => LedgerIsSomeCatalog /\ MarkerNeverAhead
  BY Implies, Zenon
<1> QED
  BY Initially, <1>1, <1>2, PTL DEF Spec

\* A reported success is durable.
THEOREM SuccessHolds == Spec => []SuccessIsDurable
<1>1. IInv /\ [Next]_vars => IInv'
  BY Inductive, Zenon
<1>2. IInv => SuccessIsDurable
  BY Implies, Zenon
<1> QED
  BY Initially, <1>1, <1>2, PTL DEF Spec

\* Ledger, marker and reports of Migrate agree, and Migrate stays within its
\* catalog.
THEOREM MigrationSound == Spec => []MigrateIsSound
<1>1. TypeOK /\ LedgerIsSomeCatalog /\ MarkerNeverAhead /\ SuccessIsDurable => MigrateIsSound
  BY Zenon DEF MigrateIsSound
<1> QED
  BY <1>1, MigrationTypes, LedgerCorrect, SuccessHolds, PTL

\* Rows are only added and the marker is never set back.
THEOREM NeverBack == Spec => OnlyForward
<1>1. IInv /\ [Next]_vars => IInv'
  BY Inductive, Zenon
<1>2. IInv /\ [Next]_vars => [IsPrefix(ledger, ledger') /\ marker <= marker']_vars
  BY Inductive, Zenon DEF Forward
<1> QED
  BY Initially, <1>1, <1>2, PTL DEF Spec, OnlyForward

-----------------------------------------------------------------------------
(* The close of a connector.  No connection is lost between the three that *)
(* can close it: what is registered when the connector shuts down is a job *)
(* or in a worker's hands until it is done, and what is no longer          *)
(* registered has left its error behind.                                   *)

Stages == {"no", "lock", "session", "unregister", "publish", "done"}
Unregistered == {"publish", "done"}

CloseTypes ==
    /\ conn \in [Conns -> {"none", "free", "busy", "closed"}]
    /\ closing \in [Conns -> Stages]
    /\ failed \in [Conns -> BOOLEAN]
    /\ registered \subseteq Conns /\ jobs \subseteq Conns
    /\ work \in [Workers -> Conns \cup {NoConn}]
    /\ caller \in [Callers -> {"idle", "primary", "wait", "returned"}]
    /\ result \in [Callers -> BOOLEAN]
    /\ {connError, shutdown, published, closeError, prior, failures} \subseteq BOOLEAN

\* How far a connection is closed, and where its error is.
Connection(c) ==
    /\ conn[c] = "none" => closing[c] = "no" /\ c \notin registered
    /\ conn[c] # "none" => (c \in registered <=> closing[c] \notin Unregistered)
    /\ closing[c] \in {"no", "lock"} <=> conn[c] # "closed"
    /\ failed[c] => closing[c] \in {"unregister"} \cup Unregistered
    /\ failed[c] /\ closing[c] \in Unregistered => connError

\* The connection is still to be closed by closeConnections.
Held(c) == c \in jobs \/ \E w \in Workers : work[w] = c

\* What CloseContext still has to do.
Shutdown ==
    /\ ~shutdown => jobs = {} /\ \A k \in Callers : caller[k] = "idle"
    /\ ~shutdown => \A w \in Workers : work[w] = NoConn
    /\ shutdown => \A c \in Conns : c \in registered => Held(c)
    /\ shutdown => \A c \in Conns : failed[c] => Held(c) \/ prior \/ failures
    /\ published => jobs = {} /\ \A w \in Workers : work[w] = NoConn
    /\ published => shutdown /\ (closeError <=> failures \/ prior)
    /\ \A k \in Callers : caller[k] = "returned" => published /\ (result[k] <=> closeError)

CloseInv == CloseTypes /\ (\A c \in Conns : Connection(c)) /\ Shutdown

\* A connection's own steps: it is opened before the shutdown, used, and closed in order.
LEMMA ConnectionStep ==
    ASSUME CloseInv, NEW c \in Conns,
           Connect(c) \/ Operate(c) \/ Answered(c) \/ Evict(c) \/ Closes(c)
    PROVE  CloseInv'
<1>1. CASE Connect(c)
  <2>1. CloseTypes'
    BY <1>1, Zenon DEF CloseInv, CloseTypes, Connect, closeVars
  <2>2. \A d \in Conns : Connection(d)'
    BY <1>1, Zenon DEF CloseInv, CloseTypes, Connection, Connect, closeVars, Unregistered
  <2>3. Shutdown'
    BY <1>1, Zenon DEF CloseInv, CloseTypes, Shutdown, Held, Connect, closeVars
  <2> QED
    BY <2>1, <2>2, <2>3, Zenon DEF CloseInv
<1>2. CASE Operate(c) \/ Answered(c)
  <2>1. CloseTypes'
    BY <1>2, Zenon DEF CloseInv, CloseTypes, Operate, Answered, closeVars
  <2>2. \A d \in Conns : Connection(d)'
    BY <1>2 DEF CloseInv, CloseTypes, Connection, Operate, Answered, closeVars, Unregistered
  <2>3. Shutdown'
    BY <1>2 DEF CloseInv, Shutdown, Held, Operate, Answered, closeVars
  <2> QED
    BY <2>1, <2>2, <2>3, Zenon DEF CloseInv
<1>3. CASE Evict(c)
  <2>1. CloseTypes'
    BY <1>3, Zenon DEF CloseInv, CloseTypes, Stages, Evict, CloseBegin, closeVars
  <2>2. \A d \in Conns : Connection(d)'
    BY <1>3, Zenon DEF CloseInv, CloseTypes, Connection, Evict, CloseBegin, Unregistered
  <2>3. Shutdown'
    BY <1>3, Zenon DEF CloseInv, Shutdown, Held, Evict, CloseBegin, closeVars
  <2> QED
    BY <2>1, <2>2, <2>3, Zenon DEF CloseInv
<1>4. CASE CloseLock(c)
  <2>1. CloseTypes'
    BY <1>4, Zenon DEF CloseInv, CloseTypes, Stages, CloseLock, closeVars
  <2>2. \A d \in Conns : Connection(d)'
    BY <1>4, Zenon DEF CloseInv, CloseTypes, Connection, CloseLock, Unregistered
  <2>3. Shutdown'
    BY <1>4, Zenon DEF CloseInv, Shutdown, Held, CloseLock, closeVars
  <2> QED
    BY <2>1, <2>2, <2>3, Zenon DEF CloseInv
<1>5. CASE CloseSession(c)
  <2>1. CloseTypes'
    BY <1>5, Zenon DEF CloseInv, CloseTypes, Stages, CloseSession, closeVars
  <2>2. \A d \in Conns : Connection(d)'
    BY <1>5 DEF CloseInv, CloseTypes, Connection, CloseSession, Unregistered
  <2>3. c \in registered /\ \A d \in Conns : failed'[d] => failed[d] \/ d = c
    BY <1>5, Zenon DEF CloseInv, CloseTypes, Connection, CloseSession, Unregistered
  <2>4. Shutdown'
    BY <1>5, <2>3, Zenon DEF CloseInv, Shutdown, Held, CloseSession, closeVars
  <2> QED
    BY <2>1, <2>2, <2>4, Zenon DEF CloseInv
<1>6. CASE Unregister(c)
  <2>1. CloseTypes'
    BY <1>6, Zenon DEF CloseInv, CloseTypes, Stages, Unregister, closeVars
  <2>2. \A d \in Conns : Connection(d)'
    BY <1>6, Zenon DEF CloseInv, CloseTypes, Connection, Unregister, Unregistered
  <2>3. Shutdown'
    BY <1>6, Zenon DEF CloseInv, Shutdown, Held, Unregister, closeVars
  <2> QED
    BY <2>1, <2>2, <2>3, Zenon DEF CloseInv
<1>7. CASE Publish(c)
  <2>1. CloseTypes'
    BY <1>7, Zenon DEF CloseInv, CloseTypes, Stages, Publish, closeVars
  <2>2. \A d \in Conns : Connection(d)'
    BY <1>7, Zenon DEF CloseInv, CloseTypes, Connection, Publish, Unregistered
  <2>3. Shutdown'
    BY <1>7, Zenon DEF CloseInv, Shutdown, Held, Publish, closeVars
  <2> QED
    BY <2>1, <2>2, <2>3, Zenon DEF CloseInv
<1> QED
  BY <1>1, <1>2, <1>3, <1>4, <1>5, <1>6, <1>7, Zenon DEF Closes

\* A worker of closeConnections takes a connection, and lets it go when it is closed.
LEMMA WorkerStep ==
    ASSUME CloseInv, NEW w \in Workers, Take(w) \/ Collect(w)
    PROVE  CloseInv'
<1>1. CASE Take(w)
  <2>1. PICK c \in jobs : /\ jobs' = jobs \ {c} /\ work' = [work EXCEPT ![w] = c]
                          /\ CloseBegin(c) \/ (closing[c] # "no" /\ UNCHANGED connVars)
    BY <1>1, Zenon DEF Take
  <2>2. c \in Conns /\ c # NoConn /\ work[w] = NoConn
    BY <1>1, <2>1, DriverConstants, Zenon DEF CloseInv, CloseTypes, Take
  <2>3. CloseTypes'
    BY <1>1, <2>1, <2>2 DEF CloseInv, CloseTypes, Stages, Take, CloseBegin, connVars
  <2>4. \A d \in Conns : Connection(d)'
    BY <2>1, <2>2 DEF CloseInv, CloseTypes, Connection, CloseBegin, connVars, Unregistered
  <2>5. ASSUME NEW d \in Conns, Held(d) PROVE Held(d)'
    <3>1. work'[w] = c
      BY <2>1, Zenon DEF CloseInv, CloseTypes
    <3>2. ASSUME NEW v \in Workers, work[v] = d PROVE work'[v] = d
      BY <2>1, <2>2, <3>2, DriverConstants, Zenon DEF CloseInv, CloseTypes
    <3> QED
      BY <2>1, <2>5, <3>1, <3>2, Zenon DEF Held
  <2>6. shutdown /\ ~published
    BY <2>1, Zenon DEF CloseInv, CloseTypes, Shutdown
  <2>7. /\ registered' = registered /\ failed' = failed
        /\ UNCHANGED <<shutdown, published, closeError, prior, failures, caller, result>>
    BY <1>1, <2>1, Zenon DEF Take, CloseBegin, connVars
  <2>8. Shutdown'
    BY <2>5, <2>6, <2>7, Zenon DEF CloseInv, Shutdown
  <2> QED
    BY <2>3, <2>4, <2>8, Zenon DEF CloseInv
<1>2. CASE Collect(w)
  <2> DEFINE c == work[w]
  <2>1. /\ c \in Conns /\ closing[c] = "done" /\ c \notin registered
        /\ failures' = (failures \/ failed[c])
    BY <1>2 DEF CloseInv, CloseTypes, Connection, Collect, Unregistered
  <2>2. CloseTypes'
    BY <1>2, Zenon DEF CloseInv, CloseTypes, Collect, connVars
  <2>3. \A d \in Conns : Connection(d)'
    BY <1>2, Zenon DEF CloseInv, Connection, Collect, connVars
  <2>4. \A d \in Conns : Held(d) => Held(d)' \/ d = c
    BY <1>2, Zenon DEF CloseInv, CloseTypes, Held, Collect
  <2>5. shutdown /\ ~published
    BY <1>2, Zenon DEF CloseInv, CloseTypes, Shutdown, Collect
  <2>6. /\ registered' = registered /\ failed' = failed
        /\ UNCHANGED <<shutdown, published, closeError, prior, caller, result>>
    BY <1>2, Zenon DEF Collect, connVars
  <2> HIDE DEF c
  <2>7. Shutdown'
    BY <2>1, <2>4, <2>5, <2>6, Zenon DEF CloseInv, Shutdown
  <2> QED
    BY <2>2, <2>3, <2>7, Zenon DEF CloseInv
<1> QED
  BY <1>1, <1>2, Zenon

\* A caller of Connector.CloseContext shuts the connector down, or joins one who does.
LEMMA CallerStep ==
    ASSUME CloseInv, NEW k \in Callers, CloseContext(k)
    PROVE  CloseInv'
<1>1. UNCHANGED connVars
  BY Zenon DEF CloseContext, CloseStart, CloseFinish, CloseJoin
<1>2. \A d \in Conns : Connection(d)'
  BY <1>1, Zenon DEF CloseInv, Connection, connVars
<1>3. CASE CloseStart(k) /\ shutdown
  <2>1. CloseTypes' /\ Shutdown'
    BY <1>3, <1>1 DEF CloseInv, CloseTypes, Shutdown, Held, CloseStart, connVars
  <2> QED
    BY <1>2, <2>1, Zenon DEF CloseInv
<1>4. CASE CloseStart(k) /\ ~shutdown
  <2>1. CloseTypes'
    BY <1>4, <1>1, Zenon DEF CloseInv, CloseTypes, CloseStart, connVars
  <2>2. \A c \in Conns : failed[c] => c \in registered \/ connError
    BY Zenon DEF CloseInv, CloseTypes, Connection, Unregistered
  <2>3. jobs' = registered /\ prior' = connError /\ shutdown' /\ ~published'
    BY <1>4, Zenon DEF CloseInv, Shutdown, CloseStart
  <2>4. \A j \in Callers : caller'[j] # "returned"
    BY <1>4, Zenon DEF CloseInv, CloseTypes, Shutdown, CloseStart
  <2>5. Shutdown'
    BY <1>1, <2>2, <2>3, <2>4, Zenon DEF Shutdown, Held, connVars
  <2> QED
    BY <1>2, <2>1, <2>5, Zenon DEF CloseInv
<1>5. CASE CloseFinish(k)
  <2>1. shutdown /\ jobs = {} /\ \A w \in Workers : work[w] = NoConn
    BY <1>5, Zenon DEF CloseInv, CloseTypes, Shutdown, CloseFinish
  <2>2. CloseTypes'
    BY <1>5, <1>1, Zenon DEF CloseInv, CloseTypes, CloseFinish, connVars
  <2>3. \A j \in Callers : caller'[j] = "returned" => (result'[j] <=> closeError')
    BY <1>5, Zenon DEF CloseInv, CloseTypes, Shutdown, CloseFinish
  <2>4. Shutdown'
    BY <1>5, <1>1, <2>1, <2>3, Zenon DEF CloseInv, Shutdown, Held, CloseFinish, connVars
  <2> QED
    BY <1>2, <2>2, <2>4, Zenon DEF CloseInv
<1>6. CASE CloseJoin(k)
  <2>1. CloseTypes' /\ Shutdown'
    BY <1>6, <1>1, Zenon DEF CloseInv, CloseTypes, Shutdown, Held, CloseJoin, connVars
  <2> QED
    BY <1>2, <2>1, Zenon DEF CloseInv
<1> QED
  BY <1>3, <1>4, <1>5, <1>6, Zenon DEF CloseContext

\* Nothing is lost, from the start and in every step.
LEMMA CloseInvariant == CloseSpec => []CloseInv
<1>1. CloseInit => CloseInv
  BY Zenon DEF CloseInit, CloseInv, CloseTypes, Stages, Connection, Unregistered, Shutdown
<1>2. CloseInv /\ [CloseNext]_driverVars => CloseInv'
  <2> SUFFICES ASSUME CloseInv, [CloseNext]_driverVars PROVE CloseInv'
    OBVIOUS
  <2>1. CASE CloseNext
    BY <2>1, ConnectionStep, WorkerStep, CallerStep, Zenon DEF CloseNext
  <2>2. CASE UNCHANGED driverVars
    BY <2>2, Zenon DEF CloseInv, CloseTypes, Connection, Shutdown, Held, driverVars, connVars, closeVars
  <2> QED
    BY <2>1, <2>2, Zenon
<1> QED
  BY <1>1, <1>2, PTL DEF CloseSpec

\* When CloseContext returns, every connection is closed and none can be opened,
\* and nil means that none failed (Connector.CloseContext, closeConnections,
\* Connector.unregister), for any connections, callers and workers.
THEOREM CloseComplete == CloseSpec => []CloseIsComplete
<1>1. CloseInv => NothingLeftOpen
  <2> SUFFICES ASSUME CloseInv, NEW k \in Callers, caller[k] = "returned"
               PROVE  /\ registered = {}
                      /\ \A c \in Conns : /\ conn[c] \in {"none", "closed"}
                                          /\ closing[c] \notin {"lock", "session"}
    BY Zenon DEF NothingLeftOpen
  <2>1. published /\ shutdown /\ \A c \in Conns : ~Held(c)
    BY DriverConstants, Zenon DEF CloseInv, Shutdown, Held
  <2>2. registered = {}
    BY <2>1, Zenon DEF CloseInv, CloseTypes, Shutdown
  <2> QED
    BY <2>2, Zenon DEF CloseInv, CloseTypes, Connection, Unregistered
<1>2. CloseInv => FailuresReported
  <2> SUFFICES ASSUME CloseInv, NEW k \in Callers, caller[k] = "returned", ~result[k],
                      NEW c \in Conns
               PROVE  ~failed[c]
    BY Zenon DEF FailuresReported
  <2>1. published /\ shutdown /\ ~prior /\ ~failures /\ ~Held(c)
    BY DriverConstants, Zenon DEF CloseInv, Shutdown, Held
  <2> QED
    BY <2>1, Zenon DEF CloseInv, Shutdown
<1> QED
  BY <1>1, <1>2, CloseInvariant, PTL DEF CloseIsComplete

=============================================================================
