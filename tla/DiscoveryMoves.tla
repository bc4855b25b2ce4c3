--------------------------- MODULE DiscoveryMoves ---------------------------
(***************************************************************************)
(* What a process of Discovery holds at each label, and that the steps of  *)
(* CommitCurrentDiscovery, finalizeCurrentDiscovery and                    *)
(* ReconcileCurrentDiscovery, with the calls that they make, keep to it.   *)
(*                                                                         *)
(* Every commit that anyone ever sends has to be sound, and a success      *)
(* which travels through four calls to the caller of Discover has to have  *)
(* been earned.  Both are facts about the local variables of a process at  *)
(* each label, with the stack of calls that it is in.                      *)
(***************************************************************************)
EXTENDS Discovery, TLAPS

-----------------------------------------------------------------------------
(* Commits in a world w, which is what of the state they are judged by. *)

World == [cursor |-> cursor, messages |-> messages, log |-> log, vanished |-> vanished]

Added(lg, from, to) == {lg[h] : h \in {i \in 1 .. Len(lg) : from < i /\ i <= to}}

\* Everything that c says has happened: the cursor got there, and its messages are stored.
Reached(c, w) ==
    /\ w.cursor >= c.next
    /\ \A i \in DOMAIN c.msgs : w.messages[c.msgs[i].id] # None

\* The same of its first k chunks.
ReachedTo(c, k, w) ==
    /\ w.cursor >= c.next
    /\ \A i \in DOMAIN c.msgs : i <= k * ChunkSize => w.messages[c.msgs[i].id] # None

\* A commit that Discover may make: it goes forward, no further than the
\* mailbox, and has exactly what was added on the way, but for what vanished.
Good(c, w) ==
    /\ c \in Commit
    /\ c.expected < c.next /\ c.next <= Len(w.log)
    /\ \A i \in DOMAIN c.msgs : c.msgs[i].id \in Added(w.log, c.expected, c.next)
    /\ \A m \in Added(w.log, c.expected, c.next) \ w.vanished :
          \E i \in DOMAIN c.msgs : c.msgs[i].id = m

-----------------------------------------------------------------------------
(* Labels.  A process in the handle is at a label of the body of           *)
(* CommitCurrentDiscovery, finalizeCurrentDiscovery or                     *)
(* ReconcileCurrentDiscovery, or in calls that return to one.              *)

Tops == {"discover.committed", "discover.reconciled"}

InspectReturns ==
    {"commit.inspected", "commit.reinspected", "commit.why", "commit.recovered",
     "finalize.inspected", "finalize.why", "reconcile.inspected"}

ProveReturns ==
    {"commit.proved", "commit.diverged", "commit.unsealed", "commit.uncreated",
     "commit.recover", "finalize.gone", "reconcile.diverged"}

MutateReturns ==
    {"commit.created", "commit.staged", "commit.sealed", "finalize.done", "reconcile.aborted"}

Body ==
    InspectReturns \cup ProveReturns \cup MutateReturns \cup
    {"commit.cursor", "commit.fresh", "commit.lifecycle", "finalize", "finalize.lifecycle",
     "finalize.classify", "reconcile.cursor", "reconcile.lifecycle"}

\* Labels of ReconcileCurrentDiscovery, which only Discover's start calls.
Reconciles ==
    {"reconcile.inspected", "reconcile.cursor", "reconcile.diverged", "reconcile.lifecycle",
     "reconcile.aborted"}

\* Labels at which no commit is prepared yet.
Blank == {"reconcile.inspected", "reconcile.cursor"}

\* Labels at which an error is kept over a call.
Saving ==
    {"commit.unsealed", "commit.uncreated", "commit.why", "commit.recover", "commit.recovered",
     "finalize.classify", "finalize.why"}

Inspecting == {"inspect", "inspect.rows"}

Proving == {"prove", "prove.chunk", "prove.inspected"}

Discovering ==
    {"idle", "discover.lifecycle", "discover.cursor", "discover.verify", "discover.history",
     "discover.messages", "discover.mark"} \cup Tops

\* The stack s of a process at label lab whose calls return to label x of the
\* body, which returns to r.
Placed(lab, s, x, r) ==
    \/ lab = x /\ s = <<r>>
    \/ x \in InspectReturns /\ lab \in Inspecting /\ s = <<x, r>>
    \/ /\ x \in ProveReturns
       /\ \/ lab \in Proving /\ s = <<x, r>>
          \/ lab \in Inspecting /\ s = <<"prove.inspected", x, r>>
    \/ /\ x \in MutateReturns
       /\ \/ lab \in {"mutate", "verify"} /\ s = <<x, r>>
          \/ lab = "verify.stage" /\ x # "finalize.done" /\ s = <<x, r>>
          \/ lab \in Inspecting /\ s = <<"verify", x, r>>
          \/ lab \in Proving /\ s = <<"verify", x, r>>
          \/ lab \in Inspecting /\ s = <<"prove.inspected", "verify", x, r>>

-----------------------------------------------------------------------------
(* Local variables. *)

Fields ==
    {"commit", "insp", "stmt", "err", "saved", "durable", "count", "proved", "tries", "snaps",
     "seen", "stack"}

Ops == {"create", "stage", "seal", "finalize", "abort"}

GoodStatement(s, w) == s.op \in Ops /\ Good(s.commit, w)

\* What holds of the local variables l at every label.
Sane(l, w) ==
    /\ l = [f \in Fields |-> l[f]]
    /\ l.commit = None \/ l.commit \in Commit
    /\ \/ l.insp = NoInspection
       \/ /\ l.insp = [commit |-> l.insp.commit, state |-> l.insp.state, rows |-> l.insp.rows]
          /\ l.insp.state \in {"open", "sealed"} /\ Good(l.insp.commit, w)

\* What holds of them as long as the calls return to label x of the body.
Frame(l, x, r, w) ==
    /\ x \in Body /\ r \in Tops
    /\ x \in Reconciles => r = "discover.reconciled"
    /\ x \notin Blank => Good(l.commit, w)
    /\ x \in Blank => ~l.durable
    /\ x \in Saving => l.saved # "nil"
    /\ l.durable => Reached(l.commit, w)

\* What holds of them at label lab inside the calls.
At(lab, l, x, w) ==
    /\ IF lab = "prove.chunk" THEN l.proved \in Nat /\ ReachedTo(l.commit, l.proved, w)
       ELSE l.proved = 0
    /\ lab = "prove.inspected" \/ Head(l.stack) = "prove.inspected" => Reached(l.commit, w)
    /\ lab \in {"inspect.rows", "reconcile.cursor"} => l.insp # NoInspection
    /\ lab = "mutate" => GoodStatement(l.stmt, w)
    /\ x = "finalize.done" /\ lab = x => (l.err = "nil" => Reached(l.commit, w))
    /\ x = "finalize.done" /\ lab # x =>
          (lab \in {"verify", "prove.inspected"} /\ l.err # "nil") \/ l.stmt.op = "finalize"

InHandle(lab, l, w) ==
    \E x \in Body, r \in Tops : Placed(lab, l.stack, x, r) /\ Frame(l, x, r, w) /\ At(lab, l, x, w)

InDiscover(lab, l, w) ==
    /\ lab \in Discovering
    /\ lab \notin Tops => l.proved = 0
    /\ lab = "discover.committed" /\ l.err = "nil" => l.commit \in Commit /\ Reached(l.commit, w)
    /\ lab \in {"discover.verify", "discover.history"} =>
          /\ l.commit \in Commit
          /\ l.commit.msgs = NoRows
          /\ l.commit.next = l.commit.expected /\ l.commit.next <= Len(w.log)
    /\ lab = "discover.messages" =>
          /\ l.commit \in Commit
          /\ l.commit.expected < l.commit.next /\ l.commit.next <= Len(w.log)

Local(lab, l, w) == Sane(l, w) /\ (InHandle(lab, l, w) \/ InDiscover(lab, l, w))

-----------------------------------------------------------------------------
(* The inductive invariant. *)

Processes ==
    /\ pc = [p \in Procs |-> pc[p]] /\ loc = [p \in Procs |-> loc[p]]
    /\ \A p \in Procs : Local(pc[p], loc[p], World)

\* The rows, as StagingIsSound has them, and the soundness of the attempt's commit.
Rows ==
    /\ lifecycle \in [state : DOMAIN Transitions, version : 1 .. MaxVersion]
    /\ cursor \in 0 .. MaxHistory /\ cursor <= Len(log)
    /\ messages \in [MessageIDs -> Versions \cup {None}]
    /\ \/ attempt = NoAttempt /\ staging = NoRows
       \/ /\ attempt = [commit |-> attempt.commit, state |-> attempt.state]
          /\ attempt.state \in {"open", "sealed"}
          /\ Good(attempt.commit, World)
          /\ attempt.commit.expected = cursor
          /\ lifecycle.state # "revoked"
          /\ staging = [i \in DOMAIN staging |-> attempt.commit.msgs[i]]
          /\ DOMAIN staging \subseteq DOMAIN attempt.commit.msgs
          /\ attempt.state = "sealed" => staging = attempt.commit.msgs

Rest ==
    /\ \A s \in late : GoodStatement(s, World)
    /\ faults \in 0 .. MaxFaults
    /\ log \in Seq(MessageIDs) /\ Len(log) <= MaxHistory
    /\ vanished \subseteq MessageIDs

IInv == Rows /\ Rest /\ Processes /\ NoMessageSkipped

-----------------------------------------------------------------------------
(* Stacks: what Call pushes and Return pops. *)

\* Stacks are equal if they hold the same labels at the same depths.
LEMMA SameStack ==
    ASSUME NEW S, NEW s \in Seq(S), NEW t \in Seq(S),
           Len(s) = Len(t), \A i \in 1 .. Len(s) : s[i] = t[i]
    PROVE  s = t
OBVIOUS

\* What stands where in a stack on top of another.
LEMMA Stacked ==
    ASSUME NEW S, NEW s \in Seq(S), NEW t \in Seq(S)
    PROVE  /\ s \o t \in Seq(S)
           /\ Len(s \o t) = Len(s) + Len(t)
           /\ \A i \in 1 .. Len(s) + Len(t) :
                 (s \o t)[i] = IF i <= Len(s) THEN s[i] ELSE t[i - Len(s)]
OBVIOUS

\* A label in front of a stack.
LEMMA Push ==
    ASSUME NEW S, NEW a \in S, NEW t \in Seq(S), NEW u \in Seq(S),
           Len(u) = Len(t) + 1, u[1] = a, \A i \in 1 .. Len(t) : u[i + 1] = t[i]
    PROVE  <<a>> \o t = u
<1> DEFINE s == <<a>>
           v == s \o t
<1>1. s \in Seq(S) /\ Len(s) = 1 /\ s[1] = a
  OBVIOUS
<1> HIDE DEF s
<1>2. /\ v \in Seq(S) /\ Len(v) = Len(s) + Len(t)
      /\ \A i \in 1 .. Len(s) + Len(t) : v[i] = IF i <= Len(s) THEN s[i] ELSE t[i - Len(s)]
  BY <1>1, Stacked, Zenon
<1> HIDE DEF v
<1>3. \A i \in 1 .. Len(v) : v[i] = u[i]
  <2> TAKE i \in 1 .. Len(v)
  <2>1. CASE i = 1
    BY <2>1, <1>1, <1>2
  <2>2. CASE i # 1
    <3>1. i - 1 \in 1 .. Len(t) /\ (i - 1) + 1 = i
      BY <2>2, <1>1, <1>2
    <3>2. v[i] = t[i - 1]
      BY <2>2, <1>1, <1>2
    <3> QED
      BY <3>1, <3>2, Zenon
  <2> QED
    BY <2>1, <2>2, Zenon
<1>4. Len(v) = Len(u)
  BY <1>1, <1>2
<1>5. v = u
  BY <1>2, <1>3, <1>4, SameStack, Zenon
<1> QED
  BY <1>5, Zenon DEF v, s

\* The stacks of Placed, one label deeper.
LEMMA Pushed1 ==
    ASSUME NEW a, NEW b
    PROVE  <<a>> \o <<b>> = <<a, b>>
<1> DEFINE S == {a, b}
           t == <<b>>
           u == <<a, b>>
<1>1. /\ a \in S /\ t \in Seq(S) /\ u \in Seq(S) /\ Len(t) = 1 /\ Len(u) = 2
      /\ u[1] = a /\ u[2] = t[1]
  OBVIOUS
<1> HIDE DEF t, u, S
<1>2. Len(u) = Len(t) + 1 /\ \A i \in 1 .. Len(t) : u[i + 1] = t[i]
  BY <1>1
<1>3. <<a>> \o t = u
  BY <1>1, <1>2, Push, Zenon
<1> QED
  BY <1>3, Zenon DEF t, u

\* A label pushed on a stack of two.
LEMMA Pushed2 ==
    ASSUME NEW a, NEW b, NEW c
    PROVE  <<a>> \o <<b, c>> = <<a, b, c>>
<1> DEFINE S == {a, b, c}
           t == <<b, c>>
           u == <<a, b, c>>
<1>1. /\ a \in S /\ t \in Seq(S) /\ u \in Seq(S) /\ Len(t) = 2 /\ Len(u) = 3
      /\ u[1] = a /\ u[2] = t[1] /\ u[3] = t[2]
  OBVIOUS
<1> HIDE DEF t, u, S
<1>2. Len(u) = Len(t) + 1 /\ \A i \in 1 .. Len(t) : u[i + 1] = t[i]
  BY <1>1
<1>3. <<a>> \o t = u
  BY <1>1, <1>2, Push, Zenon
<1> QED
  BY <1>3, Zenon DEF t, u

\* A label pushed on a stack of three.
LEMMA Pushed3 ==
    ASSUME NEW a, NEW b, NEW c, NEW d
    PROVE  <<a>> \o <<b, c, d>> = <<a, b, c, d>>
<1> DEFINE S == {a, b, c, d}
           t == <<b, c, d>>
           u == <<a, b, c, d>>
<1>1. /\ a \in S /\ t \in Seq(S) /\ u \in Seq(S) /\ Len(t) = 3 /\ Len(u) = 4
      /\ u[1] = a /\ u[2] = t[1] /\ u[3] = t[2] /\ u[4] = t[3]
  OBVIOUS
<1> HIDE DEF t, u, S
<1>2. Len(u) = Len(t) + 1 /\ \A i \in 1 .. Len(t) : u[i + 1] = t[i]
  BY <1>1
<1>3. <<a>> \o t = u
  BY <1>1, <1>2, Push, Zenon
<1> QED
  BY <1>3, Zenon DEF t, u

-----------------------------------------------------------------------------
(* Worlds grow: mail arrives and vanishes, the cursor advances, messages   *)
(* are stored.  What a process knows of its commits stays true.            *)

Grew(w, v) ==
    /\ w.cursor \in Nat /\ v.cursor \in Nat /\ w.cursor <= v.cursor
    /\ w.log \in Seq(MessageIDs) /\ v.log \in Seq(MessageIDs) /\ Len(w.log) <= Len(v.log)
    /\ \A i \in 1 .. Len(w.log) : v.log[i] = w.log[i]
    /\ w.vanished \subseteq v.vanished
    /\ \A m \in MessageIDs : w.messages[m] # None => v.messages[m] # None

\* What a commit is made of.
LEMMA CommitType ==
    ASSUME NEW c \in Commit
    PROVE  /\ c.expected \in Nat /\ c.next \in Nat
           /\ c.expected \in 0 .. MaxHistory /\ c.next \in 0 .. MaxHistory
           /\ c.msgs \in Seq(Message) /\ Len(c.msgs) \in 0 .. MaxHistory
           /\ DOMAIN c.msgs = 1 .. Len(c.msgs)
           /\ \A i \in DOMAIN c.msgs :
                 c.msgs[i] \in Message /\ c.msgs[i].id \in MessageIDs /\ c.msgs[i].body \in Versions
<1>1. c.expected \in 0 .. MaxHistory /\ c.next \in 0 .. MaxHistory
  BY Zenon DEF Commit
<1>2. PICK n \in 0 .. MaxHistory : c.msgs \in [1 .. n -> Message]
  BY Zenon DEF Commit
<1>3. n \in Nat /\ c.msgs \in Seq(Message) /\ Len(c.msgs) = n /\ DOMAIN c.msgs = 1 .. n
  <2>1. n \in Nat
    BY DiscoveryConstants
  <2>2. c.msgs \in Seq(Message)
    BY <1>2, <2>1
  <2> QED
    BY <1>2, <2>1, <2>2
<1>4. \A i \in DOMAIN c.msgs : c.msgs[i] \in Message
  BY <1>2, Zenon
<1> QED
  BY <1>1, <1>2, <1>3, <1>4, DiscoveryConstants DEF Message

\* The history that is there does not change.
LEMMA GrownAdded ==
    ASSUME NEW w, NEW v, Grew(w, v), NEW from, NEW to \in Nat, to <= Len(w.log)
    PROVE  Added(v.log, from, to) = Added(w.log, from, to)
<1>1. Len(w.log) \in Nat /\ Len(v.log) \in Nat
  BY DEF Grew
<1>2. \A i \in Nat : i \in 1 .. Len(v.log) /\ i <= to <=> i \in 1 .. Len(w.log) /\ i <= to
  BY <1>1 DEF Grew
<1> DEFINE I == {i \in 1 .. Len(w.log) : from < i /\ i <= to}
           J == {i \in 1 .. Len(v.log) : from < i /\ i <= to}
<1>3. I = J
  BY <1>1, <1>2
<1>4. \A i \in I : v.log[i] = w.log[i]
  BY Zenon DEF Grew
<1> QED
  BY <1>3, <1>4, Zenon DEF Added

\* A good commit stays good.
LEMMA GrownGood ==
    ASSUME NEW w, NEW v, Grew(w, v), NEW c, Good(c, w)
    PROVE  Good(c, v)
<1>1. c.expected \in Nat /\ c.next \in Nat
  BY CommitType, Zenon DEF Good
<1>2. Added(v.log, c.expected, c.next) = Added(w.log, c.expected, c.next)
  BY <1>1, GrownAdded DEF Good
<1>3. c.next <= Len(v.log)
  BY <1>1 DEF Good, Grew
<1> QED
  BY <1>2, <1>3, Zenon DEF Good, Grew

\* What was reached stays reached.
LEMMA GrownReached ==
    ASSUME NEW w, NEW v, Grew(w, v), NEW c \in Commit
    PROVE  /\ Reached(c, w) => Reached(c, v)
           /\ \A k : ReachedTo(c, k, w) => ReachedTo(c, k, v)
<1>1. w.cursor >= c.next => v.cursor >= c.next
  BY CommitType DEF Grew
<1>2. \A i \in DOMAIN c.msgs : w.messages[c.msgs[i].id] # None => v.messages[c.msgs[i].id] # None
  BY CommitType, Zenon DEF Grew
<1> QED
  BY <1>1, <1>2, Zenon DEF Reached, ReachedTo

\* What a process holds stays true while the rows and the mailbox move on under it.
LEMMA GrownLocal ==
    ASSUME NEW w, NEW v, Grew(w, v), NEW lab, NEW l, Local(lab, l, w)
    PROVE  Local(lab, l, v)
<1>1. \A c : Good(c, w) => Good(c, v)
  BY GrownGood, Zenon
<1>2. \A c \in Commit : /\ Reached(c, w) => Reached(c, v)
                        /\ \A k : ReachedTo(c, k, w) => ReachedTo(c, k, v)
  BY GrownReached, Zenon
<1>3. Sane(l, v)
  BY <1>1, Zenon DEF Local, Sane
<1>4. ASSUME InHandle(lab, l, w)
      PROVE  InHandle(lab, l, v)
  <2>1. PICK x \in Body, r \in Tops :
            Placed(lab, l.stack, x, r) /\ Frame(l, x, r, w) /\ At(lab, l, x, w)
    BY <1>4, Zenon DEF InHandle
  <2>2. x \notin Blank => l.commit \in Commit
    BY <2>1, Zenon DEF Frame, Good
  <2>3. Frame(l, x, r, v)
    BY <1>1, <1>2, <2>1, <2>2, Zenon DEF Frame
  <2>4. x \in Blank => Head(l.stack) # "prove.inspected" /\ lab \notin {"prove.chunk", "prove.inspected", "mutate"}
    BY <2>1 DEF Placed, Blank, Tops, InspectReturns, ProveReturns, MutateReturns, Inspecting
  <2>5. At(lab, l, x, v)
    <3>1. CASE x \in Blank
      BY <2>1, <2>4, <3>1, Zenon DEF At, Blank
    <3>2. CASE x \notin Blank
      BY <1>1, <1>2, <2>1, <2>2, <3>2, Zenon DEF At, GoodStatement
    <3> QED
      BY <3>1, <3>2, Zenon
  <2> QED
    BY <2>1, <2>3, <2>5, Zenon DEF InHandle
<1>5. ASSUME InDiscover(lab, l, w)
      PROVE  InDiscover(lab, l, v)
  <2>1. Len(w.log) \in Nat /\ Len(v.log) \in Nat /\ Len(w.log) <= Len(v.log)
    BY DEF Grew
  <2>2. l.commit \in Commit /\ l.commit.next <= Len(w.log) => l.commit.next <= Len(v.log)
    BY <2>1, CommitType
  <2> QED
    BY <1>2, <1>5, <2>2, Zenon DEF InDiscover
<1> QED
  BY <1>3, <1>4, <1>5, Zenon DEF Local

-----------------------------------------------------------------------------
(* How a process moves between labels. *)

\* At a label of the body the stack has only the label the body returns to.
LEMMA AtBody ==
    ASSUME NEW w, NEW lab \in Body, NEW l, Local(lab, l, w)
    PROVE  \E r \in Tops : l.stack = <<r>> /\ Frame(l, lab, r, w) /\ At(lab, l, lab, w)
<1>1. lab \notin Discovering
  BY Zenon DEF Body, Discovering, Tops, InspectReturns, ProveReturns, MutateReturns
<1>2. PICK x \in Body, r \in Tops :
          Placed(lab, l.stack, x, r) /\ Frame(l, x, r, w) /\ At(lab, l, x, w)
  BY <1>1, Zenon DEF Local, InHandle, InDiscover
<1>3. lab \notin Inspecting \cup Proving \cup {"mutate", "verify", "verify.stage"}
  BY Zenon DEF Body, Inspecting, Proving, InspectReturns, ProveReturns, MutateReturns
<1>4. lab = x /\ l.stack = <<r>>
  BY <1>2, <1>3, Zenon DEF Placed
<1> QED
  BY <1>2, <1>4, Zenon

\* n is l but for the fields that play no part in the calls.
Same(n, l) ==
    /\ n.commit = l.commit /\ n.saved = l.saved /\ n.stmt = l.stmt
    /\ n.proved = l.proved /\ (n.durable => l.durable)

\* inspectCurrentDiscovery goes on.
LEMMA InspectGoesOn ==
    ASSUME NEW w, NEW lab \in Inspecting, NEW l, Local(lab, l, w),
           NEW next \in Inspecting, NEW n, Sane(n, w), Same(n, l), n.stack = l.stack,
           next = "inspect.rows" => n.insp # NoInspection
    PROVE  Local(next, n, w)
<1>1. lab \notin Discovering /\ lab \notin Body
  BY Zenon DEF Inspecting, Discovering, Body, Tops, InspectReturns, ProveReturns, MutateReturns
<1>2. PICK x \in Body, r \in Tops :
          Placed(lab, l.stack, x, r) /\ Frame(l, x, r, w) /\ At(lab, l, x, w)
  BY <1>1, Zenon DEF Local, InHandle, InDiscover
<1>3. Frame(n, x, r, w)
  BY <1>2, Zenon DEF Frame, Same
<1>4. Placed(next, n.stack, x, r)
  BY <1>1, <1>2, Zenon DEF Placed, Inspecting, Proving
<1>5. At(next, n, x, w)
  BY <1>1, <1>2, Zenon DEF At, Same, Inspecting
<1> QED
  BY <1>2, <1>3, <1>4, <1>5, Zenon DEF Local, InHandle

\* inspectCurrentDiscovery returns, with or without an error.
LEMMA InspectReturnsTo ==
    ASSUME NEW w, NEW lab \in Inspecting, NEW l, Local(lab, l, w),
           NEW n, Sane(n, w), n.commit = l.commit, n.saved = l.saved, n.proved = l.proved,
           n.durable => l.durable, n.stmt = l.stmt \/ n.err # "nil", n.stack = Tail(l.stack)
    PROVE  Local(Head(l.stack), n, w)
<1>1. lab \notin Discovering /\ lab \notin Body /\ lab \notin Proving
      /\ lab \notin {"mutate", "verify", "verify.stage", "prove.chunk", "prove.inspected"}
  BY Zenon DEF Inspecting, Proving, Discovering, Body, Tops, InspectReturns, ProveReturns, MutateReturns
<1>2. PICK x \in Body, r \in Tops :
          Placed(lab, l.stack, x, r) /\ Frame(l, x, r, w) /\ At(lab, l, x, w)
  BY <1>1, Zenon DEF Local, InHandle, InDiscover
<1>3. Frame(n, x, r, w) /\ n.proved = 0
  BY <1>1, <1>2, Zenon DEF Frame, At
<1>4. r # "prove.inspected" /\ x # "prove.inspected" /\ "verify" # "prove.inspected"
  BY Zenon DEF Tops, Body, InspectReturns, ProveReturns, MutateReturns
<1>5. CASE x \in InspectReturns /\ l.stack = <<x, r>>
  <2>1. Head(l.stack) = x /\ n.stack = <<r>>
    BY <1>5
  <2>2. At(x, n, x, w)
    BY <1>3, <1>4, <1>5, <2>1 DEF At, InspectReturns
  <2> QED
    BY <1>3, <2>1, <2>2, Zenon DEF Local, InHandle, Placed
<1>6. CASE x \in ProveReturns /\ l.stack = <<"prove.inspected", x, r>>
  <2>1. Head(l.stack) = "prove.inspected" /\ n.stack = <<x, r>>
    BY <1>6
  <2>2. At("prove.inspected", n, x, w)
    BY <1>2, <1>3, <1>6, <2>1, Zenon DEF At, ProveReturns
  <2> QED
    BY <1>3, <1>6, <2>1, <2>2, Zenon DEF Local, InHandle, Placed, Proving
<1>7. CASE x \in MutateReturns /\ l.stack = <<"verify", x, r>>
  <2>1. Head(l.stack) = "verify" /\ n.stack = <<x, r>> /\ x # "verify"
    BY <1>7 DEF MutateReturns
  <2>2. At("verify", n, x, w)
    BY <1>1, <1>2, <1>3, <1>4, <1>7, <2>1 DEF At
  <2> QED
    BY <1>3, <1>7, <2>1, <2>2, Zenon DEF Local, InHandle, Placed
<1>8. CASE x \in MutateReturns /\ l.stack = <<"prove.inspected", "verify", x, r>>
  <2>1. Head(l.stack) = "prove.inspected" /\ n.stack = <<"verify", x, r>> /\ x # "prove.inspected"
    BY <1>4, <1>8
  <2>2. At("prove.inspected", n, x, w)
    BY <1>1, <1>2, <1>3, <1>8, <2>1, Zenon DEF At
  <2> QED
    BY <1>3, <1>8, <2>1, <2>2, Zenon DEF Local, InHandle, Placed, Proving
<1> QED
  BY <1>1, <1>2, <1>5, <1>6, <1>7, <1>8, Zenon DEF Placed

\* proveCurrentDiscovery returns, with or without an error.
LEMMA ProveReturnsTo ==
    ASSUME NEW w, NEW lab \in Proving, NEW l, Local(lab, l, w),
           NEW n, Sane(n, w), n.commit = l.commit, n.saved = l.saved, n.proved = 0,
           n.durable => Reached(l.commit, w),
           \/ n.stmt = l.stmt /\ (lab = "prove.inspected" => n.err = l.err)
           \/ n.err # "nil",
           n.stack = Tail(l.stack)
    PROVE  Local(Head(l.stack), n, w)
<1>1. lab \notin Discovering /\ lab \notin Body /\ lab \notin Inspecting
      /\ lab \notin {"mutate", "verify", "verify.stage"}
  BY Zenon DEF Inspecting, Proving, Discovering, Body, Tops, InspectReturns, ProveReturns, MutateReturns
<1>2. PICK x \in Body, r \in Tops :
          Placed(lab, l.stack, x, r) /\ Frame(l, x, r, w) /\ At(lab, l, x, w)
  BY <1>1, Zenon DEF Local, InHandle, InDiscover
<1>3. x \in ProveReturns \cup MutateReturns /\ x \notin Blank
  BY <1>1, <1>2, Zenon DEF Placed, ProveReturns, MutateReturns, Blank
<1>4. Frame(n, x, r, w)
  BY <1>2, <1>3, Zenon DEF Frame
<1>5. r # "prove.inspected" /\ x # "prove.inspected"
  BY Zenon DEF Tops, Body, InspectReturns, ProveReturns, MutateReturns
<1>6. CASE x \in ProveReturns /\ l.stack = <<x, r>>
  <2>1. Head(l.stack) = x /\ n.stack = <<r>>
    BY <1>6
  <2>2. At(x, n, x, w)
    BY <1>5, <1>6, <2>1 DEF At, ProveReturns
  <2> QED
    BY <1>4, <2>1, <2>2, Zenon DEF Local, InHandle, Placed
<1>7. CASE x \in MutateReturns /\ l.stack = <<"verify", x, r>>
  <2>1. Head(l.stack) = "verify" /\ n.stack = <<x, r>> /\ x # "verify"
    BY <1>7 DEF MutateReturns
  <2>2. x = "finalize.done" => n.err # "nil" \/ n.stmt.op = "finalize"
    BY <1>1, <1>2, Zenon DEF At, Body
  <2>3. At("verify", n, x, w)
    BY <1>5, <1>7, <2>1, <2>2 DEF At
  <2> QED
    BY <1>4, <1>7, <2>1, <2>3, Zenon DEF Local, InHandle, Placed
<1> QED
  BY <1>1, <1>2, <1>6, <1>7, Zenon DEF Placed

\* A call, as Call makes it.
Called(l, ret) == [l EXCEPT !.stack = <<ret>> \o @, !.err = "nil", !.durable = FALSE]

\* A call pushes its return label, clears the error and keeps what the caller holds.
LEMMA CalledFields ==
    ASSUME NEW v, NEW k, Sane(k, v), NEW ret
    PROVE  /\ Sane(Called(k, ret), v)
           /\ Called(k, ret).stack = <<ret>> \o k.stack
           /\ Called(k, ret).err = "nil" /\ ~Called(k, ret).durable
           /\ Called(k, ret).commit = k.commit /\ Called(k, ret).insp = k.insp
           /\ Called(k, ret).stmt = k.stmt /\ Called(k, ret).saved = k.saved
           /\ Called(k, ret).proved = k.proved
  BY Zenon DEF Called, Sane, Fields

\* proveCurrentDiscovery has found the cursor and every chunk, and looks for an attempt.
LEMMA ProveInspects ==
    ASSUME NEW w, NEW lab \in Proving, NEW l, Local(lab, l, w),
           NEW n, Sane(n, w), n.commit = l.commit, n.saved = l.saved, n.proved = 0,
           lab # "prove.inspected", n.stmt = l.stmt, n.stack = l.stack, Reached(l.commit, w)
    PROVE  Local("inspect", Called(n, "prove.inspected"), w)
<1>1. lab \notin Discovering /\ lab \notin Body /\ lab \notin Inspecting
      /\ lab \notin {"mutate", "verify", "verify.stage"}
  BY Zenon DEF Inspecting, Proving, Discovering, Body, Tops, InspectReturns, ProveReturns, MutateReturns
<1>2. PICK x \in Body, r \in Tops :
          Placed(lab, l.stack, x, r) /\ Frame(l, x, r, w) /\ At(lab, l, x, w)
  BY <1>1, Zenon DEF Local, InHandle, InDiscover
<1>3. x \in ProveReturns \cup MutateReturns /\ x \notin Blank
  BY <1>1, <1>2, Zenon DEF Placed, ProveReturns, MutateReturns, Blank
<1> DEFINE m == Called(n, "prove.inspected")
<1>4. /\ Sane(m, w) /\ m.stack = <<"prove.inspected">> \o l.stack
      /\ m.commit = l.commit /\ m.stmt = l.stmt /\ m.saved = l.saved
      /\ m.proved = 0 /\ ~m.durable
  <2>1. /\ Sane(m, w) /\ m.stack = <<"prove.inspected">> \o n.stack
        /\ m.commit = n.commit /\ m.stmt = n.stmt /\ m.saved = n.saved
        /\ m.proved = n.proved /\ ~m.durable
    BY CalledFields
  <2> HIDE DEF m
  <2> QED
    BY <2>1, Zenon
<1> HIDE DEF m
<1>5. Frame(m, x, r, w)
  BY <1>2, <1>3, <1>4, Zenon DEF Frame
<1>6. At("inspect", m, x, w)
  BY <1>1, <1>2, <1>4, Zenon DEF At, Proving
<1>7. Placed("inspect", m.stack, x, r)
  <2>1. CASE x \in ProveReturns /\ l.stack = <<x, r>>
    <3>1. <<"prove.inspected">> \o <<x, r>> = <<"prove.inspected", x, r>>
      BY Pushed2, Zenon
    <3>2. m.stack = <<"prove.inspected", x, r>>
      BY <1>4, <2>1, <3>1, Zenon
    <3> QED
      BY <2>1, <3>2, Zenon DEF Placed, Inspecting
  <2>2. CASE x \in MutateReturns /\ l.stack = <<"verify", x, r>>
    <3>1. <<"prove.inspected">> \o <<"verify", x, r>> = <<"prove.inspected", "verify", x, r>>
      BY Pushed3, Zenon
    <3>2. m.stack = <<"prove.inspected", "verify", x, r>>
      BY <1>4, <2>2, <3>1, Zenon
    <3> QED
      BY <2>2, <3>2, Zenon DEF Placed, Inspecting
  <2> QED
    BY <1>1, <1>2, <2>1, <2>2, Zenon DEF Placed
<1> QED
  BY <1>4, <1>5, <1>6, <1>7, Zenon DEF Local, InHandle, m

\* The body calls inspectCurrentDiscovery or proveCurrentDiscovery and will come
\* back to label y.
LEMMA BodyCalls ==
    ASSUME NEW w, NEW y \in Body, NEW r \in Tops, NEW l, Sane(l, w),
           l.stack = <<r>>, l.proved = 0,
           y \in Reconciles => r = "discover.reconciled",
           y \notin Blank => Good(l.commit, w),
           y \in Saving => l.saved # "nil"
    PROVE  /\ y \in InspectReturns => Local("inspect", Called(l, y), w)
           /\ y \in ProveReturns => Local("prove", Called(l, y), w)
<1> DEFINE m == Called(l, y)
<1>1. /\ Sane(m, w) /\ m.stack = <<y>> \o l.stack
      /\ m.commit = l.commit /\ m.saved = l.saved
      /\ m.proved = 0 /\ ~m.durable
  BY CalledFields, Zenon
<1> HIDE DEF m
<1>2. m.stack = <<y, r>>
  BY <1>1, Pushed1, Zenon
<1>3. Frame(m, y, r, w)
  BY <1>1, Zenon DEF Frame
<1>4. Head(m.stack) = y /\ y # "prove.inspected"
  BY <1>2 DEF Body, InspectReturns, ProveReturns, MutateReturns
<1>5. ASSUME y \in InspectReturns
      PROVE  Local("inspect", m, w)
  <2>1. At("inspect", m, y, w)
    BY <1>1, <1>4, <1>5, Zenon DEF At, InspectReturns
  <2> QED
    BY <1>1, <1>2, <1>3, <1>5, <2>1, Zenon DEF Local, InHandle, Placed, Inspecting
<1>6. ASSUME y \in ProveReturns
      PROVE  Local("prove", m, w)
  <2>1. At("prove", m, y, w)
    BY <1>1, <1>4, <1>6, Zenon DEF At, ProveReturns
  <2> QED
    BY <1>1, <1>2, <1>3, <1>6, <2>1, Zenon DEF Local, InHandle, Placed, Proving
<1> QED
  BY <1>5, <1>6, Zenon DEF m

\* The body sends a statement and will come back to label y.
LEMMA BodyMutates ==
    ASSUME NEW w, NEW y \in MutateReturns, NEW r \in Tops, NEW l, Sane(l, w),
           l.stack = <<r>>, l.proved = 0,
           y \in Reconciles => r = "discover.reconciled",
           Good(l.commit, w), NEW op \in Ops, y = "finalize.done" => op = "finalize", NEW k
    PROVE  Local("mutate",
                 Called([l EXCEPT !.stmt = Statement(op, l.commit, k), !.insp = NoInspection], y), w)
<1> DEFINE n == [l EXCEPT !.stmt = Statement(op, l.commit, k), !.insp = NoInspection]
           m == Called(n, y)
<1>1. /\ Sane(n, w) /\ n.stack = <<r>> /\ n.proved = 0 /\ n.commit = l.commit
      /\ n.stmt = Statement(op, l.commit, k)
  BY Zenon DEF Sane, Fields
<1> HIDE DEF n
<1>2. /\ Sane(m, w) /\ m.stack = <<y>> \o n.stack /\ m.commit = l.commit /\ m.stmt = n.stmt
      /\ m.proved = 0 /\ ~m.durable
  <2>1. /\ Sane(m, w) /\ m.stack = <<y>> \o n.stack /\ m.commit = n.commit
        /\ m.stmt = n.stmt /\ m.proved = n.proved /\ ~m.durable
    <3>1. Sane(n, w)
      BY <1>1, Zenon
    <3> QED
      BY <3>1, CalledFields
  <2> HIDE DEF m
  <2> QED
    BY <1>1, <2>1, Zenon
<1> HIDE DEF m
<1>3. m.stack = <<y, r>>
  BY <1>1, <1>2, Pushed1, Zenon
<1>4. y \in Body /\ y \notin Blank /\ y \notin Saving /\ y # "prove.inspected" /\ y # "mutate"
  BY Zenon DEF Body, Blank, Saving, MutateReturns
<1>5. Frame(m, y, r, w)
  BY <1>2, <1>4, Zenon DEF Frame
<1>6. m.stmt.op = op /\ GoodStatement(m.stmt, w)
  BY <1>1, <1>2 DEF GoodStatement, Statement
<1>7. At("mutate", m, y, w)
  BY <1>2, <1>3, <1>4, <1>6 DEF At
<1>8. Placed("mutate", m.stack, y, r)
  BY <1>3, Zenon DEF Placed
<1> QED
  BY <1>2, <1>4, <1>5, <1>7, <1>8, Zenon DEF Local, InHandle, m, n

\* A statement has been verified, or not.
LEMMA MutateReturnsTo ==
    ASSUME NEW w, NEW lab \in {"mutate", "verify", "verify.stage"}, NEW l, Local(lab, l, w),
           NEW n, Sane(n, w), n.commit = l.commit, n.saved = l.saved, n.proved = l.proved,
           n.durable => l.durable, n.stack = Tail(l.stack),
           Head(l.stack) = "finalize.done" /\ n.err = "nil" => Reached(l.commit, w)
    PROVE  Local(Head(l.stack), n, w)
<1>1. lab \notin Discovering /\ lab \notin Body /\ lab \notin Inspecting \cup Proving
  BY Zenon DEF Inspecting, Proving, Discovering, Body, Tops, InspectReturns, ProveReturns, MutateReturns
<1>2. PICK x \in Body, r \in Tops :
          Placed(lab, l.stack, x, r) /\ Frame(l, x, r, w) /\ At(lab, l, x, w)
  BY <1>1, Zenon DEF Local, InHandle, InDiscover
<1>3. x \in MutateReturns /\ l.stack = <<x, r>>
  BY <1>1, <1>2, Zenon DEF Placed
<1>4. Head(l.stack) = x /\ n.stack = <<r>>
  BY <1>3
<1>5. Frame(n, x, r, w) /\ n.proved = 0
  BY <1>1, <1>2, Zenon DEF Frame, At, Proving
<1>6. At(x, n, x, w)
  BY <1>3, <1>4, <1>5 DEF At, MutateReturns, Tops
<1> QED
  BY <1>4, <1>5, <1>6, Zenon DEF Local, InHandle, Placed

-----------------------------------------------------------------------------
(* Moves: what a step of a process has to show. *)

Moves(p) == \E lab, n : Goto(p, lab, n) /\ Local(lab, n, World)

\* The body returns to Discover.
LEMMA BodyReturns ==
    ASSUME NEW w, NEW lab \in Body, NEW l, Local(lab, l, w), NEW n, Sane(n, w),
           n.err = "nil" /\ Head(l.stack) = "discover.committed" =>
               n.commit \in Commit /\ Reached(n.commit, w)
    PROVE  Local(Head(l.stack), n, w)
<1>1. PICK r \in Tops : l.stack = <<r>>
  BY AtBody, Zenon
<1>2. Head(l.stack) = r /\ r \in Discovering
  BY <1>1 DEF Discovering
<1>3. r \notin {"discover.verify", "discover.history", "discover.messages"}
  BY Zenon DEF Tops
<1> QED
  BY <1>2, <1>3, Zenon DEF Local, InDiscover

\* The body fails, or succeeds if what it should have done has happened.
LEMMA BodyFails ==
    ASSUME NEW p \in Procs, pc[p] \in Body, Local(pc[p], loc[p], World), NEW e, Fails(p, e),
           e = "nil" /\ Head(loc[p].stack) = "discover.committed" =>
               loc[p].commit \in Commit /\ Reached(loc[p].commit, World)
    PROVE  Moves(p)
<1> DEFINE l == loc[p]
           k == [l EXCEPT !.err = e, !.insp = NoInspection, !.saved = "nil"]
           n == [k EXCEPT !.stack = Tail(@)]
<1>1. Sane(l, World)
  BY Zenon DEF Local
<1>2. Sane(n, World) /\ k.stack = l.stack /\ n.err = e /\ n.commit = l.commit
  BY <1>1, Zenon DEF Sane, Fields
<1>3. Goto(p, Head(k.stack), n)
  BY Zenon DEF Fails, Return
<1> HIDE DEF k, n
<1>4. Local(Head(l.stack), n, World)
  BY <1>2, BodyReturns, Zenon
<1> QED
  BY <1>2, <1>3, <1>4, Zenon DEF Moves

\* The body goes on at label y.
LEMMA BodyGoesOn ==
    ASSUME NEW w, NEW y \in Body, NEW r \in Tops, NEW n, Sane(n, w),
           n.stack = <<r>>, n.proved = 0,
           y \in Reconciles => r = "discover.reconciled",
           y \notin Blank => Good(n.commit, w), y \in Blank => ~n.durable,
           y \in Saving => n.saved # "nil", n.durable => Reached(n.commit, w),
           y = "reconcile.cursor" => n.insp # NoInspection, y # "finalize.done"
    PROVE  Local(y, n, w)
<1>1. Frame(n, y, r, w)
  BY Zenon DEF Frame
<1>2. y \notin {"prove.chunk", "prove.inspected", "mutate", "inspect.rows"} /\ r # "prove.inspected"
  BY Zenon DEF Body, Tops, InspectReturns, ProveReturns, MutateReturns
<1>3. At(y, n, y, w)
  BY <1>2 DEF At
<1> QED
  BY <1>1, <1>3, Zenon DEF Local, InHandle, Placed

\* The body calls inspectCurrentDiscovery.
LEMMA BodyInspects ==
    ASSUME NEW p \in Procs, NEW y \in InspectReturns, NEW r \in Tops, NEW l, Sane(l, World),
           l.stack = <<r>>, l.proved = 0,
           y \in Reconciles => r = "discover.reconciled",
           y \notin Blank => Good(l.commit, World),
           y \in Saving => l.saved # "nil",
           Call(p, "inspect", y, l)
    PROVE  Moves(p)
<1>1. y \in Body
  BY Zenon DEF Body
<1>2. Local("inspect", Called(l, y), World)
  BY <1>1, BodyCalls, Zenon
<1>3. Goto(p, "inspect", Called(l, y))
  BY Zenon DEF Call, Called
<1> QED
  BY <1>2, <1>3, Zenon DEF Moves

\* The body calls proveCurrentDiscovery.
LEMMA BodyProves ==
    ASSUME NEW p \in Procs, NEW y \in ProveReturns, NEW r \in Tops, NEW l, Sane(l, World),
           l.stack = <<r>>, l.proved = 0,
           y \in Reconciles => r = "discover.reconciled",
           Good(l.commit, World),
           y \in Saving => l.saved # "nil",
           Call(p, "prove", y, l)
    PROVE  Moves(p)
<1>1. y \in Body
  BY Zenon DEF Body
<1>2. Local("prove", Called(l, y), World)
  BY <1>1, BodyCalls, Zenon
<1>3. Goto(p, "prove", Called(l, y))
  BY Zenon DEF Call, Called
<1> QED
  BY <1>2, <1>3, Zenon DEF Moves

\* The body sends a statement.
LEMMA BodySends ==
    ASSUME NEW p \in Procs, NEW y \in MutateReturns, NEW r \in Tops, NEW l, Sane(l, World),
           l.stack = <<r>>, l.proved = 0,
           y \in Reconciles => r = "discover.reconciled",
           Good(l.commit, World), NEW op \in Ops, y = "finalize.done" => op = "finalize", NEW k,
           CallMutate(p, op, k, y, l)
    PROVE  Moves(p)
<1> DEFINE n == [l EXCEPT !.stmt = Statement(op, l.commit, k), !.insp = NoInspection]
<1>1. Local("mutate", Called(n, y), World)
  BY BodyMutates, Zenon
<1>2. Goto(p, "mutate", Called(n, y))
  BY Zenon DEF CallMutate, Call, Called
<1> QED
  BY <1>1, <1>2, Zenon DEF Moves

-----------------------------------------------------------------------------
(* CommitCurrentDiscovery, finalizeCurrentDiscovery and                    *)
(* ReconcileCurrentDiscovery, one lemma for each step.                     *)

\* What is known at a label of the body.
Stands(p, r) ==
    /\ pc[p] \in Body /\ Local(pc[p], loc[p], World)
    /\ Sane(loc[p], World) /\ loc[p].stack = <<r>> /\ loc[p].proved = 0
    /\ pc[p] \in Reconciles => r = "discover.reconciled"
    /\ pc[p] \notin Blank => Good(loc[p].commit, World) /\ loc[p].commit \in Commit
    /\ pc[p] \in Blank => ~loc[p].durable
    /\ pc[p] \in Saving => loc[p].saved # "nil"
    /\ loc[p].durable => Reached(loc[p].commit, World)

\* A process in the body of commit is called from one of the three places that commit.
LEMMA BodyStands ==
    ASSUME NEW p \in Procs, pc[p] \in Body, Local(pc[p], loc[p], World)
    PROVE  \E r \in Tops : Stands(p, r)
<1>1. PICK r \in Tops : /\ loc[p].stack = <<r>> /\ Frame(loc[p], pc[p], r, World)
                        /\ At(pc[p], loc[p], pc[p], World)
  BY AtBody, Zenon
<1>2. pc[p] # "prove.chunk"
  BY Zenon DEF Body, InspectReturns, ProveReturns, MutateReturns
<1>3. loc[p].proved = 0
  BY <1>1, <1>2, Zenon DEF At
<1>4. Good(loc[p].commit, World) => loc[p].commit \in Commit
  BY Zenon DEF Good
<1> QED
  BY <1>1, <1>3, <1>4, Zenon DEF Stands, Frame, Local

\* A success that follows from durable.
LEMMA DurableSucceeds ==
    ASSUME NEW p \in Procs, NEW r \in Tops, Stands(p, r), pc[p] \notin Blank, loc[p].durable, Succeeds(p)
    PROVE  Moves(p)
  BY BodyFails, Zenon DEF Stands, Succeeds

\* A failure.
LEMMA ErrorFails ==
    ASSUME NEW p \in Procs, NEW r \in Tops, Stands(p, r), NEW e, e # "nil", Fails(p, e)
    PROVE  Moves(p)
  BY BodyFails, Zenon DEF Stands

\* After the first proof of commit: it is durable already, or the attempt is inspected.
LEMMA CommitProvedMoves ==
    ASSUME NEW p \in Procs, Local(pc[p], loc[p], World), CommitProved(p)
    PROVE  Moves(p)
<1>1. pc[p] \in Body /\ pc[p] \notin Blank
  BY Zenon DEF CommitProved, Body, ProveReturns, Blank
<1>2. PICK r \in Tops : Stands(p, r)
  BY <1>1, BodyStands, Zenon
<1>3. CASE Durable(p)
  BY <1>1, <1>2, <1>3, DurableSucceeds, Zenon DEF CommitProved, Durable
<1>4. CASE ~Durable(p)
  <2>1. Call(p, "inspect", "commit.inspected", loc[p])
    BY <1>4, Zenon DEF CommitProved
  <2>2. "commit.inspected" \in InspectReturns /\ "commit.inspected" \notin Reconciles \cup Blank \cup Saving
    BY Zenon DEF InspectReturns, Reconciles, Blank, Saving
  <2> QED
    BY <1>1, <1>2, <2>1, <2>2, BodyInspects, Zenon DEF Stands
<1> QED
  BY <1>3, <1>4, Zenon

\* After the inspection: an attempt of another commit, of this one, or none.
LEMMA CommitInspectedMoves ==
    ASSUME NEW p \in Procs, Local(pc[p], loc[p], World), CommitInspected(p)
    PROVE  Moves(p)
<1>1. pc[p] \in Body /\ pc[p] \notin Blank
  BY Zenon DEF CommitInspected, Body, InspectReturns, Blank
<1>2. PICK r \in Tops : Stands(p, r)
  BY <1>1, BodyStands, Zenon
<1>3. CASE \E e : e # "nil" /\ Fails(p, e)
  BY <1>2, <1>3, ErrorFails, Zenon
<1>4. CASE \E y \in {"commit.fresh", "commit.cursor"} : Goto(p, y, loc[p])
  <2>1. PICK y \in {"commit.fresh", "commit.cursor"} : Goto(p, y, loc[p])
    BY <1>4, Zenon
  <2>2. /\ y \in Body /\ y \notin Reconciles \cup Blank \cup Saving
        /\ y # "reconcile.cursor" /\ y # "finalize.done"
    BY <2>1, Zenon DEF Body, Reconciles, Blank, Saving
  <2>3. Local(y, loc[p], World)
    BY <1>1, <1>2, <2>2, BodyGoesOn, Zenon DEF Stands
  <2> QED
    BY <2>1, <2>3, Zenon DEF Moves
<1> QED
  BY <1>3, <1>4, Zenon DEF CommitInspected

\* After the proof that follows a divergence: durable after all, or it fails.
LEMMA CommitDivergedMoves ==
    ASSUME NEW p \in Procs, Local(pc[p], loc[p], World), CommitDiverged(p)
    PROVE  Moves(p)
<1>1. /\ pc[p] \in Body /\ pc[p] \notin Blank
      /\ pc[p] = "commit.unsealed" => pc[p] \in Saving
  BY Zenon DEF CommitDiverged, Body, ProveReturns, Blank, Saving
<1>2. PICK r \in Tops : Stands(p, r)
  BY <1>1, BodyStands, Zenon
<1>3. CASE Durable(p)
  BY <1>1, <1>2, <1>3, DurableSucceeds, Zenon DEF CommitDiverged, Durable
<1>4. CASE ~Durable(p)
  <2> DEFINE e == IF pc[p] = "commit.unsealed" THEN loc[p].saved ELSE "recovery"
  <2>1. Fails(p, e)
    BY <1>4, Zenon DEF CommitDiverged
  <2>2. e # "nil"
    BY <1>1, <1>2, Zenon DEF Stands
  <2> QED
    BY <1>2, <2>1, <2>2, ErrorFails, Zenon
<1> QED
  BY <1>3, <1>4, Zenon

\* After the attempt is created: it is inspected, or its failure is followed by a proof.
LEMMA CommitCreatedMoves ==
    ASSUME NEW p \in Procs, Local(pc[p], loc[p], World), CommitCreated(p)
    PROVE  Moves(p)
<1>1. pc[p] \in Body /\ pc[p] \notin Blank
  BY Zenon DEF CommitCreated, Body, MutateReturns, Blank
<1>2. PICK r \in Tops : Stands(p, r)
  BY <1>1, BodyStands, Zenon
<1>3. CASE loc[p].err = "nil"
  <2>1. Call(p, "inspect", "commit.reinspected", loc[p])
    BY <1>3, Zenon DEF CommitCreated
  <2>2. /\ "commit.reinspected" \in InspectReturns
        /\ "commit.reinspected" \notin Reconciles \cup Blank \cup Saving
    BY Zenon DEF InspectReturns, Reconciles, Blank, Saving
  <2> QED
    BY <1>1, <1>2, <2>1, <2>2, BodyInspects, Zenon DEF Stands
<1>4. CASE loc[p].err # "nil"
  <2> DEFINE n == [loc[p] EXCEPT !.saved = loc[p].err]
  <2>1. Call(p, "prove", "commit.uncreated", n)
    BY <1>4, Zenon DEF CommitCreated
  <2>2. Sane(loc[p], World)
    BY Zenon DEF Local
  <2>3. /\ Sane(n, World) /\ n.stack = loc[p].stack /\ n.proved = loc[p].proved
        /\ n.commit = loc[p].commit /\ n.saved = loc[p].err
    BY <2>2, Zenon DEF Sane, Fields
  <2>4. "commit.uncreated" \in ProveReturns /\ "commit.uncreated" \notin Reconciles
    BY Zenon DEF ProveReturns, Reconciles
  <2> HIDE DEF n
  <2> QED
    BY <1>1, <1>2, <1>4, <2>1, <2>3, <2>4, BodyProves, Zenon DEF Stands
<1> QED
  BY <1>3, <1>4, Zenon

\* The chunk loop: seal, or stage the next chunk.
LEMMA StageNextMoves ==
    ASSUME NEW p \in Procs, NEW r \in Tops, Stands(p, r), NEW l, Sane(l, World),
           l.stack = <<r>>, l.proved = 0, Good(l.commit, World), StageNext(p, l)
    PROVE  Moves(p)
<1>1. CASE Fails(p, "recovery")
  BY <1>1, ErrorFails, Zenon
<1>2. CASE CallMutate(p, "seal", 0, "commit.sealed", l)
  <2>1. "commit.sealed" \in MutateReturns /\ "commit.sealed" \notin Reconciles /\ "seal" \in Ops
    BY Zenon DEF MutateReturns, Reconciles, Ops
  <2> QED
    BY <1>2, <2>1, BodySends, Zenon
<1>3. CASE CallMutate(p, "stage", l.count \div ChunkSize, "commit.staged", l)
  <2>1. "commit.staged" \in MutateReturns /\ "commit.staged" \notin Reconciles /\ "stage" \in Ops
    BY Zenon DEF MutateReturns, Reconciles, Ops
  <2> QED
    BY <1>3, <2>1, BodySends, Zenon
<1> QED
  BY <1>1, <1>2, <1>3, Zenon DEF StageNext

\* On to finalizeCurrentDiscovery, with local variables n.
LEMMA ToFinalize ==
    ASSUME NEW p \in Procs, NEW r \in Tops, NEW n, Sane(n, World), n.stack = <<r>>, n.proved = 0,
           Good(n.commit, World), n.durable => Reached(n.commit, World), Goto(p, "finalize", n)
    PROVE  Moves(p)
<1>1. "finalize" \in Body /\ "finalize" \notin Reconciles \cup Blank \cup Saving
  BY Zenon DEF Body, Reconciles, Blank, Saving
<1>2. Local("finalize", n, World)
  BY <1>1, BodyGoesOn, Zenon
<1> QED
  BY <1>2, Zenon DEF Moves

\* A sealed attempt is finalized, another goes on with the chunk loop.
LEMMA CommitStageMoves ==
    ASSUME NEW p \in Procs, NEW r \in Tops, Stands(p, r), pc[p] \notin Blank, CommitStage(p, loc[p])
    PROVE  Moves(p)
<1>1. CASE loc[p].insp.state = "sealed"
  <2> DEFINE n == [loc[p] EXCEPT !.insp = NoInspection]
  <2>1. Goto(p, "finalize", n)
    BY <1>1, Zenon DEF CommitStage
  <2>2. /\ Sane(n, World) /\ n.stack = loc[p].stack /\ n.proved = loc[p].proved
        /\ n.commit = loc[p].commit /\ (n.durable => loc[p].durable)
    BY Zenon DEF Stands, Sane, Fields
  <2> HIDE DEF n
  <2> QED
    BY <2>1, <2>2, ToFinalize, Zenon DEF Stands
<1>2. CASE loc[p].insp.state # "sealed"
  <2> DEFINE n == [loc[p] EXCEPT !.count = Len(loc[p].insp.rows)]
  <2>1. StageNext(p, n)
    BY <1>2, Zenon DEF CommitStage
  <2>2. /\ Sane(n, World) /\ n.stack = loc[p].stack /\ n.proved = loc[p].proved
        /\ n.commit = loc[p].commit
    BY Zenon DEF Stands, Sane, Fields
  <2> HIDE DEF n
  <2> QED
    BY <2>1, <2>2, StageNextMoves, Zenon DEF Stands
<1> QED
  BY <1>1, <1>2, Zenon

\* After the second inspection: the stage that it shows, or an error.
LEMMA CommitReinspectedMoves ==
    ASSUME NEW p \in Procs, Local(pc[p], loc[p], World), CommitReinspected(p)
    PROVE  Moves(p)
<1>1. pc[p] \in Body /\ pc[p] \notin Blank
  BY Zenon DEF CommitReinspected, Body, InspectReturns, Blank
<1>2. PICK r \in Tops : Stands(p, r)
  BY <1>1, BodyStands, Zenon
<1> QED
  BY <1>1, <1>2, ErrorFails, CommitStageMoves, Zenon DEF CommitReinspected

\* After the proof that follows a failed creation: durable after all, or why not is inspected.
LEMMA CommitUncreatedMoves ==
    ASSUME NEW p \in Procs, Local(pc[p], loc[p], World), CommitUncreated(p)
    PROVE  Moves(p)
<1>1. pc[p] \in Body /\ pc[p] \notin Blank /\ pc[p] \in Saving
  BY Zenon DEF CommitUncreated, Body, ProveReturns, Blank, Saving
<1>2. PICK r \in Tops : Stands(p, r)
  BY <1>1, BodyStands, Zenon
<1>3. CASE Durable(p)
  BY <1>1, <1>2, <1>3, DurableSucceeds, Zenon DEF CommitUncreated, Durable
<1>4. CASE ~Durable(p)
  <2>1. Call(p, "inspect", "commit.why", loc[p])
    BY <1>4, Zenon DEF CommitUncreated
  <2>2. "commit.why" \in InspectReturns /\ "commit.why" \notin Reconciles \cup Blank
    BY Zenon DEF InspectReturns, Reconciles, Blank
  <2> QED
    BY <1>1, <1>2, <2>1, <2>2, BodyInspects, Zenon DEF Stands
<1> QED
  BY <1>3, <1>4, Zenon

\* A chunk is known to be staged: the next one.
LEMMA ChunkStagedMoves ==
    ASSUME NEW p \in Procs, NEW r \in Tops, Stands(p, r), pc[p] \notin Blank, ChunkStaged(p, loc[p])
    PROVE  Moves(p)
<1> DEFINE end == loc[p].count + ChunkSize
           c == IF end > Len(loc[p].commit.msgs) THEN Len(loc[p].commit.msgs) ELSE end
           n == [loc[p] EXCEPT !.insp = NoInspection, !.tries = 0, !.saved = "nil", !.count = c]
<1>1. StageNext(p, n)
  BY Zenon DEF ChunkStaged
<1> HIDE DEF c
<1>2. /\ Sane(n, World) /\ n.stack = loc[p].stack /\ n.proved = loc[p].proved
      /\ n.commit = loc[p].commit
  BY Zenon DEF Stands, Sane, Fields
<1> HIDE DEF n
<1> QED
  BY <1>1, <1>2, StageNextMoves, Zenon DEF Stands

\* A chunk was staged or not: the next one, or the recovery of this one.
LEMMA CommitStagedMoves ==
    ASSUME NEW p \in Procs, Local(pc[p], loc[p], World), CommitStaged(p)
    PROVE  Moves(p)
<1>1. pc[p] \in Body /\ pc[p] \notin Blank
  BY Zenon DEF CommitStaged, Body, MutateReturns, Blank
<1>2. PICK r \in Tops : Stands(p, r)
  BY <1>1, BodyStands, Zenon
<1>3. CASE loc[p].err = "nil"
  BY <1>1, <1>2, <1>3, ChunkStagedMoves, Zenon DEF CommitStaged
<1>4. CASE loc[p].err = "inspect"
  <2>1. Fails(p, loc[p].err) /\ loc[p].err # "nil"
    BY <1>4, Zenon DEF CommitStaged
  <2> QED
    BY <1>2, <2>1, ErrorFails, Zenon
<1>5. CASE loc[p].err \notin {"nil", "inspect"}
  <2> DEFINE n == [loc[p] EXCEPT !.saved = loc[p].err]
  <2>1. Call(p, "prove", "commit.recover", n)
    BY <1>5, Zenon DEF CommitStaged
  <2>2. Sane(loc[p], World)
    BY Zenon DEF Local
  <2>3. /\ Sane(n, World) /\ n.stack = loc[p].stack /\ n.proved = loc[p].proved
        /\ n.commit = loc[p].commit /\ n.saved = loc[p].err
    BY <2>2, Zenon DEF Sane, Fields
  <2>4. "commit.recover" \in ProveReturns /\ "commit.recover" \notin Reconciles
    BY Zenon DEF ProveReturns, Reconciles
  <2> HIDE DEF n
  <2> QED
    BY <1>1, <1>2, <1>5, <2>1, <2>3, <2>4, BodyProves, Zenon DEF Stands
<1> QED
  BY <1>3, <1>4, <1>5, Zenon

\* A stage statement is not known to have been applied: was all of it done already?
LEMMA CommitRecoverMoves ==
    ASSUME NEW p \in Procs, Local(pc[p], loc[p], World), CommitRecover(p)
    PROVE  Moves(p)
<1>1. pc[p] \in Body /\ pc[p] \notin Blank /\ pc[p] \in Saving
  BY Zenon DEF CommitRecover, Body, ProveReturns, Blank, Saving
<1>2. PICK r \in Tops : Stands(p, r)
  BY <1>1, BodyStands, Zenon
<1>3. CASE Durable(p)
  BY <1>1, <1>2, <1>3, DurableSucceeds, Zenon DEF CommitRecover, Durable
<1>4. CASE ~Durable(p)
  <2>1. Call(p, "inspect", "commit.recovered", loc[p])
    BY <1>4, Zenon DEF CommitRecover
  <2>2. "commit.recovered" \in InspectReturns /\ "commit.recovered" \notin Reconciles \cup Blank
    BY Zenon DEF InspectReturns, Reconciles, Blank
  <2> QED
    BY <1>1, <1>2, <2>1, <2>2, BodyInspects, Zenon DEF Stands
<1> QED
  BY <1>3, <1>4, Zenon

\* A turn of the stage recovery loop: sealed, staged, given up, or another turn.
LEMMA CommitRecoveredMoves ==
    ASSUME NEW p \in Procs, Local(pc[p], loc[p], World), CommitRecovered(p)
    PROVE  Moves(p)
<1> DEFINE f == [loc[p] EXCEPT !.insp = NoInspection, !.saved = "nil", !.tries = 0]
           n == [loc[p] EXCEPT !.tries = loc[p].tries + 1, !.insp = NoInspection]
<1>1. pc[p] \in Body /\ pc[p] \notin Blank /\ pc[p] \in Saving
  BY Zenon DEF CommitRecovered, Body, InspectReturns, Blank, Saving
<1>2. PICK r \in Tops : Stands(p, r)
  BY <1>1, BodyStands, Zenon
<1>3. \/ Goto(p, "finalize", f) \/ ChunkStaged(p, loc[p]) \/ Fails(p, loc[p].saved)
      \/ Call(p, "prove", "commit.recover", n)
  BY Zenon DEF CommitRecovered
<1>4. CASE Goto(p, "finalize", f)
  <2>1. /\ Sane(f, World) /\ f.stack = loc[p].stack /\ f.proved = loc[p].proved
        /\ f.commit = loc[p].commit /\ (f.durable => loc[p].durable)
    BY <1>2, Zenon DEF Stands, Sane, Fields
  <2> HIDE DEF f
  <2> QED
    BY <1>1, <1>2, <1>4, <2>1, ToFinalize, Zenon DEF Stands
<1>5. CASE ChunkStaged(p, loc[p])
  BY <1>1, <1>2, <1>5, ChunkStagedMoves, Zenon
<1>6. CASE Fails(p, loc[p].saved)
  <2>1. loc[p].saved # "nil"
    BY <1>1, <1>2, Zenon DEF Stands
  <2> QED
    BY <1>2, <1>6, <2>1, ErrorFails, Zenon
<1>7. CASE Call(p, "prove", "commit.recover", n)
  <2>1. /\ Sane(n, World) /\ n.stack = loc[p].stack /\ n.proved = loc[p].proved
        /\ n.commit = loc[p].commit /\ n.saved = loc[p].saved
    BY <1>2, Zenon DEF Stands, Sane, Fields
  <2>2. "commit.recover" \in ProveReturns /\ "commit.recover" \notin Reconciles
    BY Zenon DEF ProveReturns, Reconciles
  <2> HIDE DEF n
  <2> QED
    BY <1>1, <1>2, <1>7, <2>1, <2>2, BodyProves, Zenon DEF Stands
<1> QED
  BY <1>3, <1>4, <1>5, <1>6, <1>7, Zenon

\* The attempt was sealed, or that is not known.
LEMMA CommitSealedMoves ==
    ASSUME NEW p \in Procs, Local(pc[p], loc[p], World), CommitSealed(p)
    PROVE  Moves(p)
<1> DEFINE n == [loc[p] EXCEPT !.saved = loc[p].err]
<1>1. pc[p] \in Body /\ pc[p] \notin Blank
  BY Zenon DEF CommitSealed, Body, MutateReturns, Blank
<1>2. PICK r \in Tops : Stands(p, r)
  BY <1>1, BodyStands, Zenon
<1>3. CASE loc[p].err = "nil"
  <2>1. Goto(p, "finalize", loc[p])
    BY <1>3, Zenon DEF CommitSealed
  <2> QED
    BY <1>1, <1>2, <2>1, ToFinalize, Zenon DEF Stands
<1>4. CASE loc[p].err # "nil"
  <2>1. Call(p, "prove", "commit.unsealed", n)
    BY <1>4, Zenon DEF CommitSealed
  <2>2. /\ Sane(n, World) /\ n.stack = loc[p].stack /\ n.proved = loc[p].proved
        /\ n.commit = loc[p].commit /\ n.saved = loc[p].err
    BY <1>2, Zenon DEF Stands, Sane, Fields
  <2>3. "commit.unsealed" \in ProveReturns /\ "commit.unsealed" \notin Reconciles
    BY Zenon DEF ProveReturns, Reconciles
  <2> HIDE DEF n
  <2> QED
    BY <1>1, <1>2, <1>4, <2>1, <2>2, <2>3, BodyProves, Zenon DEF Stands
<1> QED
  BY <1>3, <1>4, Zenon

\* finalizeCurrentDiscovery starts.
LEMMA FinalizeMoves ==
    ASSUME NEW p \in Procs, Local(pc[p], loc[p], World), Finalize(p)
    PROVE  Moves(p)
<1> DEFINE n == [loc[p] EXCEPT !.count = 0]
<1>1. pc[p] \in Body /\ pc[p] \notin Blank
  BY Zenon DEF Finalize, Body, Blank
<1>2. PICK r \in Tops : Stands(p, r)
  BY <1>1, BodyStands, Zenon
<1>3. Call(p, "inspect", "finalize.inspected", n)
  BY Zenon DEF Finalize
<1>4. /\ Sane(n, World) /\ n.stack = loc[p].stack /\ n.proved = loc[p].proved
      /\ n.commit = loc[p].commit /\ n.saved = loc[p].saved
  BY <1>2, Zenon DEF Stands, Sane, Fields
<1>5. /\ "finalize.inspected" \in InspectReturns
      /\ "finalize.inspected" \notin Reconciles \cup Blank \cup Saving
  BY Zenon DEF InspectReturns, Reconciles, Blank, Saving
<1> HIDE DEF n
<1> QED
  BY <1>1, <1>2, <1>3, <1>4, <1>5, BodyInspects, Zenon DEF Stands

\* The attempt to finalize is gone, or another one, or sealed and ours.
LEMMA FinalizeInspectedMoves ==
    ASSUME NEW p \in Procs, Local(pc[p], loc[p], World), FinalizeInspected(p)
    PROVE  Moves(p)
<1> DEFINE n == [loc[p] EXCEPT !.insp = NoInspection]
<1>1. pc[p] \in Body /\ pc[p] \notin Blank
  BY Zenon DEF FinalizeInspected, Body, InspectReturns, Blank
<1>2. PICK r \in Tops : Stands(p, r)
  BY <1>1, BodyStands, Zenon
<1>3. \/ \E e : e # "nil" /\ Fails(p, e)
      \/ Call(p, "prove", "finalize.gone", loc[p])
      \/ Goto(p, "finalize.lifecycle", n)
  BY Zenon DEF FinalizeInspected
<1>4. CASE \E e : e # "nil" /\ Fails(p, e)
  BY <1>2, <1>4, ErrorFails, Zenon
<1>5. CASE Call(p, "prove", "finalize.gone", loc[p])
  <2>1. "finalize.gone" \in ProveReturns /\ "finalize.gone" \notin Reconciles \cup Saving
    BY Zenon DEF ProveReturns, Reconciles, Saving
  <2> QED
    BY <1>1, <1>2, <1>5, <2>1, BodyProves, Zenon DEF Stands
<1>6. CASE Goto(p, "finalize.lifecycle", n)
  <2>1. /\ Sane(n, World) /\ n.stack = loc[p].stack /\ n.proved = loc[p].proved
        /\ n.commit = loc[p].commit /\ (n.durable => loc[p].durable)
    BY <1>2, Zenon DEF Stands, Sane, Fields
  <2>2. "finalize.lifecycle" \in Body /\ "finalize.lifecycle" \notin Reconciles \cup Blank \cup Saving
    BY Zenon DEF Body, Reconciles, Blank, Saving
  <2> HIDE DEF n
  <2>3. Local("finalize.lifecycle", n, World)
    BY <1>1, <1>2, <2>1, <2>2, BodyGoesOn, Zenon DEF Stands
  <2> QED
    BY <1>6, <2>3, Zenon DEF Moves
<1> QED
  BY <1>3, <1>4, <1>5, <1>6, Zenon

\* The finalize statement was verified, and so was everything it does; or not.
LEMMA FinalizeDoneMoves ==
    ASSUME NEW p \in Procs, Local(pc[p], loc[p], World), FinalizeDone(p)
    PROVE  Moves(p)
<1> DEFINE n == [loc[p] EXCEPT !.saved = loc[p].err, !.err = "nil"]
<1>1. pc[p] \in Body /\ pc[p] \notin Blank /\ pc[p] = "finalize.done"
  BY Zenon DEF FinalizeDone, Body, MutateReturns, Blank
<1>2. PICK r \in Tops : Stands(p, r)
  BY <1>1, BodyStands, Zenon
<1>3. CASE loc[p].err = "nil"
  <2>1. Reached(loc[p].commit, World)
    BY <1>1, <1>3, AtBody, Zenon DEF At
  <2> QED
    BY <1>1, <1>2, <1>3, <2>1, BodyFails, Zenon DEF FinalizeDone, Succeeds, Stands
<1>4. CASE loc[p].err # "nil"
  <2>1. Goto(p, "finalize.classify", n)
    BY <1>4, Zenon DEF FinalizeDone
  <2>2. /\ Sane(n, World) /\ n.stack = loc[p].stack /\ n.proved = loc[p].proved
        /\ n.commit = loc[p].commit /\ n.saved = loc[p].err /\ (n.durable => loc[p].durable)
    BY <1>2, ZenonT(30) DEF Stands, Sane, Fields
  <2>3. "finalize.classify" \in Body /\ "finalize.classify" \notin Reconciles \cup Blank
    BY Zenon DEF Body, Reconciles, Blank
  <2> HIDE DEF n
  <2>4. Local("finalize.classify", n, World)
    BY <1>1, <1>2, <1>4, <2>2, <2>3, BodyGoesOn, Zenon DEF Stands
  <2> QED
    BY <2>1, <2>4, Zenon DEF Moves
<1> QED
  BY <1>3, <1>4, Zenon

\* Reconciliation has looked for an attempt.
LEMMA ReconcileInspectedMoves ==
    ASSUME NEW p \in Procs, Local(pc[p], loc[p], World), ReconcileInspected(p)
    PROVE  Moves(p)
<1>1. pc[p] \in Body /\ pc[p] \in Reconciles /\ pc[p] \in Blank
  BY Zenon DEF ReconcileInspected, Body, InspectReturns, Reconciles, Blank
<1>2. PICK r \in Tops : Stands(p, r)
  BY <1>1, BodyStands, Zenon
<1>3. Head(loc[p].stack) # "discover.committed"
  BY <1>1, <1>2 DEF Stands
<1>4. CASE \E e : Fails(p, e)
  BY <1>1, <1>3, <1>4, BodyFails, Zenon
<1>5. CASE Goto(p, "reconcile.cursor", loc[p]) /\ loc[p].insp # NoInspection
  <2>1. /\ "reconcile.cursor" \in Body /\ "reconcile.cursor" \in Blank
        /\ "reconcile.cursor" \notin Saving
    BY Zenon DEF Body, Blank, Saving
  <2>2. Local("reconcile.cursor", loc[p], World)
    BY <1>1, <1>2, <1>5, <2>1, BodyGoesOn, Zenon DEF Stands
  <2> QED
    BY <1>5, <2>2, Zenon DEF Moves
<1> QED
  BY <1>4, <1>5, Zenon DEF ReconcileInspected, Succeeds

\* A sealed attempt whose cursor has moved: finished by someone else, or broken.
LEMMA ReconcileDivergedMoves ==
    ASSUME NEW p \in Procs, Local(pc[p], loc[p], World), ReconcileDiverged(p)
    PROVE  Moves(p)
<1>1. pc[p] \in Body /\ pc[p] \in Reconciles
  BY Zenon DEF ReconcileDiverged, Body, ProveReturns, Reconciles
<1>2. PICK r \in Tops : Stands(p, r)
  BY <1>1, BodyStands, Zenon
<1>3. Head(loc[p].stack) # "discover.committed"
  BY <1>1, <1>2 DEF Stands
<1>4. \E e : Fails(p, e)
  BY Zenon DEF ReconcileDiverged
<1> QED
  BY <1>1, <1>3, <1>4, BodyFails, Zenon

\* The attempt for this commit is resumed if the cursor is where it starts.
LEMMA CommitCursorMoves ==
    ASSUME NEW p \in Procs, Local(pc[p], loc[p], World), CommitCursor(p)
    PROVE  Moves(p)
<1> DEFINE n == [loc[p] EXCEPT !.insp = NoInspection]
<1>1. pc[p] \in Body /\ pc[p] \notin Blank
  BY Zenon DEF CommitCursor, Body, Blank
<1>2. PICK r \in Tops : Stands(p, r)
  BY <1>1, BodyStands, Zenon
<1>3. CASE CommitStage(p, loc[p])
  BY <1>1, <1>2, <1>3, CommitStageMoves, Zenon
<1>4. CASE Call(p, "prove", "commit.diverged", n)
  <2>1. /\ Sane(n, World) /\ n.stack = loc[p].stack /\ n.proved = loc[p].proved
        /\ n.commit = loc[p].commit
    BY <1>2, Zenon DEF Stands, Sane, Fields
  <2>2. "commit.diverged" \in ProveReturns /\ "commit.diverged" \notin Reconciles \cup Saving
    BY Zenon DEF ProveReturns, Reconciles, Saving
  <2> HIDE DEF n
  <2> QED
    BY <1>1, <1>2, <1>4, <2>1, <2>2, BodyProves, Zenon DEF Stands
<1> QED
  BY <1>3, <1>4, Zenon DEF CommitCursor

\* A fresh commit reads the cursor.
LEMMA CommitFreshMoves ==
    ASSUME NEW p \in Procs, Local(pc[p], loc[p], World), CommitFresh(p)
    PROVE  Moves(p)
<1> DEFINE e == IF cursor = loc[p].commit.expected THEN "nil" ELSE "conflict"
           n == [loc[p] EXCEPT !.saved = e]
<1>1. pc[p] \in Body /\ pc[p] \notin Blank
  BY Zenon DEF CommitFresh, Body, Blank
<1>2. PICK r \in Tops : Stands(p, r)
  BY <1>1, BodyStands, Zenon
<1>3. Goto(p, "commit.lifecycle", n)
  BY Zenon DEF CommitFresh
<1> HIDE DEF e
<1>4. /\ Sane(n, World) /\ n.stack = loc[p].stack /\ n.proved = loc[p].proved
      /\ n.commit = loc[p].commit /\ (n.durable => loc[p].durable)
  BY <1>2, Zenon DEF Stands, Sane, Fields
<1>5. "commit.lifecycle" \in Body /\ "commit.lifecycle" \notin Reconciles \cup Blank \cup Saving
  BY Zenon DEF Body, Reconciles, Blank, Saving
<1> HIDE DEF n
<1>6. Local("commit.lifecycle", n, World)
  BY <1>1, <1>2, <1>4, <1>5, BodyGoesOn, Zenon DEF Stands
<1> QED
  BY <1>3, <1>6, Zenon DEF Moves

\* It reads the lifecycle and creates the attempt.
LEMMA CommitLifecycleMoves ==
    ASSUME NEW p \in Procs, Local(pc[p], loc[p], World), CommitLifecycle(p)
    PROVE  Moves(p)
<1>1. pc[p] \in Body /\ pc[p] \notin Blank
  BY Zenon DEF CommitLifecycle, Body, Blank
<1>2. PICK r \in Tops : Stands(p, r)
  BY <1>1, BodyStands, Zenon
<1>3. CASE \E e : e # "nil" /\ Fails(p, e)
  BY <1>2, <1>3, ErrorFails, Zenon
<1>4. CASE CallMutate(p, "create", 0, "commit.created", loc[p])
  <2>1. "commit.created" \in MutateReturns /\ "commit.created" \notin Reconciles /\ "create" \in Ops
    BY Zenon DEF MutateReturns, Reconciles, Ops
  <2> QED
    BY <1>1, <1>2, <1>4, <2>1, BodySends, Zenon DEF Stands
<1> QED
  BY <1>3, <1>4, Zenon DEF CommitLifecycle

\* Why the attempt was not created: always an error.
LEMMA CommitWhyMoves ==
    ASSUME NEW p \in Procs, Local(pc[p], loc[p], World), CommitWhy(p)
    PROVE  Moves(p)
<1>1. pc[p] \in Body /\ pc[p] \in Saving
  BY Zenon DEF CommitWhy, Body, InspectReturns, Saving
<1>2. PICK r \in Tops : Stands(p, r)
  BY <1>1, BodyStands, Zenon
<1>3. loc[p].saved # "nil"
  BY <1>1, <1>2, Zenon DEF Stands
<1>4. \E e : e # "nil" /\ Fails(p, e)
  BY <1>3, Zenon DEF CommitWhy
<1> QED
  BY <1>2, <1>4, ErrorFails, Zenon

\* The lifecycle is read once more before the finalize statement.
LEMMA FinalizeLifecycleMoves ==
    ASSUME NEW p \in Procs, Local(pc[p], loc[p], World), FinalizeLifecycle(p)
    PROVE  Moves(p)
<1>1. pc[p] \in Body /\ pc[p] \notin Blank
  BY Zenon DEF FinalizeLifecycle, Body, Blank
<1>2. PICK r \in Tops : Stands(p, r)
  BY <1>1, BodyStands, Zenon
<1>3. CASE Fails(p, "lifecycle")
  BY <1>2, <1>3, ErrorFails, Zenon
<1>4. CASE CallMutate(p, "finalize", 0, "finalize.done", loc[p])
  <2>1. "finalize.done" \in MutateReturns /\ "finalize.done" \notin Reconciles /\ "finalize" \in Ops
    BY Zenon DEF MutateReturns, Reconciles, Ops
  <2> QED
    BY <1>1, <1>2, <1>4, <2>1, BodySends, Zenon DEF Stands
<1> QED
  BY <1>3, <1>4, Zenon DEF FinalizeLifecycle

\* The threads are compared when nothing was finalized.
LEMMA FinalizeClassifyMoves ==
    ASSUME NEW p \in Procs, Local(pc[p], loc[p], World), FinalizeClassify(p)
    PROVE  Moves(p)
<1>1. pc[p] \in Body /\ pc[p] \notin Blank /\ pc[p] \in Saving
  BY Zenon DEF FinalizeClassify, Body, Blank, Saving
<1>2. PICK r \in Tops : Stands(p, r)
  BY <1>1, BodyStands, Zenon
<1>3. CASE Fails(p, "conflict")
  BY <1>2, <1>3, ErrorFails, Zenon
<1>4. CASE Call(p, "inspect", "finalize.why", loc[p])
  <2>1. "finalize.why" \in InspectReturns /\ "finalize.why" \notin Reconciles \cup Blank
    BY Zenon DEF InspectReturns, Reconciles, Blank
  <2> QED
    BY <1>1, <1>2, <1>4, <2>1, BodyInspects, Zenon DEF Stands
<1> QED
  BY <1>3, <1>4, Zenon DEF FinalizeClassify

\* Why nothing was finalized: always an error.
LEMMA FinalizeWhyMoves ==
    ASSUME NEW p \in Procs, Local(pc[p], loc[p], World), FinalizeWhy(p)
    PROVE  Moves(p)
<1>1. pc[p] \in Body /\ pc[p] \in Saving
  BY Zenon DEF FinalizeWhy, Body, InspectReturns, Saving
<1>2. PICK r \in Tops : Stands(p, r)
  BY <1>1, BodyStands, Zenon
<1>3. loc[p].saved # "nil"
  BY <1>1, <1>2, Zenon DEF Stands
<1>4. \E e : e # "nil" /\ Fails(p, e)
  BY <1>3, Zenon DEF FinalizeWhy
<1> QED
  BY <1>2, <1>4, ErrorFails, Zenon

\* An open attempt is aborted, a sealed one finalized, with the commit that was
\* found in the rows.
LEMMA ReconcileCursorMoves ==
    ASSUME NEW p \in Procs, Local(pc[p], loc[p], World), ReconcileCursor(p)
    PROVE  Moves(p)
<1> DEFINE c == loc[p].insp.commit
           n == [loc[p] EXCEPT !.commit = c, !.insp = NoInspection]
<1>1. /\ pc[p] \in Body /\ pc[p] \in Reconciles /\ pc[p] \in Blank
      /\ pc[p] = "reconcile.cursor"
  BY Zenon DEF ReconcileCursor, Body, Reconciles, Blank
<1>2. PICK r \in Tops : Stands(p, r)
  BY <1>1, BodyStands, Zenon
<1>3. Good(c, World) /\ c \in Commit
  <2>1. At(pc[p], loc[p], pc[p], World)
    BY <1>1, AtBody, Zenon
  <2>2. loc[p].insp # NoInspection
    BY <1>1, <2>1, Zenon DEF At
  <2>3. Good(c, World)
    BY <1>2, <2>2, Zenon DEF Stands, Sane
  <2> QED
    BY <2>3, Zenon DEF Good
<1>4. \/ Fails(p, "recovery") \/ Goto(p, "reconcile.lifecycle", n)
      \/ Call(p, "prove", "reconcile.diverged", n) \/ Goto(p, "finalize", n)
  BY Zenon DEF ReconcileCursor
<1> HIDE DEF c
<1>5. /\ Sane(n, World) /\ n.stack = loc[p].stack /\ n.proved = loc[p].proved
      /\ n.commit = c /\ n.saved = loc[p].saved /\ (n.durable => loc[p].durable)
  BY <1>2, <1>3, Zenon DEF Stands, Sane, Fields
<1> HIDE DEF n
<1>6. ~n.durable
  BY <1>1, <1>2, <1>5, Zenon DEF Stands
<1>7. CASE Fails(p, "recovery")
  BY <1>2, <1>7, ErrorFails, Zenon
<1>8. CASE Goto(p, "reconcile.lifecycle", n)
  <2>1. "reconcile.lifecycle" \in Body /\ "reconcile.lifecycle" \notin Blank \cup Saving
    BY Zenon DEF Body, Blank, Saving
  <2>2. Local("reconcile.lifecycle", n, World)
    BY <1>1, <1>2, <1>3, <1>5, <1>6, <2>1, BodyGoesOn, Zenon DEF Stands
  <2> QED
    BY <1>8, <2>2, Zenon DEF Moves
<1>9. CASE Call(p, "prove", "reconcile.diverged", n)
  <2>1. "reconcile.diverged" \in ProveReturns /\ "reconcile.diverged" \notin Saving
    BY Zenon DEF ProveReturns, Saving
  <2> QED
    BY <1>1, <1>2, <1>3, <1>5, <1>9, <2>1, BodyProves, Zenon DEF Stands
<1>10. CASE Goto(p, "finalize", n)
  BY <1>1, <1>2, <1>3, <1>5, <1>6, <1>10, ToFinalize, Zenon DEF Stands
<1> QED
  BY <1>4, <1>7, <1>8, <1>9, <1>10, Zenon

\* The lifecycle is read before the abort statement.
LEMMA ReconcileLifecycleMoves ==
    ASSUME NEW p \in Procs, Local(pc[p], loc[p], World), ReconcileLifecycle(p)
    PROVE  Moves(p)
<1>1. pc[p] \in Body /\ pc[p] \notin Blank /\ pc[p] \in Reconciles
  BY Zenon DEF ReconcileLifecycle, Body, Blank, Reconciles
<1>2. PICK r \in Tops : Stands(p, r)
  BY <1>1, BodyStands, Zenon
<1>3. CASE Fails(p, "lifecycle")
  BY <1>2, <1>3, ErrorFails, Zenon
<1>4. CASE CallMutate(p, "abort", 0, "reconcile.aborted", loc[p])
  <2>1. "reconcile.aborted" \in MutateReturns /\ "abort" \in Ops
    BY Zenon DEF MutateReturns, Ops
  <2> QED
    BY <1>1, <1>2, <1>4, <2>1, BodySends, Zenon DEF Stands
<1> QED
  BY <1>3, <1>4, Zenon DEF ReconcileLifecycle

\* Reconciliation returns what the abort did.
LEMMA ReconcileAbortedMoves ==
    ASSUME NEW p \in Procs, Local(pc[p], loc[p], World), ReconcileAborted(p)
    PROVE  Moves(p)
<1>1. pc[p] \in Body /\ pc[p] \in Reconciles
  BY Zenon DEF ReconcileAborted, Body, MutateReturns, Reconciles
<1>2. PICK r \in Tops : Stands(p, r)
  BY <1>1, BodyStands, Zenon
<1>3. Head(loc[p].stack) # "discover.committed"
  BY <1>1, <1>2 DEF Stands
<1>4. \E e : Fails(p, e)
  BY Zenon DEF ReconcileAborted
<1> QED
  BY <1>1, <1>3, <1>4, BodyFails, Zenon

-----------------------------------------------------------------------------
(* inspectCurrentDiscovery, proveCurrentDiscovery and                      *)
(* mutateCurrentDiscovery.                                                 *)

\* The attempt query: what it finds is a good commit, as the rows are sound.
LEMMA InspectAttemptMoves ==
    ASSUME NEW p \in Procs, Rows, Local(pc[p], loc[p], World), InspectAttempt(p)
    PROVE  Moves(p)
<1> DEFINE l == loc[p]
<1>1. pc[p] \in Inspecting /\ Sane(l, World)
  BY Zenon DEF InspectAttempt, Inspecting, Local
<1>2. CASE attempt = NoAttempt
  <2> DEFINE k == [l EXCEPT !.insp = NoInspection, !.err = "nil", !.snaps = 0]
             n == [k EXCEPT !.stack = Tail(@)]
  <2>1. Goto(p, Head(k.stack), n)
    BY <1>2, Zenon DEF InspectAttempt, Return
  <2>2. /\ k.stack = l.stack /\ Sane(n, World) /\ n.stack = Tail(l.stack)
        /\ n.commit = l.commit /\ n.saved = l.saved /\ n.proved = l.proved
        /\ (n.durable => l.durable) /\ n.stmt = l.stmt
    BY <1>1, Zenon DEF Sane, Fields
  <2> HIDE DEF k, n
  <2>3. Local(Head(l.stack), n, World)
    BY <1>1, <2>2, InspectReturnsTo, Zenon
  <2> QED
    BY <2>1, <2>2, <2>3, Zenon DEF Moves
<1>3. CASE attempt # NoAttempt
  <2> DEFINE i == [commit |-> attempt.commit, state |-> attempt.state, rows |-> NoRows]
             n == [l EXCEPT !.insp = i]
  <2>1. Goto(p, "inspect.rows", n)
    BY <1>3, Zenon DEF InspectAttempt
  <2>2. /\ i = [commit |-> i.commit, state |-> i.state, rows |-> i.rows]
        /\ i.state \in {"open", "sealed"} /\ Good(i.commit, World) /\ i # NoInspection
    BY <1>3, Zenon DEF Rows, NoInspection
  <2> HIDE DEF i
  <2>3. /\ Sane(n, World) /\ n.insp = i /\ n.stack = l.stack
        /\ n.commit = l.commit /\ n.saved = l.saved /\ n.proved = l.proved
        /\ (n.durable => l.durable) /\ n.stmt = l.stmt
    BY <1>1, <2>2, Zenon DEF Sane, Fields
  <2> HIDE DEF n
  <2>4. "inspect.rows" \in Inspecting
    BY Zenon DEF Inspecting
  <2>5. Local("inspect.rows", n, World)
    BY <1>1, <2>2, <2>3, <2>4, InspectGoesOn, Zenon DEF Same
  <2> QED
    BY <2>1, <2>5, Zenon DEF Moves
<1> QED
  BY <1>2, <1>3, Zenon

\* What is known inside a call, but at a label of the body.
LEMMA Inside ==
    ASSUME NEW w, NEW lab, NEW l, Local(lab, l, w),
           lab \in Inspecting \cup Proving \cup {"mutate", "verify", "verify.stage"}
    PROVE  \E x \in Body, r \in Tops :
               /\ Placed(lab, l.stack, x, r) /\ Frame(l, x, r, w) /\ At(lab, l, x, w) /\ lab # x
<1>1. lab \notin Discovering /\ lab \notin Body
  BY Zenon DEF Inspecting, Proving, Discovering, Body, Tops, InspectReturns, ProveReturns, MutateReturns
<1> QED
  BY <1>1, Zenon DEF Local, InHandle, InDiscover

\* The staging query, and the loop around both queries.
LEMMA InspectRowsMoves ==
    ASSUME NEW p \in Procs, Local(pc[p], loc[p], World), InspectRows(p)
    PROVE  Moves(p)
<1> DEFINE l == loc[p]
           f == [l EXCEPT !.insp = NoInspection, !.snaps = 0]
           g == [f EXCEPT !.snaps = l.snaps + 1]
           k == [l EXCEPT !.insp.rows = staging, !.err = "nil", !.snaps = 0]
<1>1. pc[p] \in Inspecting /\ Sane(l, World)
  BY Zenon DEF InspectRows, Inspecting, Local
<1>2. l.insp # NoInspection
  BY <1>1, Inside DEF InspectRows, At
<1>3. /\ Sane(f, World) /\ f.stack = l.stack
      /\ f.commit = l.commit /\ f.saved = l.saved /\ f.proved = l.proved
      /\ (f.durable => l.durable) /\ f.stmt = l.stmt
  BY <1>1, ZenonT(30) DEF Sane, Fields
<1>4. \/ \E e : e # "nil" /\ Return(p, [f EXCEPT !.err = e])
      \/ Goto(p, "inspect", g)
      \/ Return(p, k)
  BY Zenon DEF InspectRows
<1> HIDE DEF f
<1>5. ASSUME NEW e, e # "nil", Return(p, [f EXCEPT !.err = e])
      PROVE  Moves(p)
  <2> DEFINE h == [f EXCEPT !.err = e]
             n == [h EXCEPT !.stack = Tail(@)]
  <2>1. Goto(p, Head(h.stack), n)
    BY <1>5, Zenon DEF Return
  <2>2. /\ h.stack = l.stack /\ Sane(n, World) /\ n.stack = Tail(l.stack)
        /\ n.commit = l.commit /\ n.saved = l.saved /\ n.proved = l.proved
        /\ (n.durable => l.durable) /\ n.stmt = l.stmt
    BY <1>3, Zenon DEF Sane, Fields
  <2> HIDE DEF h, n
  <2>3. Local(Head(l.stack), n, World)
    BY <1>1, <2>2, InspectReturnsTo, Zenon
  <2> QED
    BY <2>1, <2>2, <2>3, Zenon DEF Moves
<1>6. CASE Goto(p, "inspect", g)
  <2>1. /\ Sane(g, World) /\ g.stack = l.stack
        /\ g.commit = l.commit /\ g.saved = l.saved /\ g.proved = l.proved
        /\ (g.durable => l.durable) /\ g.stmt = l.stmt
    BY <1>3, Zenon DEF Sane, Fields
  <2> HIDE DEF g
  <2>2. "inspect" \in Inspecting
    BY Zenon DEF Inspecting
  <2>3. Local("inspect", g, World)
    BY <1>1, <2>1, <2>2, InspectGoesOn, Zenon DEF Same
  <2> QED
    BY <1>6, <2>3, Zenon DEF Moves
<1>7. CASE Return(p, k)
  <2> DEFINE i == [l.insp EXCEPT !.rows = staging]
             n == [k EXCEPT !.stack = Tail(@)]
  <2>1. Goto(p, Head(k.stack), n)
    BY <1>7, Zenon DEF Return
  <2>2. k = [l EXCEPT !.insp = i, !.err = "nil", !.snaps = 0]
    BY <1>1, Zenon DEF Sane, Fields
  <2>3. /\ i = [commit |-> i.commit, state |-> i.state, rows |-> i.rows]
        /\ i.state \in {"open", "sealed"} /\ Good(i.commit, World)
    BY <1>1, <1>2 DEF Sane
  <2> HIDE DEF i, k
  <2>4. /\ k.stack = l.stack /\ Sane(n, World) /\ n.stack = Tail(l.stack)
        /\ n.commit = l.commit /\ n.saved = l.saved /\ n.proved = l.proved
        /\ (n.durable => l.durable) /\ n.stmt = l.stmt
    BY <1>1, <2>2, <2>3, Zenon DEF Sane, Fields
  <2> HIDE DEF n
  <2>5. Local(Head(l.stack), n, World)
    BY <1>1, <2>4, InspectReturnsTo, Zenon
  <2> QED
    BY <2>1, <2>4, <2>5, Zenon DEF Moves
<1> QED
  BY <1>4, <1>5, <1>6, <1>7, Zenon

\* ChunkCount counts all chunks: ordinals up to that many chunks are all ordinals.
LEMMA ChunksCover ==
    ASSUME NEW n \in Nat, NEW k \in Nat, ~(k < (n + ChunkSize - 1) \div ChunkSize)
    PROVE  n <= k * ChunkSize
<1> DEFINE s == ChunkSize
           q == (n + s - 1) \div s
<1>1. s \in Nat /\ s > 0
  BY DiscoveryConstants
<1> HIDE DEF s
<1>2. q \in Int /\ n + s - 1 < (q + 1) * s
  BY <1>1
<1>3. q <= k
  BY <1>2 DEF s
<1> HIDE DEF q
<1>4. (q + 1) * s <= (k + 1) * s
  BY <1>1, <1>2, <1>3
<1>5. (k + 1) * s = k * s + s /\ k * s \in Int /\ (q + 1) * s \in Int
  BY <1>1, <1>2
<1>6. n <= k * s
  BY <1>1, <1>2, <1>4, <1>5
<1> QED
  BY <1>6, Zenon DEF s

\* proveCurrentDiscovery goes on to a chunk.
LEMMA ProveGoesOn ==
    ASSUME NEW w, NEW lab \in Proving, NEW l, Local(lab, l, w),
           NEW n, Sane(n, w), n.commit = l.commit, n.saved = l.saved, n.stmt = l.stmt,
           n.stack = l.stack, n.durable => l.durable, lab # "prove.inspected",
           n.proved \in Nat, ReachedTo(l.commit, n.proved, w)
    PROVE  Local("prove.chunk", n, w)
<1>1. PICK x \in Body, r \in Tops :
          Placed(lab, l.stack, x, r) /\ Frame(l, x, r, w) /\ At(lab, l, x, w) /\ lab # x
  BY Inside, Zenon
<1>2. lab \notin Inspecting /\ lab \notin {"mutate", "verify", "verify.stage"}
  BY Zenon DEF Inspecting, Proving
<1>3. Frame(n, x, r, w)
  BY <1>1, Zenon DEF Frame
<1>4. Placed("prove.chunk", n.stack, x, r) /\ Head(n.stack) # "prove.inspected"
  <2>1. \/ x \in ProveReturns /\ l.stack = <<x, r>>
        \/ x \in MutateReturns /\ l.stack = <<"verify", x, r>>
    BY <1>1, <1>2, Zenon DEF Placed
  <2>2. x # "prove.inspected" /\ "prove.chunk" \in Proving
    BY Zenon DEF Body, InspectReturns, ProveReturns, MutateReturns, Proving
  <2>3. Head(<<x, r>>) = x /\ Head(<<"verify", x, r>>) = "verify" /\ "verify" # "prove.inspected"
    OBVIOUS
  <2> QED
    BY <2>1, <2>2, <2>3, Zenon DEF Placed
<1>5. x # "prove.chunk"
  BY Zenon DEF Body, InspectReturns, ProveReturns, MutateReturns
<1>6. At("prove.chunk", n, x, w)
  BY <1>1, <1>2, <1>4, <1>5, ZenonT(30) DEF At
<1> QED
  BY <1>3, <1>4, <1>6, Zenon DEF Local, InHandle

\* The next chunk to prove, or the end: with all chunks proved, all of the commit has happened.
LEMMA ProveNextMoves ==
    ASSUME NEW p \in Procs, pc[p] \in {"prove", "prove.chunk"}, Local(pc[p], loc[p], World),
           NEW n, Sane(n, World), n.commit = loc[p].commit, n.saved = loc[p].saved,
           n.stmt = loc[p].stmt, n.stack = loc[p].stack, n.durable => loc[p].durable,
           n.proved \in Nat, ReachedTo(loc[p].commit, n.proved, World), ProveNext(p, n)
    PROVE  Moves(p)
<1>1. pc[p] \in Proving /\ pc[p] # "prove.inspected"
  BY Zenon DEF Proving
<1>2. CASE n.proved < ChunkCount(n.commit)
  BY <1>1, <1>2, ProveGoesOn, Zenon DEF ProveNext, Moves
<1>3. CASE ~(n.proved < ChunkCount(n.commit))
  <2> DEFINE m == [n EXCEPT !.proved = 0]
             c == n.commit
  <2>1. Call(p, "inspect", "prove.inspected", m)
    BY <1>3, Zenon DEF ProveNext
  <2>2. /\ Sane(m, World) /\ m.commit = loc[p].commit /\ m.saved = loc[p].saved /\ m.proved = 0
        /\ m.stmt = loc[p].stmt /\ m.stack = loc[p].stack
    BY Zenon DEF Sane, Fields
  <2> HIDE DEF m
  <2>3. c \in Commit
    <3>1. PICK x \in Body, r \in Tops :
              /\ Placed(pc[p], loc[p].stack, x, r) /\ Frame(loc[p], x, r, World) /\ pc[p] # x
      BY <1>1, Inside, Zenon
    <3>2. x \in ProveReturns \cup MutateReturns
      BY <1>1, <3>1, Zenon DEF Placed, Inspecting, Proving
    <3>3. x \notin Blank
      BY <3>2, ZenonT(30) DEF ProveReturns, MutateReturns, Blank
    <3> QED
      BY <3>1, <3>3, Zenon DEF Frame, Good
  <2>4. Len(c.msgs) <= n.proved * ChunkSize
    BY <1>3, <2>3, ChunksCover, CommitType DEF ChunkCount
  <2>5. Reached(c, World)
    <3>1. ASSUME NEW i \in DOMAIN c.msgs PROVE i <= n.proved * ChunkSize
      BY <2>3, <2>4, CommitType, DiscoveryConstants
    <3> QED
      BY <3>1, ZenonT(30) DEF Reached, ReachedTo
  <2>6. Local("inspect", Called(m, "prove.inspected"), World)
    BY <1>1, <2>2, <2>5, ProveInspects, Zenon
  <2>7. Goto(p, "inspect", Called(m, "prove.inspected"))
    BY <2>1, Zenon DEF Call, Called
  <2> QED
    BY <2>6, <2>7, Zenon DEF Moves
<1> QED
  BY <1>2, <1>3, Zenon

\* A proof ends without having found everything.
LEMMA ProveGivesUp ==
    ASSUME NEW p \in Procs, pc[p] \in {"prove", "prove.chunk"}, Local(pc[p], loc[p], World),
           NEW k, Sane(k, World), k.stack = loc[p].stack, k.commit = loc[p].commit,
           k.saved = loc[p].saved, k.stmt = loc[p].stmt \/ k.err # "nil", k.proved = 0,
           k.durable => loc[p].durable, Return(p, k)
    PROVE  Moves(p)
<1> DEFINE l == loc[p]
           n == [k EXCEPT !.stack = Tail(@)]
<1>1. pc[p] \in Proving /\ pc[p] # "prove.inspected"
  BY Zenon DEF Proving
<1>2. Goto(p, Head(l.stack), n)
  BY Zenon DEF Return
<1>3. /\ Sane(n, World) /\ n.stack = Tail(l.stack)
      /\ n.commit = l.commit /\ n.saved = l.saved /\ n.proved = 0
      /\ (n.durable => l.durable) /\ n.stmt = k.stmt /\ n.err = k.err
  BY Zenon DEF Sane, Fields
<1> HIDE DEF n
<1>4. l.durable => Reached(l.commit, World)
  BY <1>1, Inside, Zenon DEF Frame
<1>5. Local(Head(l.stack), n, World)
  BY <1>1, <1>3, <1>4, ProveReturnsTo, Zenon
<1> QED
  BY <1>2, <1>5, Zenon DEF Moves

\* The cursor is where the commit ends: what is left to find are the messages.
LEMMA ProveCursorMoves ==
    ASSUME NEW p \in Procs, Rows, Local(pc[p], loc[p], World), ProveCursor(p)
    PROVE  Moves(p)
<1> DEFINE l == loc[p]
           k == [l EXCEPT !.durable = FALSE]
           g == [k EXCEPT !.err = "nil"]
<1>1. pc[p] = "prove" /\ Sane(l, World)
  BY Zenon DEF ProveCursor, Local
<1>2. l.proved = 0
  <2>1. pc[p] \in Proving
    BY <1>1, Zenon DEF Proving
  <2> QED
    BY <1>1, <2>1, Inside, Zenon DEF At
<1>3. /\ Sane(k, World) /\ k.stack = l.stack /\ k.commit = l.commit /\ k.saved = l.saved
      /\ k.proved = l.proved /\ ~k.durable /\ k.stmt = l.stmt
  BY <1>1, Zenon DEF Sane, Fields
<1>4. /\ Sane(g, World) /\ g.stack = l.stack /\ g.commit = l.commit /\ g.saved = l.saved
      /\ g.proved = l.proved /\ ~g.durable /\ g.stmt = l.stmt
  BY <1>1, Zenon DEF Sane, Fields
<1>5. \/ cursor # k.commit.next /\ Return(p, g)
      \/ cursor = k.commit.next /\ ProveNext(p, k)
  BY Zenon DEF ProveCursor
<1> HIDE DEF k, g
<1>6. CASE Return(p, g)
  BY <1>1, <1>2, <1>4, <1>6, ProveGivesUp, Zenon
<1>7. CASE cursor = k.commit.next /\ ProveNext(p, k)
  <2>1. cursor \in Nat /\ World.cursor = cursor
    BY DiscoveryConstants DEF Rows, World
  <2>2. l.commit \in Commit
    <3>1. PICK x \in Body, r \in Tops :
              /\ Placed(pc[p], l.stack, x, r) /\ Frame(l, x, r, World) /\ pc[p] # x
      BY <1>1, Inside, Zenon DEF Proving
    <3>2. x \in ProveReturns \cup MutateReturns
      BY <1>1, <3>1, Zenon DEF Placed, Inspecting, Proving
    <3>3. x \notin Blank
      BY <3>2, Zenon DEF ProveReturns, MutateReturns, Blank
    <3> QED
      BY <3>1, <3>3, ZenonT(30) DEF Frame, Good
  <2>3. \A i \in DOMAIN l.commit.msgs : ~(i <= 0 * ChunkSize)
    BY <2>2, CommitType, DiscoveryConstants, SMTT(30)
  <2>4. ReachedTo(l.commit, k.proved, World)
    BY <1>2, <1>3, <1>7, <2>1, <2>3 DEF ReachedTo
  <2> QED
    BY <1>1, <1>2, <1>3, <1>7, <2>4, ProveNextMoves
<1> QED
  BY <1>5, <1>6, <1>7, Zenon

\* One chunk is found: it and the ones before it are stored.
LEMMA ProveChunkMoves ==
    ASSUME NEW p \in Procs, Local(pc[p], loc[p], World), ProveChunk(p)
    PROVE  Moves(p)
<1> DEFINE l == loc[p]
           c == l.commit
           k == [l EXCEPT !.proved = l.proved + 1]
           g == [l EXCEPT !.err = "nil", !.proved = 0]
<1>1. pc[p] = "prove.chunk" /\ pc[p] \in Proving /\ Sane(l, World)
  BY Zenon DEF ProveChunk, Local, Proving
<1>2. PICK x \in Body, r \in Tops :
          /\ Placed(pc[p], l.stack, x, r) /\ Frame(l, x, r, World) /\ At(pc[p], l, x, World)
          /\ pc[p] # x
  BY <1>1, Inside, Zenon
<1>3. l.proved \in Nat /\ ReachedTo(c, l.proved, World)
  BY <1>1, <1>2, ZenonT(30) DEF At
<1>4. x \in ProveReturns \cup MutateReturns
  <2>1. pc[p] \notin Inspecting
    BY <1>1, Zenon DEF Inspecting
  <2> QED
    BY <1>2, <2>1, Zenon DEF Placed
<1>5. c \in Commit
  BY <1>2, <1>4, Zenon DEF Frame, Good, ProveReturns, MutateReturns, Blank
<1>6. \/ /\ \A i \in Chunk(c, l.proved) : messages[c.msgs[i].id] = c.msgs[i].body
         /\ ProveNext(p, k)
      \/ Return(p, g)
  BY Zenon DEF ProveChunk
<1>7. /\ Sane(k, World) /\ k.stack = l.stack /\ k.commit = l.commit /\ k.saved = l.saved
      /\ k.proved = l.proved + 1 /\ (k.durable => l.durable) /\ k.stmt = l.stmt
  BY <1>1, Zenon DEF Sane, Fields
<1>8. /\ Sane(g, World) /\ g.stack = l.stack /\ g.commit = l.commit /\ g.saved = l.saved
      /\ g.proved = 0 /\ (g.durable => l.durable) /\ g.stmt = l.stmt
  BY <1>1, Zenon DEF Sane, Fields
<1> HIDE DEF k, g
<1>9. CASE Return(p, g)
  BY <1>1, <1>8, <1>9, ProveGivesUp, Zenon
<1>10. CASE /\ \A i \in Chunk(c, l.proved) : messages[c.msgs[i].id] = c.msgs[i].body
            /\ ProveNext(p, k)
  <2>1. ASSUME NEW i \in DOMAIN c.msgs, i <= (l.proved + 1) * ChunkSize
        PROVE  World.messages[c.msgs[i].id] # None
    <3>1. i \in 1 .. Len(c.msgs) /\ c.msgs[i].body # None
      <4>1. DOMAIN c.msgs = 1 .. Len(c.msgs) /\ c.msgs[i].body \in Versions
        BY <1>5, CommitType, Zenon
      <4> QED
        BY <4>1, DiscoveryConstants, Zenon
    <3>2. CASE i <= l.proved * ChunkSize
      BY <1>3, <3>2, Zenon DEF ReachedTo
    <3>3. CASE ~(i <= l.proved * ChunkSize)
      <4>1. l.proved * ChunkSize < i
        <5>1. Len(c.msgs) \in Nat /\ i \in Nat /\ l.proved * ChunkSize \in Nat
          BY <1>3, <1>5, <3>1, CommitType, DiscoveryConstants
        <5> QED
          BY <3>3, <5>1
      <4>2. i \in Chunk(c, l.proved)
        BY <2>1, <3>1, <4>1, Zenon DEF Chunk
      <4> QED
        BY <1>10, <3>1, <4>2, Zenon DEF World
    <3> QED
      BY <3>2, <3>3, Zenon
  <2>2. ReachedTo(c, k.proved, World)
    BY <1>3, <1>7, <2>1, ZenonT(30) DEF ReachedTo
  <2> QED
    <3>1. k.proved \in Nat /\ pc[p] \in {"prove", "prove.chunk"}
      BY <1>1, <1>3, <1>7 DEF ProveChunk
    <3> QED
      BY <1>1, <1>7, <1>10, <2>2, <3>1, ProveNextMoves, Zenon
<1> QED
  BY <1>6, <1>9, <1>10, Zenon

\* No attempt is left: the proof says durable, and it is.
LEMMA ProveInspectedMoves ==
    ASSUME NEW p \in Procs, Local(pc[p], loc[p], World), ProveInspected(p)
    PROVE  Moves(p)
<1> DEFINE l == loc[p]
           d == l.err = "nil" /\ l.insp = NoInspection
           k == [l EXCEPT !.durable = d, !.insp = NoInspection]
           n == [k EXCEPT !.stack = Tail(@)]
<1>1. pc[p] = "prove.inspected" /\ pc[p] \in Proving /\ Sane(l, World)
  BY Zenon DEF ProveInspected, Local, Proving
<1>2. Goto(p, Head(k.stack), n)
  BY Zenon DEF ProveInspected, Return
<1>3. Reached(l.commit, World) /\ l.proved = 0
  BY <1>1, Inside, Zenon DEF At
<1> HIDE DEF d
<1>4. /\ k.stack = l.stack /\ Sane(n, World) /\ n.stack = Tail(l.stack)
      /\ n.commit = l.commit /\ n.saved = l.saved /\ n.proved = l.proved
      /\ n.stmt = l.stmt /\ n.err = l.err
  BY <1>1, Zenon DEF Sane, Fields
<1> HIDE DEF k, n
<1>5. Local(Head(l.stack), n, World)
  BY <1>1, <1>3, <1>4, ProveReturnsTo, Zenon
<1> QED
  BY <1>2, <1>4, <1>5, ZenonT(30) DEF Moves

\* A statement was sent and is verified next, whether it was applied or not.
LEMMA CallVerifyMoves ==
    ASSUME NEW p \in Procs, pc[p] = "mutate", Local(pc[p], loc[p], World), CallVerify(p)
    PROVE  Moves(p)
<1> DEFINE l == loc[p]
           m == Called(l, "verify")
<1>1. PICK x \in Body, r \in Tops :
          /\ Placed("mutate", l.stack, x, r) /\ Frame(l, x, r, World) /\ At("mutate", l, x, World)
          /\ "mutate" # x
  BY Inside, Zenon
<1>2. x \in MutateReturns /\ l.stack = <<x, r>>
  BY <1>1, Zenon DEF Placed, Inspecting, Proving
<1>3. l.proved = 0 /\ (x = "finalize.done" => l.stmt.op = "finalize") /\ Sane(l, World)
  BY <1>1, Zenon DEF At, Local
<1>4. /\ Sane(m, World) /\ m.stack = <<"verify">> \o l.stack /\ m.commit = l.commit
      /\ m.stmt = l.stmt /\ m.saved = l.saved /\ m.proved = l.proved /\ ~m.durable
  BY <1>3, CalledFields
<1> HIDE DEF m
<1>5. m.stack = <<"verify", x, r>>
  BY <1>2, <1>4, Pushed2, Zenon
<1>6. Frame(m, x, r, World)
  BY <1>1, <1>4, Zenon DEF Frame
<1>7. ASSUME NEW lab \in {"inspect", "prove"}, Goto(p, lab, m)
      PROVE  Moves(p)
  <2>1. Placed(lab, m.stack, x, r)
    BY <1>2, <1>5, <1>7, Zenon DEF Placed, Inspecting, Proving
  <2>2. Head(m.stack) = "verify"
    BY <1>5
  <2>3. At(lab, m, x, World)
    BY <1>2, <1>3, <1>4, <2>2, <1>7, Zenon DEF At, MutateReturns
  <2>4. Local(lab, m, World)
    BY <1>4, <1>6, <2>1, <2>3, ZenonT(30) DEF Local, InHandle
  <2> QED
    BY <1>7, <2>4, Zenon DEF Moves
<1>8. CASE l.stmt.op = "stage" /\ Goto(p, "verify.stage", l)
  <2>1. x # "finalize.done" /\ x # "verify.stage"
    BY <1>2, <1>3, <1>8, Zenon DEF MutateReturns
  <2>2. Placed("verify.stage", l.stack, x, r)
    BY <1>2, <2>1, Zenon DEF Placed
  <2>3. Head(l.stack) # "prove.inspected"
    BY <1>2 DEF MutateReturns
  <2>4. At("verify.stage", l, x, World)
    BY <1>3, <2>1, <2>3, Zenon DEF At
  <2>5. Local("verify.stage", l, World)
    BY <1>1, <1>3, <2>2, <2>4, Zenon DEF Local, InHandle
  <2> QED
    BY <1>8, <2>5, Zenon DEF Moves
<1>9. \/ \E lab \in {"inspect", "prove"} : Goto(p, lab, m)
      \/ l.stmt.op = "stage" /\ Goto(p, "verify.stage", l)
  BY Zenon DEF CallVerify, Call, Called, m
<1> QED
  BY <1>7, <1>8, <1>9, Zenon

\* A call of mutateCurrentDiscovery returns.
LEMMA MutateEnds ==
    ASSUME NEW p \in Procs, pc[p] \in {"mutate", "verify", "verify.stage"},
           Local(pc[p], loc[p], World), NEW k, Sane(k, World), k.stack = loc[p].stack,
           k.commit = loc[p].commit, k.saved = loc[p].saved, k.proved = loc[p].proved,
           k.durable => loc[p].durable,
           Head(loc[p].stack) = "finalize.done" /\ k.err = "nil" => Reached(loc[p].commit, World),
           Return(p, k)
    PROVE  Moves(p)
<1> DEFINE l == loc[p]
           n == [k EXCEPT !.stack = Tail(@)]
<1>1. Goto(p, Head(l.stack), n)
  BY Zenon DEF Return
<1>2. /\ Sane(n, World) /\ n.stack = Tail(l.stack)
      /\ n.commit = l.commit /\ n.saved = l.saved /\ n.proved = l.proved
      /\ (n.durable => l.durable) /\ n.err = k.err
  BY Zenon DEF Sane, Fields
<1> HIDE DEF n
<1>3. Local(Head(l.stack), n, World)
  BY <1>2, MutateReturnsTo, Zenon
<1> QED
  BY <1>1, <1>3, Zenon DEF Moves

\* What verifyMutation makes of the inspection or the proof; only a finalize statement
\* that is proved durable is verified.
LEMMA VerifyMoves ==
    ASSUME NEW p \in Procs, Local(pc[p], loc[p], World), Verify(p)
    PROVE  Moves(p)
<1> DEFINE l == loc[p]
           e == IF l.err # "nil" THEN "inspect" ELSE IF Verified(l) THEN "nil" ELSE "unknown"
           k == [l EXCEPT !.err = e, !.insp = NoInspection, !.stmt = None]
<1>1. pc[p] = "verify" /\ Sane(l, World) /\ Return(p, k)
  BY Zenon DEF Verify, Local
<1>2. PICK x \in Body, r \in Tops :
          /\ Placed("verify", l.stack, x, r) /\ Frame(l, x, r, World) /\ At("verify", l, x, World)
          /\ "verify" # x
  BY <1>1, Inside, ZenonT(30)
<1>3. l.stack = <<x, r>>
  BY <1>2, ZenonT(30) DEF Placed, Inspecting, Proving
<1>4. ASSUME x = "finalize.done", e = "nil" PROVE Reached(l.commit, World)
  <2>1. l.err = "nil" /\ Verified(l)
    BY <1>4, Zenon
  <2>2. l.stmt.op = "finalize"
    BY <1>2, <1>4, <2>1, ZenonT(30) DEF At
  <2>3. l.durable
    BY <2>1, <2>2, Zenon DEF Verified
  <2> QED
    BY <1>2, <2>3, Zenon DEF Frame
<1> HIDE DEF e
<1>5. /\ Sane(k, World) /\ k.stack = l.stack /\ k.commit = l.commit /\ k.saved = l.saved
      /\ k.proved = l.proved /\ (k.durable => l.durable) /\ k.err = e
  BY <1>1, Zenon DEF Sane, Fields
<1> HIDE DEF k
<1> QED
  BY <1>1, <1>3, <1>4, <1>5, MutateEnds

\* A stage statement is verified by its rows.
LEMMA VerifyStageMoves ==
    ASSUME NEW p \in Procs, Local(pc[p], loc[p], World), VerifyStage(p)
    PROVE  Moves(p)
<1> DEFINE l == loc[p]
<1>1. pc[p] = "verify.stage" /\ Sane(l, World)
  BY Zenon DEF VerifyStage, Local
<1>2. PICK e : Return(p, [l EXCEPT !.err = e, !.stmt = None])
  BY ZenonT(30) DEF VerifyStage
<1> DEFINE k == [l EXCEPT !.err = e, !.stmt = None]
<1>3. Head(l.stack) # "finalize.done"
  <2>1. PICK x \in Body, r \in Tops :
            Placed("verify.stage", l.stack, x, r) /\ "verify.stage" # x
    BY <1>1, Inside, Zenon
  <2> QED
    BY <2>1, SMTT(30) DEF Placed, Inspecting, Proving
<1>4. /\ Sane(k, World) /\ k.stack = l.stack /\ k.commit = l.commit /\ k.saved = l.saved
      /\ k.proved = l.proved /\ (k.durable => l.durable)
  BY <1>1, Zenon DEF Sane, Fields
<1>5. Return(p, k)
  BY <1>2, Zenon
<1> HIDE DEF k
<1> QED
  BY <1>1, <1>3, <1>4, <1>5, MutateEnds, Zenon

\* A failed read returns an error from whatever function reads.
LEMMA HandleReadFailsMoves ==
    ASSUME NEW p \in Procs, Local(pc[p], loc[p], World), HandleReadFails(p)
    PROVE  Moves(p)
<1> DEFINE l == loc[p]
           k == [l EXCEPT !.err = "inspect", !.insp = NoInspection, !.stmt = None,
                          !.durable = FALSE, !.proved = 0, !.snaps = 0]
           n == [k EXCEPT !.stack = Tail(@)]
<1>1. CASE pc[p] \in {"commit.cursor", "reconcile.cursor"} /\ Fails(p, "recovery")
  <2>1. pc[p] \in Body
    BY <1>1, Zenon DEF Body
  <2> QED
    BY <1>1, <2>1, BodyStands, ErrorFails, Zenon
<1>2. CASE pc[p] \in Failing /\ Return(p, k)
  <2>1. Sane(l, World)
    BY Zenon DEF Local
  <2>2. /\ k.stack = l.stack /\ Sane(k, World) /\ Sane(n, World) /\ n.stack = Tail(l.stack)
        /\ k.commit = l.commit /\ k.saved = l.saved /\ k.proved = 0
        /\ n.commit = l.commit /\ n.saved = l.saved /\ n.proved = 0
        /\ ~n.durable /\ ~k.durable /\ n.err = "inspect" /\ k.err = "inspect"
    BY <2>1, ZenonT(30) DEF Sane, Fields
  <2>3. Goto(p, Head(k.stack), n)
    BY <1>2, Zenon DEF Return
  <2> HIDE DEF k, n
  <2>4. CASE pc[p] \in Inspecting
    <3>1. l.proved = 0
      BY <2>4, Inside, SMTT(30) DEF At, Inspecting
    <3>2. Local(Head(l.stack), n, World)
      BY <2>2, <2>4, <3>1, InspectReturnsTo, Zenon
    <3> QED
      BY <2>2, <2>3, <3>2, Zenon DEF Moves
  <2>5. CASE pc[p] \in {"prove", "prove.chunk"}
    BY <1>2, <2>2, <2>5, ProveGivesUp, Zenon
  <2>6. CASE pc[p] \in {"mutate", "verify.stage"}
    <3>1. l.proved = 0
      BY <2>6, Inside, Zenon DEF At
    <3> QED
      BY <1>2, <2>2, <2>6, <3>1, MutateEnds, Zenon
  <2>7. CASE pc[p] \in Body
    <3>1. Local(Head(l.stack), n, World)
      BY <2>2, <2>7, BodyReturns, Zenon
    <3> QED
      BY <2>2, <2>3, <3>1, Zenon DEF Moves
  <2> QED
    BY <1>2, <2>4, <2>5, <2>6, <2>7, Zenon DEF Failing, Inspecting, Body
<1> QED
  BY <1>1, <1>2, Zenon DEF HandleReadFails

\* All steps of the handle that only return.
LEMMA HandleReturnsMoves ==
    ASSUME NEW p \in Procs, Local(pc[p], loc[p], World), HandleReturns(p)
    PROVE  Moves(p)
  BY ProveInspectedMoves, VerifyMoves, CommitProvedMoves, CommitInspectedMoves,
     CommitDivergedMoves, CommitCreatedMoves, CommitReinspectedMoves, CommitUncreatedMoves,
     CommitStagedMoves, CommitRecoverMoves, CommitRecoveredMoves, CommitSealedMoves,
     FinalizeMoves, FinalizeInspectedMoves, FinalizeDoneMoves, ReconcileInspectedMoves,
     ReconcileDivergedMoves, Zenon DEF HandleReturns

\* All steps of the handle that read.
LEMMA HandleReadsMoves ==
    ASSUME NEW p \in Procs, Rows, Local(pc[p], loc[p], World), HandleReads(p)
    PROVE  Moves(p)
  BY InspectAttemptMoves, InspectRowsMoves, ProveCursorMoves, ProveChunkMoves, VerifyStageMoves,
     CommitCursorMoves, CommitFreshMoves, CommitLifecycleMoves, CommitWhyMoves,
     FinalizeLifecycleMoves, FinalizeClassifyMoves, FinalizeWhyMoves,
     ReconcileCursorMoves, ReconcileLifecycleMoves, ReconcileAbortedMoves, Zenon DEF HandleReads
=============================================================================
