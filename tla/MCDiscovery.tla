---------------------------- MODULE MCDiscovery ----------------------------
(***************************************************************************)
(* Discovery for TLC, in three scenes of one instance.  A behaviour is of  *)
(* one scene, and a scene only bounds what may happen in it: "mail" lets   *)
(* everything change around one message, or all but the mailbox and one    *)
(* fault, "staging" puts two chunks in front of the same processes and     *)
(* another fault in front of one of them, and "repeat" lets one call at a  *)
(* time meet a message again, perhaps in another thread.                   *)
(***************************************************************************)
EXTENDS Discovery, TLC

CONSTANTS p1, p2, a, t1, t2

VARIABLE scene

OneVersion == {[thread |-> t1, meta |-> a]}

TwoThreads == {[thread |-> t1, meta |-> a], [thread |-> t2, meta |-> a]}

Symmetry == Permutations(Procs)

Mail == <<2, 1>>

Busy == {p \in Procs : pc[p] # "idle"}

OneThread ==
    \A p \in Procs : loc[p].commit # None =>
        \A i \in DOMAIN loc[p].commit.msgs : loc[p].commit.msgs[i].body.thread = t1

Within ==
    \/ /\ scene = "mail" /\ Len(log) <= 1 /\ 2 \notin AddedBetween(0, 1) /\ OneThread
       /\ faults = 0 \/ (faults = 1 /\ vanished = {})
    \/ /\ scene = "staging" /\ log = SubSeq(Mail, 1, Len(log)) /\ vanished = {}
       /\ Len(log) < 2 => Busy = {}
       /\ lifecycle.version = 1 /\ \A p \in Procs : pc[p] # "discover.mark"
       /\ OneThread
       /\ faults = 2 => Cardinality(Busy) <= 1
    \/ scene = "repeat" /\ Cardinality(Busy) <= 1 /\ lifecycle.version = 1 /\ faults <= 1

MCInit == Init /\ scene \in {"mail", "staging", "repeat"}

MCNext == Next /\ UNCHANGED scene /\ Within'

mcVars == <<vars, scene>>

MCSpec == MCInit /\ [][MCNext]_mcVars

\* Mail that is in the mailbox when discovery starts and stays there.
MailInit == StoreInit /\ log = Mail /\ vanished = {} /\ scene = "staging"

MailFairSpec == MailInit /\ [][MCNext]_mcVars /\ Fairness

\* Nothing is bounded but by the constants.
FreeFairSpec == Init /\ scene = "free" /\ [][Next /\ UNCHANGED scene]_mcVars /\ Fairness
=============================================================================
