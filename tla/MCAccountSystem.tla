--------------------------- MODULE MCAccountSystem ---------------------------
(***************************************************************************)
(* AccountSystem for TLC, in two scenes of one instance.  A behaviour is   *)
(* of one scene: in "commands" everything overlaps, and with one fault     *)
(* everything but a second envelope and a pause; in "revocation" an        *)
(* enrollment completes undisturbed and then the processes revoke and      *)
(* pause with all the faults.  The processes are interchangeable.          *)
(***************************************************************************)
EXTENDS AccountSystem, FiniteSets, TLC

CONSTANTS h1, p1, p2, r1

VARIABLE scene

Symmetry == Permutations(Procs)

Busy == {p \in Procs : pc[p] # "idle"}

Enrolling == \E p \in Procs : loc[p].op = "enroll"

Enrolled == lifecycle.state \notin {"absent", "pending"}

Within ==
    \/ /\ scene = "commands" /\ faults <= 1
       /\ faults = 1 => issued <= 1 /\ \A p \in Procs : loc[p].op # "pause"
    \/ /\ scene = "revocation"
       /\ \A p \in Procs : loc[p].op \in {"none", "enroll", "revoke", "pause"}
       /\ Enrolling => Cardinality(Busy) = 1
       /\ Enrolling \/ ~Enrolled => faults = 0
       /\ ~Enrolling /\ ~Enrolled => Busy = {}

MCInit == Init /\ scene \in {"commands", "revocation"}

MCNext ==
    /\ Next /\ UNCHANGED scene /\ Within'
    /\ scene = "revocation" /\ ~Enrolling /\ Enrolled => ~Enrolling'

mcVars == <<vars, scene>>

MCSpec == MCInit /\ [][MCNext]_mcVars

\* An account whose enrollment has completed: the state every operator
\* command but enrollment is meant for.
EnrolledInit ==
    /\ lifecycle = [NoLifecycle EXCEPT !.state = "active", !.version = 2]
    /\ cursor = h1
    /\ credential = 1
    /\ late = {}
    /\ faults = 0
    /\ pc = [p \in Procs |-> "idle"]
    /\ loc = [p \in Procs |-> Idle]
    /\ ManagerInit
    /\ issued = 1
    /\ scene = "revocation"

RevokeFairSpec == EnrolledInit /\ [][MCNext]_mcVars /\ Fairness
=============================================================================
