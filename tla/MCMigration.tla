---------------------------- MODULE MCMigration ----------------------------
(***************************************************************************)
(* Three releases, of which two migrate in one behaviour: a release and    *)
(* the one before it, or releases whose catalogs differ from the second    *)
(* file on.                                                                *)
(***************************************************************************)
EXTENDS Migration, TLC

CONSTANTS p1, p2, p3, a, b, c, d

VARIABLE part

MCCatalog == p1 :> <<a, b, d>> @@ p2 :> <<a, b>> @@ p3 :> <<a, c, d>>

Teams == [releases |-> {p1, p2}, forks |-> {p1, p3}]

MCInit == part \in DOMAIN Teams /\ Init

MCNext ==
    /\ Next
    /\ \A p \in Procs \ Teams[part] : UNCHANGED <<pc[p], loc[p]>>
    /\ UNCHANGED part

\* The fairness of FairSpec, for the processes that move.
MCSpec ==
    /\ MCInit /\ [][MCNext]_<<vars, part>>
    /\ \A p \in Procs :
          WF_vars(p \in Teams[part] /\ Start(p)) /\ WF_vars(p \in Teams[part] /\ Step(p))
    /\ WF_vars(Expire)
=============================================================================
