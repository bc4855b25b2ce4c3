------------------------------- MODULE MCGate -------------------------------
(***************************************************************************)
(* The gate: what is decided and extracted of one message, and the         *)
(* classifier that decides.  A behaviour moves one team of evaluators and  *)
(* extractors, and the others stay idle: two configurations, two releases, *)
(* an evaluator and an extractor on an account that is paused, resumed or  *)
(* marked for reauthorization, to which a revoked account looks alike, or  *)
(* two extractors of one message without faults.  Every process has its    *)
(* own clock.  Or a behaviour moves the classifier, which reads none of    *)
(* this.  With two configurations a fault keeps the message as it is; with *)
(* an extractor there is one excerpt, and a fault leaves one transition.   *)
(***************************************************************************)
EXTENDS Candidates, Classifier, TLC

CONSTANTS e1, e2, e3, x1, x2, b1, b2, m1, m2, pol1, pol2, review, ignore

VARIABLE part

Teams ==
    [policies |-> {e1, e2}, releases |-> {e1, e3}, content |-> {e1, x1}, fetches |-> {e1, x1, x2}]

Clock == [p \in Procs |-> IF p \in {e1, x1} THEN 1 ELSE 2]

\* What a process wrote down bears the time of its clock.
Timed(p) ==
    /\ loc[p].next # NoContent => loc[p].next.at = Clock[p]
    /\ p \in Evaluators /\ loc[p].stmt # None => loc[p].stmt.next.at = Clock[p]

MCPolicyOf == e1 :> pol1 @@ e2 :> pol2 @@ e3 :> pol1

\* Metadata m1 makes a candidate, m2 does not; the release of e3 disagrees about m1.
MCClassOf ==
    [e \in {e1, e2, e3} |-> m1 :> (IF e = e3 THEN ignore ELSE review) @@ m2 :> ignore]

-----------------------------------------------------------------------------
\* "K" and "k" fold together; the third variant is wider than the canonical
\* one, as the Kelvin sign is.
Folds == [c \in {"K", "k", "kelvin", "x"} |-> IF c = "x" THEN "x" ELSE "K"]

Widths == [c \in {"K", "k", "kelvin", "x"} |-> IF c = "kelvin" THEN 3 ELSE 1]

Terms ==
    {<< >>, << <<"k">> >>, << <<"x">>, <<"k">> >>, << <<"k">>, <<"x">> >>,
     << <<"k">>, <<"K">> >>, << <<"kelvin">>, <<"x", "x">> >>}

Domains == {<< >>, << <<"a">> >>, << <<"a">>, <<"b", "a">> >>, << <<"b", "a">>, <<"a">> >>}

MCConfigured ==
    {[directIsCandidate |-> d, listIsBulk |-> d, excluded |-> <<"L">>, suppressed |-> <<"C">>,
      allow |-> allow, block |-> block, candidate |-> c, urgent |-> u] :
        d \in BOOLEAN,
        allow \in Domains, block \in {<< >>, << <<"b", "a">> >>}, c \in Terms,
        u \in {<< >>, << <<"x">>, <<"k">> >>}}

Mails ==
    {[labels |-> l, domain |-> d, subject |-> s, list |-> h[1], auto |-> h[2], precedence |-> "", recipients |-> r] :
        l \in {{}, {"L"}, {"C"}}, d \in {<<"a">>, <<"c", "b", "a">>},
        s \in {<<>>, <<"k">>, <<"x", "kelvin">>},
        h \in {<<{}, "no">>, <<{"id"}, "no">>, <<{}, "auto-replied">>}, r \in {{}, {"cc"}}}

-----------------------------------------------------------------------------
ClassifierWaits ==
    /\ message = CHOOSE m \in Messages : TRUE
    /\ policy = CHOOSE q \in Configured : TRUE
    /\ result = NotYet

MCInit ==
    /\ part \in DOMAIN Teams \cup {"classifier"}
    /\ Init
    /\ IF part = "classifier" THEN ClassifierInit ELSE ClassifierWaits

TeamMoves ==
    /\ part \in DOMAIN Teams
    /\ Next
    /\ \A p \in Procs \ Teams[part] : UNCHANGED <<pc[p], loc[p]>>
    /\ \A p \in Teams[part] : Timed(p)'
    /\ IF part = "content" THEN lifecycle'.state # "revoked" ELSE UNCHANGED lifecycle
    /\ part = "policies" /\ faults' = 1 => meta' = m1
    /\ part = "content" => loc'[x1].next.body # b2 /\ (faults' = 1 => lifecycle'.version <= 2)
    /\ part = "fetches" => meta' = m1 /\ faults' = 0
    /\ UNCHANGED <<classifierVars, part>>

ClassifierMoves == part = "classifier" /\ ClassifierNext /\ UNCHANGED <<vars, part>>

MCNext == TeamMoves \/ ClassifierMoves

mcVars == <<vars, classifierVars, part>>

\* The fairness of FairSpec, for the evaluators that move.
MCSpec ==
    /\ MCInit /\ [][MCNext]_mcVars
    /\ \A p \in Evaluators :
          WF_vars(part \in DOMAIN Teams /\ p \in Teams[part] /\ Evaluate(p))
=============================================================================
