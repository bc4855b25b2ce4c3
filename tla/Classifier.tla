----------------------------- MODULE Classifier -----------------------------
(***************************************************************************)
(* gate.Classify, version 1 (internal/gate/classifier.go), on the gate's   *)
(* projection of a message (internal/mail/gate_projection.go).             *)
(*                                                                         *)
(* A message is a record: the set of its labels, its sender's domain as a  *)
(* sequence of domain labels (<<>> when the address is unusable), its      *)
(* subject as a sequence of characters, the list headers it has, whether   *)
(* Auto-Submitted is absent, "no" or anything else, whether Precedence     *)
(* names bulk mail, and which recipient fields hold a usable value.        *)
(***************************************************************************)
EXTENDS Integers, Sequences, Functions

CONSTANTS
    Messages,      \* the messages examined
    Configured,    \* the policies examined, valid or not
    Fold,          \* canonicalFoldRune: character -> least of its case variants
    Width,         \* utf8.RuneLen of a character
    Categories,    \* the Gmail category labels
    MaxLabels, MaxDomains, MaxTerms, MaxTermBytes,  \* limits of a policy's lists
    MaxFoldedTerm, MaxFoldedSubject, MaxSearches    \* limits of the classifier

ASSUME ClassifierConstants ==
    /\ {MaxTerms, MaxSearches} \subseteq Nat /\ 2 * MaxTerms <= MaxSearches
    /\ \A p \in Configured : {p.candidate, p.urgent} \subseteq Seq(Seq(DOMAIN Fold))

VARIABLES
    message,  \* the message to classify
    policy,   \* the evaluator's policy
    result    \* NotYet, Invalid, or a classification

classifierVars == <<message, policy, result>>

NotYet == [outcome |-> "not_yet", reasons |-> {}, input |-> <<>>]
Invalid == [outcome |-> "invalid", reasons |-> {}, input |-> <<>>]

-----------------------------------------------------------------------------
(* Text. *)

Bytes(s) == SumFunction([i \in DOMAIN s |-> Width[s[i]]])

Folded(s) == [i \in DOMAIN s |-> Fold[s[i]]]

\* foldLiteral: whether the folded text stays within the limit.
FoldFits(s, limit) == Bytes(Folded(s)) <= limit

\* A subject has at most 4096 bytes (mail.Normalize), and the least of a character's
\* case variants is none of the wider ones.
ASSUME SubjectsFit == \A m \in Messages : FoldFits(m.subject, MaxFoldedSubject)

HasTerm(subject, term) ==
    \E i \in 0 .. Len(subject) - Len(term) : SubSeq(subject, i + 1, i + Len(term)) = term

\* containsAnyFold stops at the first match: the number of searches made.
Searches(subject, terms) ==
    LET hits == {i \in DOMAIN terms : HasTerm(subject, Folded(terms[i]))} IN
    IF hits = {} THEN Len(terms) ELSE CHOOSE i \in hits : \A j \in hits : i <= j

Found(subject, terms) == \E i \in DOMAIN terms : HasTerm(subject, Folded(terms[i]))

-----------------------------------------------------------------------------
(* ValidatePolicy *)

Unique(list) == \A i, j \in DOMAIN list : list[i] = list[j] => i = j

ValidTerms(terms) ==
    /\ Len(terms) <= MaxTerms
    /\ \A i \in DOMAIN terms :
        /\ terms[i] # <<>> /\ Bytes(terms[i]) <= MaxTermBytes
        /\ FoldFits(terms[i], MaxFoldedTerm)
    /\ Unique([i \in DOMAIN terms |-> Folded(terms[i])])

ValidDomains(domains) ==
    /\ Len(domains) <= MaxDomains
    /\ \A i \in DOMAIN domains : domains[i] # <<>>
    /\ Unique(domains)

ValidLabels(labels) == Len(labels) <= MaxLabels /\ Unique(labels)

ValidCategories(list) == Range(list) \subseteq Categories /\ Unique(list)

ValidatePolicy(p) ==
    /\ ValidLabels(p.excluded) /\ ValidCategories(p.suppressed)
    /\ ValidDomains(p.allow) /\ ValidDomains(p.block)
    /\ ValidTerms(p.candidate) /\ ValidTerms(p.urgent)
    /\ Range(p.allow) \cap Range(p.block) = {}

-----------------------------------------------------------------------------
(* Classify *)

IntersectsExact(labels, list) == labels \cap Range(list) # {}

HasUsableRecipient(m) == m.recipients # {}

\* matchesAnyDomain: the domain itself or a domain it is under.
MatchesAnyDomain(domain, domains) ==
    /\ domain # <<>>
    /\ \E d \in Range(domains), n \in 0 .. Len(domain) : d = SubSeq(domain, n + 1, Len(domain))

Automated(m) == m.auto \notin {"", "no"} \/ m.precedence = "bulk"

\* The reasons a message gives.
Signals(m, p) ==
    LET subject == Folded(m.subject) IN
    {r \in {"excluded_label", "sender_block_domain", "sender_allow_domain", "bulk_category",
            "mailing_list", "automated_message", "owner_candidate_term", "owner_urgent_term",
            "direct_recipient"} :
        \/ r = "excluded_label" /\ IntersectsExact(m.labels, p.excluded)
        \/ r = "sender_block_domain" /\ MatchesAnyDomain(m.domain, p.block)
        \/ r = "sender_allow_domain" /\ MatchesAnyDomain(m.domain, p.allow)
        \/ r = "bulk_category" /\ IntersectsExact(m.labels, p.suppressed)
        \/ r = "mailing_list" /\ p.listIsBulk /\ m.list # {}
        \/ r = "automated_message" /\ Automated(m)
        \/ r = "owner_candidate_term" /\ Found(subject, p.candidate)
        \/ r = "owner_urgent_term" /\ Found(subject, p.urgent)
        \/ r = "direct_recipient" /\ p.directIsCandidate /\ HasUsableRecipient(m)}

\* Mutant of Outcome: a candidate term comes before a blocked sender.
OutcomeTermFirst(has) ==
    IF "owner_candidate_term" \in has THEN "review_candidate"
    ELSE IF has \cap {"excluded_label", "sender_block_domain"} # {} THEN "ignore"
    ELSE IF {"sender_allow_domain", "owner_urgent_term"} \subseteq has THEN "urgent_review_candidate"
    ELSE IF "sender_allow_domain" \in has THEN "review_candidate"
    ELSE IF has \cap {"bulk_category", "mailing_list", "automated_message"} # {} THEN "metadata_only"
    ELSE IF "direct_recipient" \in has THEN "review_candidate"
    ELSE "metadata_only"

\* The switch at the end of Classify, top to bottom.
Outcome(has) ==
    IF has \cap {"excluded_label", "sender_block_domain"} # {} THEN "ignore"
    ELSE IF {"sender_allow_domain", "owner_urgent_term"} \subseteq has THEN "urgent_review_candidate"
    ELSE IF has \cap {"sender_allow_domain", "owner_candidate_term"} # {} THEN "review_candidate"
    ELSE IF has \cap {"bulk_category", "mailing_list", "automated_message"} # {} THEN "metadata_only"
    ELSE IF "direct_recipient" \in has THEN "review_candidate"
    ELSE "metadata_only"

\* Mutant of InputHash: the urgent terms are left out.
InputHashPartial(m, p) ==
    <<m, p.directIsCandidate, p.listIsBulk, Range(p.excluded), Range(p.suppressed),
      Range(p.allow), Range(p.block), Range(p.candidate)>>

\* deriveInputHash: the metadata hash and the policy, its lists sorted.
InputHash(m, p) ==
    <<m, p.directIsCandidate, p.listIsBulk, Range(p.excluded), Range(p.suppressed),
      Range(p.allow), Range(p.block), Range(p.candidate), Range(p.urgent)>>

\* DecodeClassification
DecodeClassification(outcome, reasons, input) ==
    IF reasons # {} /\ ("no_candidate_signal" \in reasons => reasons = {"no_candidate_signal"})
    THEN [outcome |-> outcome, reasons |-> reasons, input |-> input]
    ELSE Invalid

Classify(m, p) ==
    LET subject == Folded(m.subject)
        has == Signals(m, p)
        candidateSearches == Searches(subject, p.candidate)
        urgentSearches == Searches(subject, p.urgent)
    IN  IF /\ ValidatePolicy(p)
           /\ FoldFits(m.subject, MaxFoldedSubject)
           /\ 2 * candidateSearches <= MaxSearches
           /\ candidateSearches + urgentSearches <= MaxSearches
        THEN DecodeClassification(Outcome(has), IF has = {} THEN {"no_candidate_signal"} ELSE has,
                                  InputHash(m, p))
        ELSE Invalid

-----------------------------------------------------------------------------
ClassifierInit == message \in Messages /\ policy \in Configured /\ result = NotYet

Decide ==
    /\ result = NotYet
    /\ result' = Classify(message, policy)
    /\ UNCHANGED <<message, policy>>

ClassifierNext == Decide

ClassifierSpec == ClassifierInit /\ [][ClassifierNext]_classifierVars

-----------------------------------------------------------------------------
(* Properties. *)

\* A valid policy at its limits never makes a message unclassifiable: the
\* limits on searches and on folded text leave room for every list that
\* ValidatePolicy accepts (Classify, containsAnyFold, foldLiteral).
PolicyNeverBlocks ==
    result = Invalid => ~ValidatePolicy(policy)

\* The outcome can be told from the stored reasons alone: a blocked or
\* excluded message is ignored whatever else it matches, urgency needs an
\* allowed sender, and a bulk signal outweighs a direct recipient but not the
\* owner's own terms (the switch of Classify).
ReasonsExplain ==
    LET r == result.reasons
        bulk == {"bulk_category", "mailing_list", "automated_message"}
    IN  result \notin {NotYet, Invalid} =>
            /\ result.outcome = "ignore" <=> "excluded_label" \in r \/ "sender_block_domain" \in r
            /\ result.outcome = "urgent_review_candidate" =>
                "sender_allow_domain" \in r /\ "owner_urgent_term" \in r
            /\ result.outcome = "review_candidate" =>
                "sender_allow_domain" \in r \/ "owner_candidate_term" \in r \/ r \cap bulk = {}
            /\ result.outcome = "metadata_only" =>
                /\ "sender_allow_domain" \notin r /\ "owner_candidate_term" \notin r
                /\ r \cap bulk # {} \/ "direct_recipient" \notin r

\* Every valid policy classifies every message, and as its reasons say (Classify).
ClassifyIsSound == PolicyNeverBlocks /\ ReasonsExplain

\* The input hash names everything the decision depends on: two policies with
\* one hash, whatever the order of their lists, classify alike, so comparing
\* hashes is enough to know a stored decision is still the right one
\* (deriveInputHash, Evaluate).
SameInputSameDecision ==
    result \notin {NotYet, Invalid} =>
        \A q \in Configured :
            InputHash(message, q) = result.input /\ ValidatePolicy(q) => Classify(message, q) = result
=============================================================================
