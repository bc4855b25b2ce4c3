------------------------- MODULE ContentExtraction -------------------------
(***************************************************************************)
(* CandidateContentExtractor.Extract (internal/gmail/candidate_content.go) *)
(* and the CommitCandidateContent it calls                                 *)
(* (internal/storage/turso/candidate_content.go), by any number of         *)
(* extractors.  invokeMu makes the calls of one extractor follow one       *)
(* another.                                                                *)
(***************************************************************************)
EXTENDS CandidateStore

-----------------------------------------------------------------------------
(* preflight *)

ExtractLifecycle(p) ==
    /\ pc[p] = "idle"
    /\ IF ~Active THEN Return(p, "inactive")
       ELSE IF lifecycle.version = MaxVersion THEN Return(p, "recovery")
       ELSE \E limit \in Limits :
               Goto(p, "extract.message", [Idle EXCEPT !.life = lifecycle, !.limit = limit])
    /\ Reads

ExtractMessage(p) ==
    /\ pc[p] = "extract.message"
    /\ IF meta = None THEN Return(p, "recovery")
       ELSE Goto(p, "extract.decision", [loc[p] EXCEPT !.msg = meta])
    /\ Reads

ExtractDecision(p) ==
    /\ pc[p] = "extract.decision"
    /\ IF DecisionCurrent /\ decision.source = loc[p].msg /\ decision.class \in Candidate
       THEN Goto(p, "extract.content", [loc[p] EXCEPT !.seen = decision])
       ELSE Return(p, "ineligible")
    /\ Reads

\* Content that is current ends the preflight without a credential; otherwise
\* the credential is read and decrypted, which changes nothing.
ExtractContent(p) ==
    /\ pc[p] = "extract.content"
    /\ Goto(p, IF ContentCurrent(loc[p].limit) THEN "extract.cached" ELSE "extract.refresh", loc[p])
    /\ Reads

ExtractCached(p) ==
    /\ pc[p] = "extract.cached"
    /\ IF ContentCurrent(loc[p].limit) THEN Return(p, "nil")
       ELSE Return(p, "recovery")
    /\ Reads

-----------------------------------------------------------------------------
(* The provider. *)

\* refreshAccessToken answers.
ExtractRefresh(p) ==
    /\ pc[p] = "extract.refresh"
    /\ Goto(p, "extract.verify", loc[p])
    /\ Reads

\* verifyPreflight: its lifecycle read, then its message and decision reads,
\* of which the second decides: a decision that is current and the one seen
\* is about the message seen.
ExtractVerify(p) ==
    /\ pc[p] = "extract.verify"
    /\ IF ~Active THEN Return(p, "inactive")
       ELSE IF lifecycle = loc[p].life THEN Goto(p, "extract.verify_source", loc[p])
       ELSE Return(p, "conflict")
    /\ Reads

ExtractVerifySource(p) ==
    /\ pc[p] = "extract.verify_source"
    /\ IF meta = loc[p].msg /\ DecisionCurrent /\ decision = loc[p].seen
       THEN Goto(p, "extract.get", loc[p])
       ELSE Return(p, "conflict")
    /\ Reads

\* gmailGET and decodeCandidateContentResponse: some excerpt.
ExtractGet(p) ==
    /\ pc[p] = "extract.get"
    /\ \E b \in Bodies, t \in Times :
          Goto(p, "extract.prior",
               [loc[p] EXCEPT !.next = [source |-> loc[p].msg, policy |-> loc[p].seen.policy,
                                        limit |-> loc[p].limit, body |-> b, at |-> t,
                                        grant |-> lifecycle.version]])
    /\ Reads

\* The credential or the request is refused for good: markReauthorization.
ExtractRefused(p) ==
    /\ pc[p] \in {"extract.refresh", "extract.get"}
    /\ Goto(p, "extract.mark", loc[p])
    /\ Reads

\* CommitAccountLifecycle from the lifecycle that preflight read.
ExtractMark(p) ==
    /\ pc[p] = "extract.mark"
    /\ IF lifecycle = loc[p].life
       THEN /\ lifecycle' = [state |-> "reauthorization_required", version |-> lifecycle.version + 1]
            /\ Return(p, "reauthorization")
       ELSE Return(p, "recovery") /\ UNCHANGED lifecycle
    /\ UNCHANGED <<meta, decision, content, late, faults>>

\* Vanished, unavailable, or a response that does not decode.
ExtractUnavailable(p) ==
    /\ pc[p] \in {"extract.refresh", "extract.get"}
    /\ Return(p, "unavailable")
    /\ Reads

-----------------------------------------------------------------------------
(* The commit. *)

ExtractPrior(p) ==
    /\ pc[p] = "extract.prior"
    /\ LET l == loc[p]
           expected == IF content = NoContent THEN None ELSE ContentRevision(content)
       IN  IF ContentCurrent(l.limit) /\ ContentRevision(content) = ContentRevision(l.next)
           THEN Return(p, "nil")
           ELSE Goto(p, "content.inspect",
                     [l EXCEPT !.stmt = ContentStatement(l.life.version, l.msg, l.seen, expected, l.next)])
    /\ Reads

\* resolveCandidateContentCommit, as fixedCandidateContentCommitError reports it.
ResolveContent(s) ==
    IF ~(Active /\ lifecycle.version = s.version) THEN "inactive"
    ELSE IF meta # s.source THEN "conflict"
    ELSE IF ~(decision = s.gate /\ decision.class \in Candidate /\ decision.source = meta) THEN "conflict"
    ELSE IF content = NoContent THEN (IF s.expected = None THEN "nil" ELSE "conflict")
    ELSE IF ContentRevision(content) = ContentRevision(s.next) THEN "nil"
    ELSE IF s.expected # None /\ ContentRevision(content) = s.expected THEN "nil"
    ELSE "conflict"

ContentInspect(p) ==
    /\ pc[p] = "content.inspect"
    /\ LET s == loc[p].stmt IN
       IF ResolveContent(s) # "nil" THEN Return(p, ResolveContent(s))
       ELSE IF content # NoContent /\ ContentRevision(content) = ContentRevision(s.next)
            THEN Goto(p, "extract.fresh", loc[p])
       ELSE Goto(p, "content.mutate", loc[p])
    /\ Reads

ContentMutate(p) ==
    /\ pc[p] = "content.mutate"
    /\ Execute(loc[p].stmt)
    /\ Goto(p, "content.verify", loc[p])
    /\ UNCHANGED <<late, faults>>

\* The verifying inspection: a row that means the same is a success.
ContentVerify(p) ==
    /\ pc[p] = "content.verify"
    /\ LET s == loc[p].stmt IN
       IF /\ Active /\ lifecycle.version = s.version /\ meta = s.source /\ decision = s.gate
          /\ content # NoContent /\ ContentRevision(content) = ContentRevision(s.next)
       THEN Goto(p, "extract.fresh", loc[p])
       ELSE IF ResolveContent(s) # "nil" THEN Return(p, ResolveContent(s))
       ELSE Return(p, "recovery")
    /\ Reads

ExtractFresh(p) ==
    /\ pc[p] = "extract.fresh"
    /\ IF ContentCurrent(loc[p].limit) /\ ContentRevision(content) = ContentRevision(loc[p].next)
       THEN Return(p, "nil")
       ELSE Return(p, "recovery")
    /\ Reads

-----------------------------------------------------------------------------
(* What goes wrong. *)

ContentLost(p) ==
    /\ pc[p] = "content.mutate"
    /\ Fault
    /\ late' = late \cup {loc[p].stmt}
    /\ Goto(p, "content.verify", loc[p])
    /\ UNCHANGED rows

ExtractReadFails(p) ==
    /\ pc[p] \in {"extract.message", "extract.decision", "extract.content", "extract.cached",
                  "extract.verify", "extract.verify_source", "extract.prior", "content.inspect",
                  "content.verify", "extract.fresh"}
    /\ Fault
    /\ Return(p, "recovery")
    /\ UNCHANGED <<rows, late>>

Extract(p) ==
    \/ ExtractLifecycle(p) \/ ExtractMessage(p) \/ ExtractDecision(p) \/ ExtractContent(p)
    \/ ExtractCached(p) \/ ExtractRefresh(p) \/ ExtractVerify(p) \/ ExtractVerifySource(p)
    \/ ExtractGet(p) \/ ExtractMark(p) \/ ExtractPrior(p) \/ ContentInspect(p)
    \/ ContentMutate(p) \/ ContentVerify(p) \/ ExtractFresh(p)

ExtractorFaults(p) ==
    \/ ExtractRefused(p) \/ ExtractUnavailable(p)
    \/ ContentLost(p) \/ ExtractReadFails(p) \/ Crash(p)
=============================================================================
