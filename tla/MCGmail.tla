------------------------------ MODULE MCGmail ------------------------------
(***************************************************************************)
(* The callback of an enrollment, and the pages and messages that one      *)
(* Discover reads.  Neither reads a variable of the other, so a behaviour  *)
(* moves one of them and leaves the other as it starts.                    *)
(***************************************************************************)
EXTENDS Callback, History

CONSTANTS r1, r2, b1, b2

VARIABLE part

HistoryWaits ==
    /\ log = <<>> /\ cursor = 0 /\ vanished = {} /\ odd = 0 /\ step = "refresh" /\ requests = 0
    /\ token = 0 /\ seenTokens = {} /\ page = 1 /\ attempt = 0
    /\ found = {} /\ last = [record |-> 0, history |-> 0] /\ read = {} /\ gone = {}

\* Calls of run, requests and messages are named in the order in which they appear.
Named ==
    /\ pc[r2] # "start" => pc[r1] # "start"
    /\ bpc[b2] # "new" => bpc[b1] # "new"
    /\ \A i \in DOMAIN log : log[i] = 1 \/ \E j \in 1 .. i - 1 : log[j] = log[i] - 1

\* The longest history, which takes a page too many, is of mail that stays and of
\* pages as they should be.
Steady == Len(log) = MaxLog => vanished = {} /\ odd = 0

MCInit ==
    /\ part \in {"callback", "history"}
    /\ CallbackInit
    /\ IF part = "history" THEN HistoryInit ELSE HistoryWaits
    /\ Named

CallbackMoves == part = "callback" /\ CallbackNext /\ UNCHANGED <<historyVars, part>> /\ Named'
HistoryMoves == part = "history" /\ HistoryNext /\ UNCHANGED <<callbackVars, part>> /\ Named' /\ Steady'

MCNext == CallbackMoves \/ HistoryMoves

\* The fairness of CallbackFairSpec and HistorySpec, for the part that moves.
MCSpec ==
    /\ MCInit /\ [][MCNext]_<<callbackVars, historyVars, part>>
    /\ \A r \in Runs : WF_callbackVars(part = "callback" /\ Run(r)) /\ WF_callbackVars(Age(r))
    /\ \A b \in Browsers : WF_callbackVars(Handle(b))
    /\ WF_historyVars(part = "history" /\ (Ask \/ Answerless))
=============================================================================
