------------------------------ MODULE History -------------------------------
(***************************************************************************)
(* How CurrentDiscovery.Discover reads the provider (internal/gmail/       *)
(* current_discovery.go: refreshAccessToken, readHistory, readMessage and  *)
(* gmailGET) while mail arrives and vanishes: pages with tokens, bounds on *)
(* pages and messages, retries.  Discovery has the read as one step; here  *)
(* it is shown to find all that a commit needs.                            *)
(***************************************************************************)
EXTENDS Integers, Sequences, FiniteSets

CONSTANTS
    MessageIDs,
    PageSize,                \* records of a page
    MaximumPages,            \* MaximumCurrentDiscoveryPages
    MaximumMessages,         \* MaximumCurrentDiscoveryMessages
    MaximumAttempts,         \* MaximumProviderAttempts for one request
    MaxLog,                  \* bounds the history of the mailbox
    MaxOdd                   \* bounds the pages that the provider gets wrong

ASSUME HistoryConstants ==
    /\ PageSize \in Nat \ {0} /\ MaximumPages \in Nat \ {0} /\ MaximumAttempts \in Nat \ {0}
    /\ MaximumMessages \in Nat /\ MaxLog \in Nat /\ MaxOdd \in Nat

VARIABLES
    log,         \* the mailbox's history: the message each history id adds
    vanished,    \* messages that the mailbox no longer has
    odd,         \* pages that the provider got wrong
    step,        \* the request that Discover makes next, or how it ended
    cursor,      \* the history id that it started from
    token,       \* where the next page starts
    seenTokens, page, attempt,
    found,       \* the identities found so far
    last,        \* previousRecord and previousPageHistory
    read, gone,  \* messages read, and messages that were not there
    requests     \* requests made to the provider

historyVars == <<log, vanished, odd, step, cursor, token, seenTokens, page, attempt, found, last,
          read, gone, requests>>

mailbox == <<log, vanished>>
reading == <<token, seenTokens, page, found, last>>

Ended == {"commit", "nothing", "reauthorization", "failed"}

\* MaximumProviderRequestAttempts: one refresh, and every other request retried.
MaximumRequests == 1 + MaximumAttempts * (MaximumPages + MaximumMessages)

HistoryInit ==
    /\ log \in UNION {[1 .. n -> MessageIDs] : n \in 0 .. MaxLog - 1}
    /\ cursor \in 0 .. Len(log)
    /\ vanished = {} /\ odd = 0 /\ step = "refresh" /\ requests = 0
    /\ token = cursor /\ seenTokens = {} /\ page = 1 /\ attempt = 0
    /\ found = {} /\ last = [record |-> 0, history |-> 0]
    /\ read = {} /\ gone = {}

-----------------------------------------------------------------------------
\* The token is refreshed once; a refusal of the grant or by a policy is told apart.
Refresh ==
    /\ step = "refresh"
    /\ requests' = requests + 1
    /\ step' \in {"history", "reauthorization", "failed"}
    /\ UNCHANGED <<mailbox, odd, cursor, reading, attempt, read, gone>>

Asking == step = "history" \/ (step = "messages" /\ found # read \cup gone)

\* Mutant of Retry: the attempt after the last one is made, too.
RetryOnceMore ==
    /\ Asking
    /\ requests' = requests + 1
    /\ IF attempt = MaximumAttempts
       THEN step' = "failed" /\ UNCHANGED attempt
       ELSE attempt' = attempt + 1 /\ UNCHANGED step
    /\ UNCHANGED <<mailbox, odd, cursor, reading, read, gone>>

\* gmailGET gets no answer, or one that may be retried, and waits.
Retry ==
    /\ Asking
    /\ requests' = requests + 1
    /\ IF attempt = MaximumAttempts - 1
       THEN step' = "failed" /\ UNCHANGED attempt
       ELSE attempt' = attempt + 1 /\ UNCHANGED step
    /\ UNCHANGED <<mailbox, odd, cursor, reading, read, gone>>

\* Another answer that ends the call: unauthorized, domain policy, a history
\* that is too old, a body that is too long or cannot be decoded.
Refused ==
    /\ Asking
    /\ requests' = requests + 1
    /\ step' \in {"reauthorization", "failed"}
    /\ UNCHANGED <<mailbox, odd, cursor, reading, attempt, read, gone>>

\* The page of the provider that starts after history id t (external).
HonestPage(t) ==
    LET end == IF t + PageSize < Len(log) THEN t + PageSize ELSE Len(log)
    IN  [records |-> [i \in 1 .. end - t |-> t + i], history |-> Len(log),
         next |-> IF end < Len(log) THEN end ELSE -1]

\* Pages that an honest provider does not send: they repeat a token, go back
\* in the history or carry an old history id.
OddPages(t) ==
    LET h == HonestPage(t)
    IN  {[h EXCEPT !.next = s] : s \in seenTokens}
        \cup {[h EXCEPT !.records = <<r>> \o @] : r \in {last.record} \ {0}}
        \cup {[h EXCEPT !.history = i] : i \in 0 .. Len(log) - 1}

Increasing(r) == \A i \in DOMAIN r : r[i] > (IF i = 1 THEN last.record ELSE r[i - 1])
LastRecord(r) == IF r = <<>> THEN last.record ELSE r[Len(r)]

\* Mutant of Sound: the history id of a page is not compared with its records.
SoundRecords(p) == Increasing(p.records) /\ p.history >= cursor /\ p.history >= last.history

\* What readHistory requires of a page.
Sound(p) ==
    /\ Increasing(p.records)
    /\ p.history >= cursor /\ p.history >= LastRecord(p.records) /\ p.history >= last.history

\* Discover after the last page: the history moved on, or there is nothing new.
Compared(p) ==
    IF p.history > cursor THEN {"messages"}
    ELSE IF found' = {} THEN {"nothing"} ELSE {"nothing", "failed"}

\* Where readHistory goes after a page that is sound: to the next page, unless
\* its token was seen or the pages are used up.
Continue(p) ==
    IF p.next = -1 THEN Compared(p)
    ELSE IF p.next \in seenTokens \/ page = MaximumPages THEN {"failed"} ELSE {"history"}

HistoryPage(p) ==
    LET more == found \cup {log[p.records[i]] : i \in DOMAIN p.records} IN
    /\ step = "history"
    /\ requests' = requests + 1 /\ attempt' = 0
    /\ IF ~Sound(p) \/ Cardinality(more) > MaximumMessages
       THEN step' = "failed" /\ UNCHANGED reading
       ELSE /\ found' = more
            /\ last' = [record |-> LastRecord(p.records), history |-> p.history]
            /\ step' \in Continue(p)
            /\ token' = p.next /\ seenTokens' = seenTokens \cup {p.next} /\ page' = page + 1
    /\ UNCHANGED <<mailbox, cursor, read, gone>>

Page ==
    \/ HistoryPage(HonestPage(token)) /\ UNCHANGED odd
    \/ /\ odd < MaxOdd /\ odd' = odd + 1
       /\ \E p \in OddPages(token) : HistoryPage(p)

\* readMessage: the next message, or that it is not there.
Message(m) ==
    /\ step = "messages" /\ m \in found \ (read \cup gone)
    /\ requests' = requests + 1 /\ attempt' = 0
    /\ IF m \in vanished THEN gone' = gone \cup {m} /\ UNCHANGED read
                         ELSE read' = read \cup {m} /\ UNCHANGED gone
    /\ UNCHANGED <<mailbox, odd, step, cursor, reading>>

\* Mutant of Commit: a message that is not there is waited for.
CommitAllRead ==
    /\ step = "messages" /\ found = read
    /\ step' = "commit"
    /\ UNCHANGED <<mailbox, odd, cursor, reading, attempt, read, gone, requests>>

Commit ==
    /\ step = "messages" /\ found = read \cup gone
    /\ step' = "commit"
    /\ UNCHANGED <<mailbox, odd, cursor, reading, attempt, read, gone, requests>>

\* The mailbox changes between any two requests (external).
NewMail(m) ==
    /\ Len(log) < MaxLog /\ step \notin Ended
    /\ log' = Append(log, m)
    /\ UNCHANGED <<vanished, odd, step, cursor, reading, attempt, read, gone, requests>>

\* A message vanishes after it was found; before, nobody would know.
Vanish(m) ==
    /\ m \in found \ vanished /\ step \notin Ended
    /\ vanished' = vanished \cup {m}
    /\ UNCHANGED <<log, odd, step, cursor, reading, attempt, read, gone, requests>>

Ask == Refresh \/ Page \/ Commit \/ \E m \in MessageIDs : Message(m)
Answerless == Retry \/ Refused

HistoryNext == Ask \/ Answerless \/ \E m \in MessageIDs : NewMail(m) \/ Vanish(m)

HistorySpec == HistoryInit /\ [][HistoryNext]_historyVars /\ WF_historyVars(Ask \/ Answerless)

-----------------------------------------------------------------------------
\* What is committed is whole: every message that the history adds up to the
\* new cursor was found, although mail arrived between the pages, and was read
\* unless it had vanished by then (readHistory, readMessage).
CommitIsComplete ==
    step = "commit" =>
        /\ {log[i] : i \in cursor + 1 .. last.history} \subseteq found
        /\ found = read \cup gone /\ gone \subseteq vanished

\* The new cursor is never behind a message that is committed with it, so no
\* later discovery finds the message again; this holds for pages that the
\* provider gets wrong as well.
CursorCoversFound ==
    step \in {"messages", "commit"} => \A i \in cursor + 1 .. Len(log) :
        i <= last.record => i <= last.history

\* A commit has everything up to its cursor and nothing beyond (readHistory).
CommitIsSound == CommitIsComplete /\ CursorCoversFound

\* MaximumProviderRequestAttempts holds, although no counter of it exists: the
\* loops over pages, messages and attempts add up to it.
RequestsCapped == requests <= MaximumRequests

\* Every call ends, although mail keeps arriving and pages may be wrong.
DiscoverEnds == requests > 0 ~> step \in Ended
=============================================================================
