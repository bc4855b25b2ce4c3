---------------------------- MODULE PagingProofs ----------------------------
(***************************************************************************)
(* Proofs about two readers of pages: one Discover in History, for any     *)
(* mailbox and any bounds, and a client's walk in Review, for any rows,    *)
(* any requests and any changes between two pages.                         *)
(***************************************************************************)
EXTENDS History, Review, FiniteSetTheorems, WellFoundedInduction, TLAPS

-----------------------------------------------------------------------------
(* The history.  A token is where the pages read so far end, and a page    *)
(* that was not what the provider should send ends the call.               *)

Upto(i) == {log[j] : j \in cursor + 1 .. i}

HistoryTypes ==
    /\ log \in Seq(MessageIDs) /\ cursor \in 0 .. Len(log)
    /\ step \in {"refresh", "history", "messages"} \cup Ended
    /\ page \in Nat \ {0} /\ attempt \in 0 .. MaximumAttempts - 1 /\ requests \in Nat
    /\ seenTokens \subseteq Int /\ last \in [record : Nat, history : Nat]
    /\ IsFiniteSet(found)

\* What has been found, in the pages and then in the messages.
Finding ==
    /\ last.record <= last.history /\ last.history <= Len(log)
    /\ step \in {"refresh", "history"} =>
          /\ token \in cursor .. Len(log) /\ -1 \notin seenTokens
          /\ Upto(token) \subseteq found /\ read \cup gone = {}
    /\ step \in {"messages", "commit"} => Upto(last.history) \subseteq found
    /\ read \cup gone \subseteq found /\ gone \subseteq vanished
    /\ step = "commit" => found = read \cup gone

\* What the requests so far were for.
Counting ==
    /\ step = "refresh" => requests = 0 /\ page = 1 /\ attempt = 0
    /\ step = "history" => page <= MaximumPages
    /\ step = "messages" => page - 1 <= MaximumPages /\ Cardinality(found) <= MaximumMessages
    /\ step \in {"history", "messages"} =>
          requests <= 1 + MaximumAttempts * ((page - 1) + Cardinality(read \cup gone)) + attempt
    /\ RequestsCapped

HistoryInv == HistoryTypes /\ Finding /\ Counting

\* One more request, while there was one to make, keeps to what the loops add up to.
LEMMA Room ==
    ASSUME NEW A \in Nat \ {0}, NEW P \in Nat, NEW M \in Nat, NEW p \in Nat, NEW c \in Nat,
           NEW a \in 0 .. A - 1, NEW r \in Nat,
           p + c < P + M, r <= 1 + A * (p + c) + a
    PROVE  r + 1 <= 1 + A * (P + M) /\ r + 1 <= 1 + A * (p + c + 1)
<1>1. PICK x \in Nat, y \in Nat : x = p + c /\ y = P + M
  BY SMT
<1>2. A * (x + 1) = A * x + A
  BY SMT
<1>3. A * (x + 1) <= A * y
  <2>1. PICK d \in Nat : y = (x + 1) + d
    <3>1. y - (x + 1) \in Nat /\ y = (x + 1) + (y - (x + 1))
      BY <1>1, SMT
    <3>2. QED
      BY <3>1, Zenon
  <2>2. A * ((x + 1) + d) = A * (x + 1) + A * d /\ A * d \in Nat /\ A * (x + 1) \in Nat
    BY SMT
  <2>3. QED
    BY <2>1, <2>2, SMT
<1>4. A * x \in Nat /\ A * y \in Nat /\ A * (x + 1) \in Nat
  BY SMT
<1>5. r + 1 <= 1 + A * (x + 1)
  BY <1>1, <1>2, <1>4, SMT
<1>6. QED
  BY <1>1, <1>3, <1>4, <1>5, SMT

\* The histories that Discover can start from are sequences of messages.
LEMMA LogType ==
    ASSUME NEW S, NEW n \in Nat, NEW l \in UNION {[1 .. k -> S] : k \in 0 .. n - 1}
    PROVE  l \in Seq(S)
OBVIOUS

\* One more request than asked so far is within what is allowed, and accounts for
\* a page or a message more.
LEMMA AskingRoom ==
    ASSUME HistoryInv, Asking
    PROVE  /\ IsFiniteSet(read \cup gone) /\ Cardinality(read \cup gone) \in Nat
           /\ requests + 1 <= MaximumRequests
           /\ requests + 1 <= 1 + MaximumAttempts * ((page - 1) + Cardinality(read \cup gone) + 1)
<1> USE HistoryConstants
<1>1. IsFiniteSet(read \cup gone) /\ Cardinality(read \cup gone) \in Nat
  <2>1. read \cup gone \in SUBSET found /\ IsFiniteSet(found)
    BY Zenon DEF HistoryInv, HistoryTypes, Finding
  <2>2. QED
    BY <2>1, FS_Subset, FS_CardinalityType, Zenon
<1>2. (page - 1) + Cardinality(read \cup gone) < MaximumPages + MaximumMessages
  <2>1. CASE step = "history"
    <3>1. read \cup gone = {} /\ page <= MaximumPages /\ page \in Nat \ {0}
      BY <2>1, Zenon DEF HistoryInv, HistoryTypes, Finding, Counting
    <3>2. Cardinality(read \cup gone) = 0
      BY <3>1, FS_EmptySet, Zenon
    <3>3. QED
      BY <3>1, <3>2
  <2>2. CASE step = "messages" /\ found # read \cup gone
    <3>1. /\ read \cup gone \in SUBSET found /\ IsFiniteSet(found)
          /\ page - 1 <= MaximumPages /\ Cardinality(found) <= MaximumMessages
          /\ page \in Nat \ {0}
      BY <2>2, Zenon DEF HistoryInv, HistoryTypes, Finding, Counting
    <3>2. Cardinality(read \cup gone) <= Cardinality(found) /\ Cardinality(read \cup gone) # Cardinality(found)
      BY <2>2, <3>1, FS_Subset, Zenon
    <3>3. Cardinality(found) \in Nat
      BY <3>1, FS_CardinalityType, Zenon
    <3>4. QED
      BY <1>1, <3>1, <3>2, <3>3
  <2>3. QED
    BY <2>1, <2>2, Zenon DEF Asking
<1>3. /\ requests \in Nat /\ attempt \in 0 .. MaximumAttempts - 1 /\ page - 1 \in Nat
      /\ requests <= 1 + MaximumAttempts * ((page - 1) + Cardinality(read \cup gone)) + attempt
  BY DEF HistoryInv, HistoryTypes, Counting, Asking
<1>4. QED
  BY <1>1, <1>2, <1>3, Room, Zenon DEF MaximumRequests

\* Refresh: the first request.
LEMMA RefreshStep ==
    ASSUME HistoryInv, Refresh
    PROVE  HistoryInv'
<1> USE HistoryConstants DEF HistoryInv, mailbox, reading
<1>1. HistoryTypes'
  BY DEF Refresh, HistoryTypes, Ended
<1>2. Finding'
  BY DEF Refresh, HistoryTypes, Finding, Upto
<1>3. Counting'
  <2>1. requests = 0 /\ page = 1 /\ attempt = 0 /\ read \cup gone = {}
    BY Zenon DEF Refresh, Counting, Finding
  <2>2. Cardinality(read \cup gone) = 0
    BY <2>1, FS_EmptySet, Zenon
  <2>3. 1 <= 1 + MaximumAttempts * (0 + 0) + 0 /\ 1 <= MaximumRequests
    <3>1. MaximumAttempts * (MaximumPages + MaximumMessages) \in Nat
      BY SMT
    <3>2. QED
      BY <3>1 DEF MaximumRequests
  <2>4. /\ requests' = 1 /\ page' = 1 /\ attempt' = 0 /\ Cardinality(read' \cup gone') = 0
        /\ step' \in {"history", "reauthorization", "failed"}
    BY <2>1, <2>2 DEF Refresh
  <2>5. (page' - 1) + Cardinality(read' \cup gone') = 0 + 0
    BY <2>4
  <2>6. requests' <= 1 + MaximumAttempts * ((page' - 1) + Cardinality(read' \cup gone')) + attempt'
    BY <2>3, <2>4, <2>5, Zenon
  <2>7. QED
    BY <2>3, <2>4, <2>6 DEF Counting, RequestsCapped, MaximumRequests
<1>4. QED
  BY <1>1, <1>2, <1>3, Zenon

\* Retry and Refused: a request that brings nothing.
LEMMA AnswerlessStep ==
    ASSUME HistoryInv, Answerless
    PROVE  HistoryInv'
<1> USE HistoryConstants DEF HistoryInv, mailbox, reading
<1>a. Asking
  BY Zenon DEF Answerless, Retry, Refused
<1>1. HistoryTypes'
  <2>1. attempt' \in 0 .. MaximumAttempts - 1 /\ requests' \in Nat
    BY DEF Answerless, Retry, Refused, HistoryTypes
  <2>2. step' \in {"refresh", "history", "messages"} \cup Ended
    BY Zenon DEF Answerless, Retry, Refused, HistoryTypes, Ended
  <2>3. UNCHANGED <<log, cursor, page, seenTokens, last, found>>
    BY Zenon DEF Answerless, Retry, Refused
  <2>4. QED
    BY <2>1, <2>2, <2>3, Zenon DEF HistoryTypes
<1>2. Finding'
  BY Zenon DEF Answerless, Retry, Refused, HistoryTypes, Finding, Upto
<1>3. Counting'
  <2>1. requests' = requests + 1 /\ requests + 1 <= MaximumRequests
    BY <1>a, AskingRoom, Zenon DEF Answerless, Retry, Refused
  <2>2. RequestsCapped'
    BY <2>1, Zenon DEF RequestsCapped, MaximumRequests
  <2>3. CASE step' \in Ended
    BY <2>2, <2>3, Zenon DEF Counting, Ended
  <2>4. CASE attempt' = attempt + 1 /\ step' = step
    <3>1. PICK x : x = MaximumAttempts * ((page - 1) + Cardinality(read \cup gone))
      OBVIOUS
    <3>2. x = MaximumAttempts * ((page' - 1) + Cardinality(read' \cup gone'))
      BY <3>1, Zenon DEF Answerless, Retry, Refused
    <3>3. requests <= 1 + x + attempt /\ x \in Int
      <4>1. (page - 1) + Cardinality(read \cup gone) \in Int
        BY <1>a, AskingRoom DEF HistoryTypes
      <4>2. QED
        BY <1>a, <3>1, <4>1 DEF Counting, Asking
    <3>4. requests' <= 1 + x + attempt'
      BY <2>1, <2>4, <3>3 DEF HistoryTypes
    <3>5. page' = page /\ found' = found /\ step \in {"history", "messages"}
      BY <1>a, Zenon DEF Answerless, Retry, Refused, Asking
    <3>6. QED
      BY <2>2, <2>4, <3>2, <3>4, <3>5, Zenon DEF Counting
  <2>5. QED
    BY <2>3, <2>4, Zenon DEF Answerless, Retry, Refused, Ended
<1>4. QED
  BY <1>1, <1>2, <1>3, Zenon

\* Message: a message is read, or is not there.
LEMMA MessageStep ==
    ASSUME HistoryInv, NEW m \in MessageIDs, Message(m)
    PROVE  HistoryInv'
<1> USE HistoryConstants DEF HistoryInv, mailbox, reading
<1>a. Asking
  BY Zenon DEF Message, Asking
<1>1. HistoryTypes'
  BY DEF Message, HistoryTypes, Ended
<1>2. Finding'
  BY Zenon DEF Message, HistoryTypes, Finding, Upto
<1>3. Counting'
  <2>1. /\ requests' = requests + 1 /\ requests + 1 <= MaximumRequests
        /\ requests + 1 <= 1 + MaximumAttempts * ((page - 1) + Cardinality(read \cup gone) + 1)
        /\ IsFiniteSet(read \cup gone) /\ Cardinality(read \cup gone) \in Nat
    BY <1>a, AskingRoom, Zenon DEF Message
  <2>2. RequestsCapped'
    BY <2>1, Zenon DEF RequestsCapped, MaximumRequests
  <2>3. read' \cup gone' = (read \cup gone) \cup {m} /\ m \notin read \cup gone
    BY Zenon DEF Message
  <2>4. Cardinality((read \cup gone) \cup {m}) = Cardinality(read \cup gone) + 1
    BY <2>1, <2>3, FS_AddElement, Zenon
  <2>5. (page' - 1) + Cardinality(read' \cup gone') = (page - 1) + Cardinality(read \cup gone) + 1
    <3>1. page' = page /\ page \in Nat
      BY Zenon DEF Message, HistoryTypes
    <3>2. Cardinality(read' \cup gone') = Cardinality(read \cup gone) + 1
      BY <2>3, <2>4, Zenon
    <3>3. QED
      BY <2>1, <3>1, <3>2
  <2>6. requests' <= 1 + MaximumAttempts * ((page' - 1) + Cardinality(read' \cup gone')) + attempt'
    <3>1. PICK x : x = MaximumAttempts * ((page - 1) + Cardinality(read \cup gone) + 1)
      OBVIOUS
    <3>2. x \in Int
      BY <2>1, <3>1 DEF HistoryTypes
    <3>3. requests' <= 1 + x + attempt'
      BY <2>1, <3>1, <3>2 DEF Message
    <3>4. QED
      BY <2>5, <3>1, <3>3, Zenon
  <2>7. page' = page /\ found' = found /\ step' = "messages" /\ step = "messages"
    BY Zenon DEF Message
  <2>8. QED
    BY <2>2, <2>6, <2>7, Zenon DEF Counting
<1>4. QED
  BY <1>1, <1>2, <1>3, Zenon

\* Commit, NewMail and Vanish ask the provider for nothing.
LEMMA QuietStep ==
    ASSUME HistoryInv, Commit \/ \E m \in MessageIDs : NewMail(m) \/ Vanish(m)
    PROVE  HistoryInv'
<1> USE HistoryConstants DEF HistoryInv, mailbox, reading
<1>1. CASE Commit
  <2>1. HistoryTypes' /\ Finding'
    BY <1>1, Zenon DEF Commit, HistoryTypes, Finding, Upto, Ended
  <2>2. Counting'
    BY <1>1, Zenon DEF Commit, Counting, RequestsCapped, MaximumRequests
  <2>3. QED
    BY <2>1, <2>2, Zenon
<1>2. ASSUME NEW m \in MessageIDs, NewMail(m)
      PROVE  HistoryInv'
  <2>1. /\ log' \in Seq(MessageIDs) /\ Len(log') = Len(log) + 1 /\ Len(log) \in Nat
        /\ \A j \in 1 .. Len(log) : log'[j] = log[j]
    BY <1>2 DEF NewMail, HistoryTypes
  <2>2. UNCHANGED <<vanished, step, cursor, token, seenTokens, page, found, last, attempt, read,
                    gone, requests>>
    BY <1>2, Zenon DEF NewMail
  <2>3. HistoryTypes'
    BY <2>1, <2>2 DEF HistoryTypes
  <2>4. \A i \in 0 .. Len(log) : {log'[j] : j \in cursor + 1 .. i} = {log[j] : j \in cursor + 1 .. i}
    <3>1. \A i \in 0 .. Len(log) : \A j \in cursor + 1 .. i : log'[j] = log[j]
      BY <2>1 DEF HistoryTypes
    <3>2. QED
      BY <3>1, Zenon
  <2>5. Finding'
    <3>a. PICK t, h : t = token /\ h = last.history
      OBVIOUS
    <3>b. h \in 0 .. Len(log) /\ (step \in {"refresh", "history"} => t \in 0 .. Len(log))
      BY <2>1, <3>a DEF HistoryTypes, Finding
    <3>1. step \in {"refresh", "history"} => Upto(token)' = Upto(token) /\ token \in cursor .. Len(log)
      BY <2>2, <2>4, <3>a, <3>b, Zenon DEF Upto, Finding
    <3>2. Upto(last.history)' = Upto(last.history)
      BY <2>2, <2>4, <3>a, <3>b, Zenon DEF Upto
    <3>3. last.history <= Len(log') /\ (token \in cursor .. Len(log) => token \in cursor .. Len(log'))
      BY <2>1 DEF Finding, HistoryTypes
    <3>4. QED
      BY <2>2, <3>1, <3>2, <3>3, Zenon DEF Finding
  <2>6. Counting'
    BY <2>2, Zenon DEF Counting, RequestsCapped, MaximumRequests
  <2>7. QED
    BY <2>3, <2>5, <2>6, Zenon
<1>3. ASSUME NEW m \in MessageIDs, Vanish(m)
      PROVE  HistoryInv'
  <2>1. HistoryTypes' /\ Finding'
    BY <1>3 DEF Vanish, HistoryTypes, Finding, Upto
  <2>2. Counting'
    BY <1>3, Zenon DEF Vanish, Counting, RequestsCapped, MaximumRequests
  <2>3. QED
    BY <2>1, <2>2, Zenon
<1>4. QED
  BY <1>1, <1>2, <1>3, Zenon

\* The messages of consecutive history ids are finitely many.
LEMMA FiniteRun ==
    ASSUME NEW l, NEW t \in Int, NEW n \in Int
    PROVE  IsFiniteSet({l[t + i] : i \in 1 .. n})
<1> DEFINE T == {l[t + i] : i \in 1 .. n}
           f == [i \in 1 .. n |-> l[t + i]]
<1>1. f \in [1 .. n -> T] /\ \A x \in T : \E i \in 1 .. n : f[i] = x
  OBVIOUS
<1>2. f \in Surjection(1 .. n, T)
  <2> HIDE DEF f, T
  <2>1. QED
    BY <1>1, Zenon DEF Surjection
<1>3. IsFiniteSet(1 .. n)
  BY FS_Interval
<1>4. QED
  BY <1>2, <1>3, FS_Surjection

\* Consecutive history ids are a sequence of numbers.
LEMMA Numbers ==
    ASSUME NEW t \in Nat, NEW n \in Nat
    PROVE  [i \in 1 .. n |-> t + i] \in Seq(Nat)
OBVIOUS

\* Page p has the records up to history id end, and a token that fits or was seen.
PageTo(p, end) ==
    /\ p.records = [i \in 1 .. end - token |-> token + i]
    /\ \/ p.next \in seenTokens
       \/ end < Len(log) /\ p.next = end
       \/ end = Len(log) /\ p.next = -1

\* Every page of the provider, wrong ones included, either fails the comparison of
\* its records or is of this form.
LEMMA PageForm ==
    ASSUME HistoryInv, step = "history",
           NEW p \in OddPages(token) \cup {HonestPage(token)}
    PROVE  /\ p.history \in 0 .. Len(log)
           /\ ~Increasing(p.records) \/ \E end \in token .. Len(log) : PageTo(p, end)
<1> USE HistoryConstants
<1>1. PICK end : end = IF token + PageSize < Len(log) THEN token + PageSize ELSE Len(log)
  OBVIOUS
<1>2. token \in Nat /\ Len(log) \in Nat /\ token <= Len(log) /\ last \in [record : Nat, history : Nat]
  BY DEF HistoryInv, HistoryTypes, Finding
<1>3. end \in token .. Len(log) /\ (end < Len(log) \/ end = Len(log))
  BY <1>1, <1>2
<1>4. PICK h : h = HonestPage(token)
  OBVIOUS
<1>5. h = [records |-> [i \in 1 .. end - token |-> token + i], history |-> Len(log),
           next |-> IF end < Len(log) THEN end ELSE -1]
  BY <1>1, <1>4, Zenon DEF HonestPage
<1>6. PageTo(h, end) /\ h.history = Len(log)
  BY <1>2, <1>3, <1>5, Zenon DEF PageTo
<1>7. CASE p = h
  BY <1>2, <1>3, <1>6, <1>7
<1>8. CASE \E s \in seenTokens : p = [h EXCEPT !.next = s]
  <2>1. PICK s \in seenTokens : p = [h EXCEPT !.next = s]
    BY <1>8, Zenon
  <2>2. p.records = h.records /\ p.history = h.history /\ p.next = s
    BY <1>5, <2>1, Zenon
  <2>3. PageTo(p, end)
    BY <1>6, <2>2, Zenon DEF PageTo
  <2>4. QED
    BY <1>2, <1>3, <1>6, <2>2, <2>3
<1>9. CASE \E i \in 0 .. Len(log) - 1 : p = [h EXCEPT !.history = i]
  <2>1. PICK i \in 0 .. Len(log) - 1 : p = [h EXCEPT !.history = i]
    BY <1>9, Zenon
  <2>2. p.records = h.records /\ p.history = i /\ p.next = h.next
    BY <1>5, <2>1, Zenon
  <2>3. PageTo(p, end)
    BY <1>6, <2>2, Zenon DEF PageTo
  <2>4. QED
    BY <1>2, <1>3, <2>2, <2>3
<1>10. CASE p = [h EXCEPT !.records = <<last.record>> \o @]
  <2>1. p.records = <<last.record>> \o h.records /\ p.history = h.history
    BY <1>5, <1>10, Zenon
  <2>2. h.records \in Seq(Nat)
    <3>1. end - token \in Nat
      BY <1>2, <1>3
    <3>2. QED
      BY <1>2, <1>5, <3>1
  <2>3. 1 \in DOMAIN p.records /\ p.records[1] = last.record
    <3>1. PICK q, r : q = h.records /\ r = last.record
      OBVIOUS
    <3>2. q \in Seq(Nat) /\ <<r>> \in Seq(Nat) /\ Len(<<r>>) = 1 /\ <<r>>[1] = r
      BY <1>2, <2>2, <3>1
    <3>3. (<<r>> \o q)[1] = r /\ 1 \in DOMAIN (<<r>> \o q)
      BY <3>2
    <3>4. QED
      BY <2>1, <3>1, <3>3, Zenon
  <2>4. ~Increasing(p.records)
    <3>1. PICK q, r : q = p.records /\ r = last.record
      OBVIOUS
    <3>2. r \in Nat /\ q[1] = r /\ 1 \in DOMAIN q /\ ~(q[1] > r)
      BY <1>2, <2>3, <3>1
    <3>3. QED
      BY <3>1, <3>2, Zenon DEF Increasing
  <2>5. QED
    BY <1>2, <1>6, <2>1, <2>4
<1>11. QED
  BY <1>4, <1>7, <1>8, <1>9, <1>10, Zenon DEF OddPages

\* HistoryPage: a page that is not sound ends the call; one that is has the messages
\* up to where the next one starts, or up to the end of the history.
LEMMA PageStep ==
    ASSUME HistoryInv, Page
    PROVE  HistoryInv'
<1> USE HistoryConstants
<1>a. PICK p \in OddPages(token) \cup {HonestPage(token)} : HistoryPage(p)
  <2>1. PICK h : h = HonestPage(token)
    OBVIOUS
  <2>2. QED
    BY <2>1, Zenon DEF Page
<1>b. step = "history" /\ Asking
  BY <1>a, Zenon DEF HistoryPage, Asking
<1>c. /\ requests' = requests + 1 /\ attempt' = 0
      /\ UNCHANGED <<log, vanished, cursor, read, gone>>
  BY <1>a, Zenon DEF HistoryPage, mailbox
<1>d. /\ log \in Seq(MessageIDs) /\ Len(log) \in Nat /\ cursor \in 0 .. Len(log)
      /\ page \in 1 .. MaximumPages /\ requests \in Nat
      /\ token \in cursor .. Len(log) /\ -1 \notin seenTokens /\ seenTokens \subseteq Int
      /\ Upto(token) \subseteq found /\ read \cup gone = {} /\ IsFiniteSet(found)
      /\ last \in [record : Nat, history : Nat]
  BY <1>b DEF HistoryInv, HistoryTypes, Finding, Counting
<1>e. Cardinality(read' \cup gone') = 0
  BY <1>c, <1>d, FS_EmptySet, Zenon
<1>f. /\ RequestsCapped'
      /\ requests' <= 1 + MaximumAttempts * page
  <2>1. /\ requests' <= MaximumRequests
        /\ requests' <= 1 + MaximumAttempts * ((page - 1) + Cardinality(read \cup gone) + 1)
    BY <1>b, <1>c, AskingRoom, Zenon
  <2>2. (page - 1) + Cardinality(read \cup gone) + 1 = page
    BY <1>c, <1>d, <1>e
  <2>3. QED
    BY <2>1, <2>2, Zenon DEF RequestsCapped, MaximumRequests
<1>1. PICK more : more = found \cup {log[p.records[i]] : i \in DOMAIN p.records}
  OBVIOUS
<1>2. CASE ~Sound(p) \/ Cardinality(more) > MaximumMessages
  <2>1. step' = "failed" /\ UNCHANGED reading
    BY <1>a, <1>1, <1>2, Zenon DEF HistoryPage
  <2>2. HistoryTypes'
    BY <1>c, <1>d, <2>1 DEF HistoryInv, HistoryTypes, Ended, reading
  <2>3. Finding'
    BY <1>c, <2>1, Zenon DEF HistoryInv, Finding, reading
  <2>4. QED
    BY <1>f, <2>1, <2>2, <2>3, Zenon DEF HistoryInv, Counting
<1>3. CASE Sound(p) /\ ~(Cardinality(more) > MaximumMessages)
  <2>1. /\ found' = more
        /\ last' = [record |-> LastRecord(p.records), history |-> p.history]
        /\ step' \in Continue(p)
        /\ token' = p.next /\ seenTokens' = seenTokens \cup {p.next} /\ page' = page + 1
    BY <1>a, <1>1, <1>3, Zenon DEF HistoryPage
  <2>2. PICK end \in token .. Len(log) : PageTo(p, end)
    BY <1>b, <1>3, PageForm, Zenon DEF Sound
  <2>3. p.history \in 0 .. Len(log)
    BY <1>b, PageForm, Zenon
  <2>4. more = found \cup {log[token + i] : i \in 1 .. end - token}
    BY <1>1, <2>2 DEF PageTo
  <2>5. IsFiniteSet(more) /\ Cardinality(more) <= MaximumMessages
    <3>1. IsFiniteSet({log[token + i] : i \in 1 .. end - token})
      <4>1. PICK l, t, n : l = log /\ t = token /\ n = end - token
        OBVIOUS
      <4>2. t \in Int /\ n \in Int
        BY <1>d, <4>1
      <4>3. QED
        BY <4>1, <4>2, FiniteRun, Zenon
    <3>2. IsFiniteSet(more)
      BY <1>d, <2>4, <3>1, FS_Union, Zenon
    <3>3. QED
      BY <1>3, <3>2, FS_CardinalityType
  <2>6. {log[j] : j \in cursor + 1 .. end} \subseteq more
    <3>1. SUFFICES ASSUME NEW j \in cursor + 1 .. end
                   PROVE  log[j] \in more
      OBVIOUS
    <3>2. CASE j <= token
      BY <1>d, <2>4, <3>2 DEF Upto
    <3>3. CASE j > token
      <4>1. j - token \in 1 .. end - token /\ token + (j - token) = j
        BY <1>d, <3>3
      <4>2. QED
        BY <2>4, <4>1, Zenon
    <3>4. QED
      BY <1>d, <3>2, <3>3
  <2>7. LastRecord(p.records) \in Nat /\ LastRecord(p.records) <= p.history
    <3>1. p.records \in Seq(Nat)
      <4>1. end - token \in Nat
        BY <1>d
      <4>2. PICK t, n : t = token /\ n = end - token
        OBVIOUS
      <4>3. t \in Nat /\ n \in Nat /\ p.records = [i \in 1 .. n |-> t + i]
        BY <1>d, <2>2, <4>1, <4>2 DEF PageTo
      <4>4. QED
        BY <4>3, Numbers
    <3>2. PICK r : r = p.records
      OBVIOUS
    <3>3. r # <<>> => r[Len(r)] \in Nat
      BY <3>1, <3>2
    <3>4. QED
      BY <1>d, <1>3, <2>3, <3>2, <3>3, Zenon DEF LastRecord, Sound
  <2>8. /\ p.next \in Int
        /\ step' \in {"messages", "nothing", "failed"} \/ (step' = "history" /\ p.next = end
                                                  /\ end < Len(log) /\ page # MaximumPages)
        /\ step' = "messages" => p.next = -1 /\ end = Len(log)
    <3>1. /\ p.next \in Int
          /\ p.next = -1 => end = Len(log)
          /\ p.next # -1 => p.next \in seenTokens \/ (p.next = end /\ end < Len(log))
      <4>1. PICK x, n : x = p.next /\ n = Len(log)
        OBVIOUS
      <4>2. /\ x \in seenTokens \/ (end < n /\ x = end) \/ (end = n /\ x = -1)
            /\ -1 \notin seenTokens /\ seenTokens \subseteq Int /\ end \in Nat
        BY <1>d, <2>2, <4>1 DEF PageTo
      <4>3. CASE x \in seenTokens
        <5>1. x \in Int /\ x # -1
          BY <4>2, <4>3, Zenon
        <5>2. QED
          BY <4>1, <4>3, <5>1, Zenon
      <4>4. CASE x \notin seenTokens
        <5>1. (end < n /\ x = end) \/ (end = n /\ x = -1)
          BY <4>2, <4>4, Zenon
        <5>2. x \in Int /\ (x = -1 => end = n)
          BY <4>2, <5>1
        <5>3. QED
          BY <4>1, <5>1, <5>2, Zenon
      <4>5. QED
        BY <4>3, <4>4, Zenon
    <3>2. CASE p.next = -1
      BY <2>1, <3>1, <3>2, Zenon DEF Continue, Compared
    <3>3. CASE p.next # -1
      BY <2>1, <3>1, <3>3, Zenon DEF Continue
    <3>4. QED
      BY <3>1, <3>2, <3>3, Zenon
  <2>9. HistoryTypes'
    <3>1. last' \in [record : Nat, history : Nat]
      BY <2>1, <2>3, <2>7
    <3>2. seenTokens' \subseteq Int /\ IsFiniteSet(found')
      BY <1>d, <2>1, <2>5, <2>8, Zenon
    <3>3. step' \in {"refresh", "history", "messages"} \cup Ended
      BY <2>8, Zenon DEF Ended
    <3>4. page' \in Nat \ {0} /\ attempt' \in 0 .. MaximumAttempts - 1 /\ requests' \in Nat
      BY <1>c, <1>d, <2>1
    <3>5. QED
      BY <1>c, <1>d, <3>1, <3>2, <3>3, <3>4, Zenon DEF HistoryTypes
  <2>10. Finding'
    <3>1. read' \cup gone' = {} /\ gone' = {}
      BY <1>c, <1>d, Zenon
    <3>2. last'.record <= last'.history /\ last'.history <= Len(log')
      BY <1>c, <2>1, <2>3, <2>7
    <3>3. ASSUME step' \in {"refresh", "history"}
          PROVE  /\ token' \in cursor' .. Len(log') /\ -1 \notin seenTokens'
                 /\ Upto(token)' \subseteq found'
      <4>1. p.next = end /\ end < Len(log)
        BY <2>8, <3>3, Zenon
      <4>2. token' = end /\ seenTokens' = seenTokens \cup {end}
        BY <2>1, <4>1, Zenon
      <4>3. QED
        BY <1>c, <1>d, <2>1, <2>6, <4>1, <4>2 DEF Upto
    <3>4. ASSUME step' \in {"messages", "commit"}
          PROVE  Upto(last.history)' \subseteq found'
      <4>1. end = Len(log) /\ last'.history = p.history
        BY <2>1, <2>8, <3>4, Zenon
      <4>2. QED
        BY <1>c, <1>d, <2>1, <2>3, <2>6, <4>1 DEF Upto
    <3>5. step' # "commit"
      BY <2>8, Zenon
    <3>6. QED
      BY <3>1, <3>2, <3>3, <3>4, <3>5, Zenon DEF Finding
  <2>11. Counting'
    <3>1. step' # "refresh" /\ (step' = "history" => page' <= MaximumPages)
      BY <1>d, <2>1, <2>8
    <3>2. page' - 1 = page /\ page <= MaximumPages
      BY <1>d, <2>1
    <3>3. Cardinality(found') <= MaximumMessages
      BY <2>1, <2>5, Zenon
    <3>4. (page' - 1) + Cardinality(read' \cup gone') = page
      BY <1>d, <1>e, <3>2
    <3>5. MaximumAttempts * page \in Int
      BY <1>d
    <3>6. requests' <= 1 + MaximumAttempts * ((page' - 1) + Cardinality(read' \cup gone')) + attempt'
      <4>1. requests' <= 1 + MaximumAttempts * page + attempt'
        BY <1>c, <1>f, <3>5
      <4>2. QED
        BY <3>4, <4>1, Zenon
    <3>7. QED
      BY <1>f, <3>1, <3>2, <3>3, <3>6, Zenon DEF Counting
  <2>12. QED
    BY <2>9, <2>10, <2>11, Zenon DEF HistoryInv
<1>4. QED
  BY <1>2, <1>3, Zenon

\* HistoryInv holds in every state of a Discover, whatever the mailbox and the
\* provider do meanwhile.
LEMMA HistoryInvariant == HistorySpec => []HistoryInv
<1> USE HistoryConstants
<1>1. HistoryInit => HistoryInv
  <2> SUFFICES ASSUME HistoryInit
               PROVE  HistoryInv
    OBVIOUS
  <2>1. log \in Seq(MessageIDs)
    BY LogType, Zenon DEF HistoryInit
  <2>2. IsFiniteSet(found) /\ Len(log) \in Nat
    BY <2>1, FS_EmptySet DEF HistoryInit
  <2>3. HistoryTypes
    BY <2>1, <2>2 DEF HistoryInit, HistoryTypes
  <2>4. Finding
    BY <2>2, <2>3 DEF HistoryInit, HistoryTypes, Finding, Upto
  <2>5. Counting
    <3>1. MaximumAttempts * (MaximumPages + MaximumMessages) \in Nat
      BY SMT
    <3>2. QED
      BY <3>1 DEF HistoryInit, Counting, RequestsCapped, MaximumRequests
  <2>6. QED
    BY <2>3, <2>4, <2>5, Zenon DEF HistoryInv
<1>2. HistoryInv /\ [HistoryNext]_historyVars => HistoryInv'
  <2> SUFFICES ASSUME HistoryInv, [HistoryNext]_historyVars
               PROVE  HistoryInv'
    OBVIOUS
  <2>1. CASE HistoryNext
    BY <2>1, RefreshStep, PageStep, MessageStep, AnswerlessStep, QuietStep, Zenon DEF HistoryNext, Ask
  <2>2. CASE UNCHANGED historyVars
    <3>1. HistoryTypes' /\ Finding'
      BY <2>2 DEF historyVars, HistoryInv, HistoryTypes, Finding, Upto
    <3>2. Counting'
      BY <2>2, Zenon DEF historyVars, HistoryInv, Counting, RequestsCapped, MaximumRequests
    <3>3. QED
      BY <3>1, <3>2, Zenon DEF HistoryInv
  <2>3. QED
    BY <2>1, <2>2, Zenon
<1>3. QED
  BY <1>1, <1>2, PTL DEF HistorySpec

\* A commit has every message up to its cursor, although mail arrives between the
\* pages and pages may be wrong, and its cursor is behind none that it has: for any
\* page size and any bounds on pages, messages and attempts (readHistory, readMessage).
THEOREM CommitSound == HistorySpec => []CommitIsSound
<1>1. HistoryInv => CommitIsSound
  <2> SUFFICES ASSUME HistoryInv
               PROVE  CommitIsSound
    OBVIOUS
  <2>1. CommitIsComplete
    BY Zenon DEF HistoryInv, Finding, CommitIsComplete, Upto
  <2>2. CursorCoversFound
    BY DEF HistoryInv, HistoryTypes, Finding, CursorCoversFound
  <2>3. QED
    BY <2>1, <2>2, Zenon DEF CommitIsSound
<1>2. QED
  BY <1>1, HistoryInvariant, PTL

\* A Discover makes at most 1 + attempts * (pages + messages) requests, for any of
\* these bounds, although no counter of them exists (MaximumProviderRequestAttempts).
THEOREM RequestsAreCapped == HistorySpec => []RequestsCapped
<1>1. HistoryInv => RequestsCapped
  BY Zenon DEF HistoryInv, Counting
<1>2. QED
  BY <1>1, HistoryInvariant, PTL

-----------------------------------------------------------------------------
(* The review, for any rows, requests, bounds and changes. *)

\* A set of numbers that is not empty has a least one.
LEMMA LeastExists ==
    ASSUME NEW S \in SUBSET Nat, S # {}
    PROVE  \E i \in S : \A j \in S : i <= j
<1>1. \E i \in S : \A j \in S : ~(<<j, i>> \in OpToRel(<, Nat))
  BY WFMin, NatLessThanWellFounded, Zenon
<1>2. PICK i \in S : \A j \in S : ~(<<j, i>> \in OpToRel(<, Nat))
  BY <1>1, Zenon
<1>3. ASSUME NEW j \in S PROVE i <= j
  <2>1. ~(<<j, i>> \in OpToRel(<, Nat)) /\ i \in Nat /\ j \in Nat
    BY <1>2, Zenon
  <2> QED
    BY <2>1 DEF OpToRel
<1> QED
  BY <1>3, Zenon

\* Subsets of a finite set are finite and not larger.
LEMMA Smaller ==
    ASSUME NEW S, NEW T, IsFiniteSet(S), T \subseteq S
    PROVE  /\ IsFiniteSet(T) /\ Cardinality(T) \in Nat /\ Cardinality(S) \in Nat
           /\ Cardinality(T) <= Cardinality(S)
           /\ Cardinality(S) = Cardinality(T) => S = T
<1>1. /\ IsFiniteSet(T) /\ Cardinality(T) <= Cardinality(S)
      /\ Cardinality(S) = Cardinality(T) => S = T
  BY FS_Subset, Zenon
<1> QED
  BY <1>1, FS_CardinalityType, Zenon

\* A finite set of numbers that is not empty has a greatest one.
LEMMA GreatestExists ==
    ASSUME NEW S \in SUBSET Nat, IsFiniteSet(S), S # {}
    PROVE  Max(S) \in S /\ \A j \in S : j <= Max(S)
<1> DEFINE Above(x) == {y \in S : y > x}
           N == {Cardinality(Above(x)) : x \in S}
<1>1. ASSUME NEW x \in S PROVE IsFiniteSet(Above(x)) /\ Cardinality(Above(x)) \in Nat
  <2>1. Above(x) \subseteq S
    BY Zenon
  <2> HIDE DEF Above
  <2> QED
    BY <2>1, Smaller, Zenon
<1>2. PICK x \in S : \A z \in S : Cardinality(Above(x)) <= Cardinality(Above(z))
  <2> HIDE DEF Above
  <2>1. N \in SUBSET Nat /\ N # {}
    BY <1>1, Zenon
  <2> HIDE DEF N
  <2>2. PICK n \in N : \A m \in N : n <= m
    BY <2>1, LeastExists, Zenon
  <2> QED
    BY <2>2, Zenon DEF N
<1>3. ASSUME NEW y \in S, ~(y <= x) PROVE FALSE
  <2>1. y \in Nat /\ x \in Nat /\ y > x /\ ~(y > y)
    BY <1>3
  <2>5. ASSUME NEW z \in S, z > y PROVE z > x
    BY <2>1, <2>5
  <2>2. Above(y) \subseteq Above(x) /\ y \in Above(x) /\ y \notin Above(y)
    BY <2>1, <2>5, Zenon
  <2> HIDE DEF Above
  <2>3. Cardinality(Above(y)) < Cardinality(Above(x))
    <3>1. /\ Cardinality(Above(y)) \in Nat /\ Cardinality(Above(x)) \in Nat
          /\ Cardinality(Above(y)) <= Cardinality(Above(x))
          /\ Cardinality(Above(x)) # Cardinality(Above(y))
      BY <1>1, <2>2, Smaller, Zenon
    <3> QED
      BY <3>1
  <2>4. Cardinality(Above(x)) <= Cardinality(Above(y))
    BY <1>2, Zenon
  <2> QED
    BY <1>1, <2>3, <2>4
<1>4. \A y \in S : x >= y
  BY <1>3, Zenon
<1>5. Max(S) \in S /\ \A y \in S : Max(S) >= y
  BY <1>4, Zenon DEF Max
<1> QED
  BY <1>5, Zenon

\* The lowest rows of a set: with a row every row before it.
LEMMA LowestDown ==
    ASSUME NEW S \in SUBSET Nat, IsFiniteSet(S), NEW n \in Nat, NEW m \in Lowest(S, n),
           NEW k \in S, k <= m
    PROVE  k \in Lowest(S, n)
<1> DEFINE K == {j \in S : j < k}
           M == {j \in S : j < m}
<1>1. m \in S /\ Cardinality(M) < n
  BY Zenon DEF Lowest
<1>2. K \subseteq M
  <2>1. ASSUME NEW j \in S, j < k PROVE j < m
    BY <1>1, <2>1
  <2> QED
    BY <2>1, Zenon
<1>3. M \subseteq S
  BY Zenon
<1> HIDE DEF K, M
<1>4. Cardinality(K) \in Nat /\ Cardinality(M) \in Nat /\ Cardinality(K) <= Cardinality(M)
  BY <1>2, <1>3, Smaller, Zenon
<1>5. Cardinality(K) < n
  BY <1>1, <1>4
<1> QED
  BY <1>5, Zenon DEF Lowest, K

\* List stops at a row: with it every row before it was scanned.
LEMMA ScanDown ==
    ASSUME NEW rq, rq.size \in Nat, NEW S \in SUBSET Nat, IsFiniteSet(S), NEW m \in Scan(rq, S),
           NEW k \in S, k <= m
    PROVE  k \in Scan(rq, S)
<1> DEFINE K == {j \in S : j < k /\ Kept(rq, j)}
           M == {j \in S : j < m /\ Kept(rq, j)}
<1>1. m \in Lowest(S, ScanRows) /\ m \in S /\ Cardinality(M) < rq.size
  BY Zenon DEF Lowest, Scan
<1>2. K \subseteq M
  <2>1. ASSUME NEW j \in S, j < k PROVE j < m
    BY <1>1, <2>1
  <2> QED
    BY <2>1, Zenon
<1>3. M \subseteq S
  BY Zenon
<1> HIDE DEF K, M
<1>4. Cardinality(K) \in Nat /\ Cardinality(M) \in Nat /\ Cardinality(K) <= Cardinality(M)
  BY <1>2, <1>3, Smaller, Zenon
<1>5. Cardinality(K) < rq.size
  BY <1>1, <1>4
<1>6. k \in Lowest(S, ScanRows)
  BY <1>1, LowestDown, ReviewConstants, Zenon
<1> QED
  BY <1>5, <1>6, Zenon DEF Scan, K

\* The first row is always scanned.
LEMMA FirstScanned ==
    ASSUME NEW rq, rq.size \in Nat \ {0}, NEW S \in SUBSET Nat, IsFiniteSet(S), S # {},
           NEW n \in Nat \ {0}
    PROVE  Lowest(S, n) # {} /\ Scan(rq, S) # {}
<1>1. PICK i \in S : \A j \in S : i <= j
  BY LeastExists, Zenon
<1>2. ASSUME NEW j \in S, j < i PROVE FALSE
  <2>1. i <= j /\ i \in Nat /\ j \in Nat
    BY <1>1, Zenon
  <2> QED
    BY <1>2, <2>1
<1>3. {j \in S : j < i} = {} /\ {j \in S : j < i /\ Kept(rq, j)} = {}
  BY <1>2, Zenon
<1>4. 0 < n /\ 0 < rq.size /\ 0 < ScanRows
  BY ReviewConstants
<1>5. i \in Lowest(S, n) /\ i \in Lowest(S, ScanRows)
  BY <1>3, <1>4, FS_EmptySet, Zenon DEF Lowest
<1> QED
  BY <1>3, <1>4, <1>5, FS_EmptySet, Zenon DEF Scan

\* The statement asks for one row more than are scanned: when all that it found are
\* scanned, it found all there are (ListReviewCandidates).
LEMMA NoneLeft ==
    ASSUME NEW A \in SUBSET Nat, IsFiniteSet(A), NEW n \in Nat,
           NEW source, source = Lowest(A, n + 1), source \subseteq Lowest(source, n)
    PROVE  A \subseteq source
<1> SUFFICES ASSUME A \ source # {} PROVE FALSE
  BY Zenon
<1>1. PICK m \in A \ source : \A j \in A \ source : m <= j
  <2>1. A \ source \in SUBSET Nat
    BY Zenon
  <2> QED
    BY <2>1, LeastExists, Zenon
<1> DEFINE P == {j \in A : j < m}
<1>2. P \subseteq source
  <2>1. ASSUME NEW j \in A, j < m, j \notin source PROVE FALSE
    <3>1. m <= j /\ m \in Nat /\ j \in Nat
      BY <1>1, <2>1, Zenon
    <3> QED
      BY <2>1, <3>1
  <2> QED
    BY <2>1, Zenon
<1>3. P \subseteq A /\ source \subseteq A
  BY Zenon DEF Lowest
<1>4. ~(Cardinality(P) < n + 1)
  BY <1>1, Zenon DEF Lowest
<1> HIDE DEF P
<1>5. IsFiniteSet(P) /\ Cardinality(P) \in Nat /\ P \in SUBSET Nat
  BY <1>3, Smaller, Zenon
<1>6. P # {}
  <2>1. Cardinality(P) # 0
    BY <1>4, <1>5
  <2> QED
    BY <2>1, FS_EmptySet, Zenon
<1>7. PICK x \in P : \A j \in P : j <= x
  BY <1>5, <1>6, GreatestExists, Zenon
<1> DEFINE B == {j \in source : j < x}
<1>8. P \ {x} \subseteq B
  <2>1. ASSUME NEW j \in P, j # x PROVE j < x
    <3>1. j <= x /\ j \in Nat /\ x \in Nat
      BY <1>5, <1>7, Zenon
    <3> QED
      BY <2>1, <3>1
  <2> QED
    BY <1>2, <2>1, Zenon
<1>9. B \subseteq A
  BY <1>3, Zenon
<1>10. Cardinality(B) < n
  BY <1>2, <1>7, Zenon DEF Lowest
<1> HIDE DEF B
<1>11. /\ Cardinality(P \ {x}) = Cardinality(P) - 1
       /\ Cardinality(P \ {x}) <= Cardinality(B) /\ Cardinality(B) \in Nat
  <2>1. IsFiniteSet(B)
    BY <1>9, Smaller, Zenon
  <2>2. Cardinality(P \ {x}) <= Cardinality(B) /\ Cardinality(B) \in Nat
    BY <1>8, <2>1, Smaller, Zenon
  <2> QED
    BY <1>5, <1>7, <2>2, FS_RemoveElement, Zenon
<1> QED
  BY <1>4, <1>5, <1>10, <1>11

KeysOf(s) == UNION {s[i] : i \in DOMAIN s}
Ascending(s) == \A i, j \in DOMAIN s : i < j => \A a \in s[i], b \in s[j] : a < b

\* One more page: its keys are added, and when they are all above the ones before,
\* the pages still ascend.
LEMMA PageAdded ==
    ASSUME NEW s \in Seq(SUBSET Keys), NEW p \in SUBSET Keys
    PROVE  /\ Append(s, p) \in Seq(SUBSET Keys)
           /\ KeysOf(Append(s, p)) = KeysOf(s) \cup p
           /\ Ascending(s) /\ (\A a \in KeysOf(s), b \in p : a < b) => Ascending(Append(s, p))
<1>1. PICK t, n : t = Append(s, p) /\ n = Len(s)
  BY Zenon
<1>2. n \in Nat /\ DOMAIN s = 1 .. n
  BY <1>1
<1>3. t \in Seq(SUBSET Keys) /\ DOMAIN t = 1 .. n + 1
  BY <1>1
<1>4. \A i \in 1 .. n : t[i] = s[i]
  BY <1>1
<1>5. t[n + 1] = p
  BY <1>1
<1>6. ASSUME NEW i \in 1 .. n + 1 PROVE i \in 1 .. n \/ i = n + 1
  BY <1>2
<1>7. n + 1 \in 1 .. n + 1 /\ \A i \in 1 .. n : i \in 1 .. n + 1
  BY <1>2
<1>8. KeysOf(t) = KeysOf(s) \cup p
  <2>1. ASSUME NEW i \in 1 .. n + 1, NEW k \in t[i] PROVE k \in KeysOf(s) \cup p
    BY <1>2, <1>4, <1>5, <1>6, Zenon DEF KeysOf
  <2>2. ASSUME NEW i \in 1 .. n, NEW k \in s[i] PROVE k \in KeysOf(t)
    BY <1>3, <1>4, <1>7, Zenon DEF KeysOf
  <2>3. ASSUME NEW k \in p PROVE k \in KeysOf(t)
    BY <1>3, <1>5, <1>7, Zenon DEF KeysOf
  <2>4. \A k : k \in KeysOf(t) <=> k \in KeysOf(s) \cup p
    <3>1. ASSUME NEW k, k \in KeysOf(t) PROVE k \in KeysOf(s) \cup p
      <4>1. PICK i \in DOMAIN t : k \in t[i]
        BY <3>1, Zenon DEF KeysOf
      <4> QED
        BY <1>3, <2>1, <4>1, Zenon
    <3>2. ASSUME NEW k, k \in KeysOf(s) PROVE k \in KeysOf(t)
      <4>1. PICK i \in DOMAIN s : k \in s[i]
        BY <3>2, Zenon DEF KeysOf
      <4> QED
        BY <1>2, <2>2, <4>1, Zenon
    <3> QED
      BY <2>3, <3>1, <3>2, Zenon
  <2> QED
    BY <2>4, Zenon
<1>9. ASSUME Ascending(s), \A a \in KeysOf(s), b \in p : a < b PROVE Ascending(t)
  <2> SUFFICES ASSUME NEW i \in 1 .. n + 1, NEW j \in 1 .. n + 1, i < j, NEW a \in t[i], NEW b \in t[j]
               PROVE  a < b
    BY <1>3, Zenon DEF Ascending
  <2>1. i \in 1 .. n
    BY <1>2
  <2>2. a \in s[i] /\ a \in KeysOf(s)
    BY <1>2, <1>4, <2>1, Zenon DEF KeysOf
  <2>3. CASE j \in 1 .. n
    BY <1>2, <1>4, <1>9, <2>1, <2>2, <2>3, Zenon DEF Ascending
  <2>4. CASE j = n + 1
    BY <1>5, <1>9, <2>2, <2>4, Zenon
  <2> QED
    BY <1>6, <2>3, <2>4, Zenon
<1> QED
  BY <1>1, <1>3, <1>8, <1>9, Zenon

\* The inductive invariant of a walk: between two pages everything shown lies up to the
\* cursor, and every candidate that stayed and lies up to the cursor was shown.
ReviewInv ==
    /\ request \in Queries /\ pageCursor.key \in Nat
    /\ seen \in Seq(SUBSET Keys)
    /\ steady \subseteq {k \in Keys : Matches(request, k)}
    /\ walk = "idle" => seen = <<>> /\ pageCursor = NoCursor
    /\ walk = "walking" => /\ \A k \in Walked : k <= pageCursor.key
                           /\ \A k \in steady : k <= pageCursor.key => k \in Walked
    /\ EachOnce /\ SteadyAreSeen

\* One call of List: what it scans begins right after the cursor and leaves no row out,
\* and when it returns no cursor there is no row after what it scanned.
LEMMA ScannedIs ==
    ASSUME ReviewInv, NEW A, NEW source, NEW scanned,
           A = {k \in Keys : Chosen(request, k) /\ k > pageCursor.key},
           source = SourceRows(request, pageCursor.key), scanned = Scan(request, source)
    PROVE  /\ scanned \subseteq A
           /\ scanned # {} => /\ Max(scanned) \in scanned
                              /\ \A k \in scanned : k <= Max(scanned)
                              /\ \A k \in A : k <= Max(scanned) => k \in scanned
           /\ scanned = {} \/ source = scanned => A \subseteq scanned
<1>1. A \in SUBSET Nat /\ IsFiniteSet(A) /\ ScanRows \in Nat /\ ScanRows + 1 \in Nat \ {0}
  <2>1. A \subseteq Keys /\ Keys \subseteq Nat /\ IsFiniteSet(Keys)
    BY ReviewConstants, Zenon
  <2>2. ScanRows \in Nat /\ ScanRows + 1 \in Nat \ {0}
    BY ReviewConstants
  <2> QED
    BY <2>1, <2>2, Smaller, Zenon
<1>2. source = Lowest(A, ScanRows + 1) /\ source \subseteq A
  BY Zenon DEF SourceRows, Lowest
<1>3. source \in SUBSET Nat /\ IsFiniteSet(source)
  BY <1>1, <1>2, Smaller, Zenon
<1>4. scanned \subseteq Lowest(source, ScanRows) /\ scanned \subseteq source
  BY Zenon DEF Scan, Lowest
<1>5. scanned \in SUBSET Nat /\ IsFiniteSet(scanned)
  BY <1>3, <1>4, Smaller, Zenon
<1>6. request.size \in Nat \ {0} /\ request.size \in Nat
  BY ReviewConstants, Zenon DEF ReviewInv
<1>7. ASSUME scanned # {}
      PROVE  /\ Max(scanned) \in scanned
             /\ \A k \in scanned : k <= Max(scanned)
             /\ \A k \in A : k <= Max(scanned) => k \in scanned
  <2>1. PICK m : m = Max(scanned)
    BY Zenon
  <2>2. m \in scanned /\ \A k \in scanned : k <= m
    BY <1>5, <1>7, <2>1, GreatestExists, Zenon
  <2>3. ASSUME NEW k \in A, k <= m PROVE k \in scanned
    <3>1. k \in source
      <4>1. m \in Lowest(A, ScanRows + 1)
        BY <1>2, <1>4, <2>2, Zenon
      <4>2. ScanRows + 1 \in Nat
        BY <1>1, Zenon
      <4>3. k \in Lowest(A, ScanRows + 1)
        BY <1>1, <2>3, <4>1, <4>2, LowestDown, Zenon
      <4> QED
        BY <1>2, <4>3, Zenon
    <3> QED
      BY <1>3, <1>6, <2>2, <2>3, <3>1, ScanDown, Zenon
  <2> QED
    BY <2>1, <2>2, <2>3, Zenon
<1>8. ASSUME scanned = {} PROVE A \subseteq scanned
  <2>1. source = {}
    BY <1>1, <1>3, <1>6, <1>8, FirstScanned, Zenon
  <2>2. A = {}
    <3>1. Lowest(A, ScanRows + 1) = {}
      BY <1>2, <2>1, Zenon
    <3> QED
      BY <1>1, <1>6, <3>1, FirstScanned, Zenon
  <2> QED
    BY <2>2, Zenon
<1>9. ASSUME source = scanned PROVE A \subseteq scanned
  BY <1>1, <1>2, <1>4, <1>9, NoneLeft, Zenon
<1> QED
  BY <1>2, <1>4, <1>7, <1>8, <1>9, Zenon

\* A key matches as before when neither the rows nor the policy nor the request change.
LEMMA MatchesKept ==
    ASSUME UNCHANGED <<rows, policy, request>>
    PROVE  \A k : Matches(request, k)' <=> Matches(request, k)
  BY Zenon DEF Matches, Chosen, Kept

\* A cursor that was encoded for a key of a row is not the one of a first page.
LEMMA EncodedIs ==
    ASSUME NEW k \in Nat \ {0}
    PROVE  Encode(k).key = k /\ Encode(k) # NoCursor
<1>1. Encode(k).key = k /\ NoCursor.key = 0
  BY Zenon DEF Encode, NoCursor
<1>2. k # 0
  OBVIOUS
<1> QED
  BY <1>1, <1>2, Zenon

\* A page of List, whether it is the last one or not.
LEMMA PageKeeps ==
    ASSUME ReviewInv, List, Accepts(pageCursor)
    PROVE  ReviewInv'
<1>1. PICK A, source, scanned, shown :
         /\ A = {k \in Keys : Chosen(request, k) /\ k > pageCursor.key}
         /\ source = SourceRows(request, pageCursor.key) /\ scanned = Scan(request, source)
         /\ shown = {k \in scanned : Kept(request, k)}
  BY Zenon
<1>2. /\ walk = "walking" /\ UNCHANGED <<rows, policy, start, request, steady, changes>>
      /\ seen' = IF shown = {} THEN seen ELSE Append(seen, shown)
      /\ pageCursor' = NextCursor(source, scanned, shown)
      /\ walk' = IF pageCursor' = NoCursor THEN "done" ELSE "walking"
  BY <1>1, Zenon DEF List
<1>3. /\ scanned \subseteq A
      /\ scanned # {} => /\ Max(scanned) \in scanned
                         /\ \A k \in scanned : k <= Max(scanned)
                         /\ \A k \in A : k <= Max(scanned) => k \in scanned
      /\ scanned = {} \/ source = scanned => A \subseteq scanned
  BY <1>1, ScannedIs, SMT
<1>4. /\ seen \in Seq(SUBSET Keys) /\ pageCursor.key \in Nat /\ request \in Queries
      /\ steady \subseteq {k \in Keys : Matches(request, k)}
      /\ \A k \in Walked : k <= pageCursor.key
      /\ \A k \in steady : k <= pageCursor.key => k \in Walked
      /\ EachOnce
  BY <1>2, Zenon DEF ReviewInv
<1>5. Keys \subseteq Nat \ {0}
  BY ReviewConstants, ZenonT(30)
<1>6. shown \in SUBSET Keys /\ Walked \subseteq Keys
  BY <1>1, <1>3, <1>4, PageAdded DEF Walked
<1>7. ASSUME NEW a \in Walked, NEW b \in A PROVE a < b
  <2>1. a <= pageCursor.key /\ b > pageCursor.key /\ a \in Nat /\ b \in Nat /\ pageCursor.key \in Nat
    BY <1>1, <1>4, <1>5, <1>6, Zenon
  <2> QED
    BY <2>1
<1>8. seen' \in Seq(SUBSET Keys) /\ Walked' = Walked \cup shown /\ EachOnce'
  <2>1. Walked = KeysOf(seen) /\ Walked' = KeysOf(seen') /\ (EachOnce <=> Ascending(seen)) /\ (EachOnce' <=> Ascending(seen'))
    BY Zenon DEF Walked, KeysOf, EachOnce, Ascending
  <2>2. shown \subseteq A
    BY <1>1, <1>3, Zenon
  <2>3. CASE shown = {}
    BY <1>2, <1>4, <2>1, <2>3, Zenon
  <2>4. CASE shown # {}
    <3>1. seen' = Append(seen, shown)
      BY <1>2, <2>4, Zenon
    <3> QED
      BY <1>4, <1>6, <1>7, <2>1, <2>2, <3>1, PageAdded, Zenon
  <2> QED
    BY <2>3, <2>4, Zenon
<1>9. request' \in Queries /\ steady' \subseteq {k \in Keys : Matches(request, k)}'
  BY <1>2, <1>4, MatchesKept, Zenon
<1>10. ASSUME NEW k \in steady, k \in scanned PROVE k \in Walked'
  BY <1>1, <1>4, <1>8, <1>10, Zenon DEF Matches
<1>11. ASSUME NEW k \in steady, k \notin Walked PROVE k \in A
  <2>1. ~(k <= pageCursor.key) /\ k \in Keys /\ Chosen(request, k)
    BY <1>4, <1>11, Zenon DEF Matches
  <2>2. k > pageCursor.key
    BY <1>4, <1>5, <2>1
  <2> QED
    BY <1>1, <2>1, <2>2, Zenon
<1>12. CASE scanned # {} /\ pageCursor' = Encode(Max(scanned))
  <2>1. PICK m : m = Max(scanned)
    BY Zenon
  <2>2. m \in A /\ m \in Nat \ {0} /\ \A k \in scanned : k <= m
    BY <1>1, <1>3, <1>5, <1>12, <2>1, Zenon
  <2>3. pageCursor'.key = m /\ pageCursor' # NoCursor
    BY <1>12, <2>1, <2>2, EncodedIs, Zenon
  <2>4. walk' = "walking"
    BY <1>2, <2>3, Zenon
  <2>5. ASSUME NEW k \in Walked' PROVE k <= m
    <3>1. CASE k \in Walked
      <4>1. k < m /\ k \in Nat /\ m \in Nat
        BY <1>5, <1>6, <1>7, <2>2, <3>1, Zenon
      <4> QED
        BY <4>1
    <3> QED
      BY <1>1, <1>8, <2>2, <3>1, Zenon
  <2>6. ASSUME NEW k \in steady, k <= m PROVE k \in Walked'
    BY <1>3, <1>8, <1>10, <1>11, <1>12, <2>1, <2>6, Zenon
  <2>7. walk' # "idle" /\ walk' # "done"
    BY <2>4, Zenon
  <2> QED
    BY <1>2, <1>8, <1>9, <2>2, <2>3, <2>5, <2>6, <2>7, Zenon DEF ReviewInv, SteadyAreSeen
<1>13. CASE pageCursor' = NoCursor /\ (scanned = {} \/ source = scanned)
  <2>1. walk' = "done" /\ walk' # "idle" /\ walk' # "walking"
    BY <1>2, <1>13, Zenon
  <2>2. steady' \subseteq Walked'
    BY <1>2, <1>3, <1>8, <1>10, <1>11, <1>13, Zenon
  <2>3. pageCursor'.key \in Nat
    BY <1>13, Zenon DEF NoCursor
  <2> QED
    BY <1>8, <1>9, <2>1, <2>2, <2>3, Zenon DEF ReviewInv, SteadyAreSeen
<1> QED
  BY <1>2, <1>12, <1>13, Zenon DEF NextCursor

\* A step that changes no page and no cursor, and only takes keys out of steady.
LEMMA WalkKept ==
    ASSUME ReviewInv, UNCHANGED <<pageCursor, seen>>, request' \in Queries,
           steady' \subseteq steady, steady' \subseteq {k \in Keys : Matches(request, k)}',
           walk' = walk \/ walk' = "refused"
    PROVE  ReviewInv'
<1>1. Walked' = Walked /\ (EachOnce' <=> EachOnce)
  BY Zenon DEF Walked, EachOnce
<1>2. CASE walk' = walk
  BY <1>1, <1>2, Zenon DEF ReviewInv, SteadyAreSeen
<1>3. CASE walk' = "refused"
  <2>1. walk' \notin {"idle", "walking", "done"}
    BY <1>3, Zenon
  <2> QED
    BY <1>1, <2>1, Zenon DEF ReviewInv, SteadyAreSeen
<1> QED
  BY <1>2, <1>3, Zenon

\* Every step keeps the invariant: the first and the next pages, the changes of rows, the
\* restarts and the other requests in between.
LEMMA ReviewStep == ReviewInv /\ [ReviewNext]_reviewVars => ReviewInv'
<1> SUFFICES ASSUME ReviewInv, [ReviewNext]_reviewVars PROVE ReviewInv'
  BY Zenon
<1> DEFINE M == {k \in Keys : Matches(request, k)}
<1>1. request \in Queries /\ steady \subseteq M
  BY Zenon DEF ReviewInv
<1>2. ASSUME UNCHANGED <<rows, policy, request>> PROVE M' = M
  BY <1>2, MatchesKept, Zenon
<1>3. CASE Begin
  <2>1. /\ walk' = "walking" /\ seen = <<>> /\ pageCursor = NoCursor /\ steady' = M
        /\ UNCHANGED <<rows, policy, request, pageCursor, seen>>
    BY <1>3, Zenon DEF Begin, ReviewInv
  <2>2. M' = M
    BY <1>2, <2>1, Zenon
  <2>3. DOMAIN <<>> = {} /\ <<>> \in Seq(SUBSET Keys) /\ NoCursor.key = 0
    BY DEF NoCursor
  <2>4. Walked' = {} /\ EachOnce'
    BY <2>1, <2>3, Zenon DEF Walked, EachOnce
  <2>5. ASSUME NEW k \in steady', k <= 0 PROVE FALSE
    <3>1. k \in Nat \ {0}
      BY <2>1, ReviewConstants, Zenon
    <3> QED
      BY <2>5, <3>1
  <2>6. walk' # "idle" /\ walk' # "done"
    BY <2>1, Zenon
  <2> QED
    BY <1>1, <2>1, <2>2, <2>3, <2>4, <2>5, <2>6, Zenon DEF ReviewInv, SteadyAreSeen
<1>4. CASE List
  <2>1. CASE Accepts(pageCursor)
    BY <1>4, <2>1, PageKeeps, Zenon
  <2>2. CASE ~Accepts(pageCursor)
    <3>1. walk' = "refused" /\ UNCHANGED <<rows, policy, request, pageCursor, seen, steady>>
      BY <1>4, <2>2, Zenon DEF List
    <3> QED
      BY <1>1, <1>2, <3>1, WalkKept, Zenon
  <2> QED
    BY <2>1, <2>2, Zenon
<1>5. CASE Restart
  <2>1. /\ UNCHANGED <<rows, request, pageCursor, walk, seen>>
        /\ steady' = {j \in steady : Matches(request, j)'}
    BY <1>5, Zenon DEF Restart
  <2> QED
    BY <1>1, <2>1, WalkKept, Zenon
<1>6. CASE Switch
  <2>1. /\ UNCHANGED <<rows, policy, pageCursor, walk, seen>> /\ request' \in Queries
        /\ steady' = {j \in steady : Matches(request', j)}
    BY <1>6, Zenon DEF Switch
  <2>2. \A j : Matches(request', j) <=> Matches(request, j)'
    BY <2>1, Zenon DEF Matches, Chosen, Kept
  <2> QED
    BY <1>1, <2>1, <2>2, WalkKept, Zenon
<1>7. ASSUME NEW k \in Keys, Change(k) PROVE ReviewInv'
  <2>1. /\ UNCHANGED <<policy, request, pageCursor, walk, seen>>
        /\ steady' = {j \in steady : Matches(request, j)'}
    BY <1>7, Zenon DEF Change
  <2> QED
    BY <1>1, <2>1, WalkKept, Zenon
<1>8. CASE UNCHANGED reviewVars
  <2>1. UNCHANGED <<rows, policy, request, pageCursor, walk, seen, steady>>
    BY <1>8, Zenon DEF reviewVars
  <2> QED
    BY <1>1, <1>2, <2>1, WalkKept, Zenon
<1> QED
  BY <1>3, <1>4, <1>5, <1>6, <1>7, <1>8, Zenon DEF ReviewNext

\* A walk over the pages of Service.List shows each candidate that matched all the time, and
\* none twice, whatever happens to the rows between two pages: it starts with the invariant,
\* which says that every key up to the cursor that stayed was shown.
THEOREM EachIsSeenOnce == ReviewSpec => []SeenOnce
<1>1. ReviewInit => ReviewInv
  <2> SUFFICES ASSUME ReviewInit PROVE ReviewInv
    BY Zenon
  <2>1. /\ request \in Queries /\ pageCursor = NoCursor /\ walk = "idle" /\ seen = <<>> /\ steady = {}
    BY Zenon DEF ReviewInit
  <2>2. DOMAIN <<>> = {} /\ <<>> \in Seq(SUBSET Keys) /\ NoCursor.key \in Nat
    BY DEF NoCursor
  <2>3. EachOnce
    BY <2>1, <2>2, Zenon DEF EachOnce
  <2>4. walk # "walking" /\ walk # "done"
    BY <2>1, Zenon
  <2> QED
    BY <2>1, <2>2, <2>3, <2>4, Zenon DEF ReviewInv, SteadyAreSeen
<1>2. ReviewInv => SeenOnce
  BY Zenon DEF ReviewInv, SeenOnce
<1> QED
  BY <1>1, <1>2, ReviewStep, PTL DEF ReviewSpec

\* What a walk has collected was selected by what its cursor is bound to; without a cursor
\* it has collected nothing yet.
OriginInv ==
    /\ walk = "idle" => origins = {} /\ pageCursor = NoCursor
    /\ walk = "walking" => IF pageCursor = NoCursor THEN origins = {}
                           ELSE origins \subseteq {pageCursor.binding}
    /\ PagesBelongTogether

\* A page and its candidates are selected by what the next cursor is bound to: a candidate
\* whose decision was made under another policy is not kept (List).
LEMMA SelectedByBinding ==
    ASSUME NEW shown, \A k \in shown : Kept(request, k)
    PROVE  OriginsOf(shown) \subseteq {Binding}
<1>1. \A p \in {policy} \union {rows[k].policy : k \in shown} : p = policy
  BY Zenon DEF Kept
<1> QED
  BY <1>1, Zenon DEF OriginsOf, Binding

\* A page that is added has the origin of the pages before it.
LEMMA OriginAdded ==
    ASSUME OriginInv, List, Accepts(pageCursor)
    PROVE  OriginInv'
<1>1. PICK source, scanned, shown :
         /\ source = SourceRows(request, pageCursor.key) /\ scanned = Scan(request, source)
         /\ shown = {k \in scanned : Kept(request, k)}
  BY Zenon
<1>2. /\ walk = "walking" /\ origins' = origins \union OriginsOf(shown)
      /\ pageCursor' = NextCursor(source, scanned, shown)
      /\ walk' = IF pageCursor' = NoCursor THEN "done" ELSE "walking"
  BY <1>1, Zenon DEF List
<1>3. origins \subseteq {Binding}
  BY <1>2, Zenon DEF OriginInv, Accepts
<1>4. OriginsOf(shown) \subseteq {Binding}
  BY <1>1, SelectedByBinding, Zenon
<1>5. origins' \subseteq {Binding} /\ PagesBelongTogether'
  BY <1>2, <1>3, <1>4, Zenon DEF PagesBelongTogether
<1>6. pageCursor' # NoCursor => pageCursor'.binding = Binding
  BY <1>2, Zenon DEF NextCursor, Encode
<1>7. walk' # "idle" /\ (walk' = "walking" => pageCursor' # NoCursor)
  BY <1>2, Zenon
<1> QED
  BY <1>5, <1>6, <1>7, Zenon DEF OriginInv

\* The pages and candidates of a walk were selected by one request, one start of the service
\* and one policy, for any rows, requests, policies and page sizes and any number of changes,
\* restarts and other requests between the pages (requestBinding and decodeCursor in List).
THEOREM PagesTogether == ReviewSpec => []PagesBelongTogether
<1>1. ReviewInit => OriginInv
  <2> SUFFICES ASSUME ReviewInit PROVE OriginInv
    BY Zenon
  <2>1. walk = "idle" /\ origins = {} /\ pageCursor = NoCursor
    BY Zenon DEF ReviewInit
  <2>2. walk # "walking"
    BY <2>1, Zenon
  <2> QED
    BY <2>1, <2>2, Zenon DEF OriginInv, PagesBelongTogether
<1>2. OriginInv /\ [ReviewNext]_reviewVars => OriginInv'
  <2> SUFFICES ASSUME OriginInv, [ReviewNext]_reviewVars PROVE OriginInv'
    BY Zenon
  <2>1. CASE Begin
    <3>1. /\ walk = "idle" /\ walk' = "walking" /\ UNCHANGED <<pageCursor, origins>>
      BY <2>1, Zenon DEF Begin
    <3>2. walk' # "idle"
      BY <3>1, Zenon
    <3> QED
      BY <3>1, <3>2, Zenon DEF OriginInv, PagesBelongTogether
  <2>2. CASE List
    <3>1. CASE Accepts(pageCursor)
      BY <2>2, <3>1, OriginAdded, Zenon
    <3>2. CASE ~Accepts(pageCursor)
      <4>1. walk' = "refused" /\ UNCHANGED <<pageCursor, origins>>
        BY <2>2, <3>2, Zenon DEF List
      <4>2. walk' # "idle" /\ walk' # "walking"
        BY <4>1, Zenon
      <4> QED
        BY <4>1, <4>2, Zenon DEF OriginInv, PagesBelongTogether
    <3> QED
      BY <3>1, <3>2, Zenon
  <2>3. ASSUME UNCHANGED <<pageCursor, walk, origins>> PROVE OriginInv'
    BY <2>3, Zenon DEF OriginInv, PagesBelongTogether
  <2>4. CASE Restart \/ Switch \/ (\E k \in Keys : Change(k)) \/ UNCHANGED reviewVars
    BY <2>3, <2>4, Zenon DEF Restart, Switch, Change, reviewVars
  <2> QED
    BY <2>1, <2>2, <2>4, Zenon DEF ReviewNext
<1>3. OriginInv => PagesBelongTogether
  BY Zenon DEF OriginInv
<1> QED
  BY <1>1, <1>2, <1>3, PTL DEF ReviewSpec
=============================================================================
